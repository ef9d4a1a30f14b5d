------------------------- MODULE ImageInputsProofs -------------------------
(***************************************************************************)
(* Every state function of a list finds what it reads, and a build that    *)
(* ends has made what its definition asks for.                             *)
(*                                                                         *)
(* A piece or a field is there after n states if one of them gives it and  *)
(* none of the later ones removes it (Supplied); the invariant is that     *)
(* what is supplied is there, whatever was suspended.  What remains is     *)
(* about the lists alone: which states each definition lists, and that     *)
(* whatever a listed state needs is supplied by the states before it.      *)
(***************************************************************************)
EXTENDS ImageBuildProofs

-----------------------------------------------------------------------------
(***************************************************************************)
(* The states that a definition lists, as a set.                           *)
(***************************************************************************)
Where(cond, names) == IF cond THEN names ELSE {}

GadgetNames(d) ==
    Where(d.gadget = "source", {"build_gadget_tree"})
      \cup {"prepare_gadget_tree", "load_gadget_yaml"}
UpgradeNames(d) == Where(d.pocket # "release", {"upgrade_packages"})
ExtraNames(d) ==
    IF "ppas" \in d.custom
    THEN {"add_extra_ppas", "install_packages", "clean_extra_ppas"}
    ELSE Where("packages" \in d.custom, {"install_packages"})
TarballNames(d) ==
    {"extract_rootfs_tar"} \cup UpgradeNames(d) \cup ExtraNames(d)
      \cup Where("snaps" \in d.custom, {"prepare_image", "preseed_image"})
SeedNames(d) ==
    {"germinate", "create_chroot"} \cup UpgradeNames(d)
      \cup (IF "ppas" \in d.custom THEN ExtraNames(d) ELSE {"install_packages"})
      \cup {"prepare_image", "preseed_image"}
RootfsNames(d) ==
    Where(d.gadget # "none", GadgetNames(d))
      \cup Where(d.artifacts \cap DiskArtifacts # {}, {"verify_artifact_names"})
      \cup CASE d.rootfs = "tarball" -> TarballNames(d)
             [] d.rootfs = "seed"    -> SeedNames(d)
             [] d.rootfs = "tasks"   -> {"build_rootfs_from_tasks"}
CustomizationNames(d) ==
    Where("cloudInit" \in d.custom, {"customize_cloud_init"})
      \cup Where("fstab" \in d.custom, {"customize_fstab"})
      \cup Where("manual" \in d.custom, {"perform_manual_customization"})
DiskNames == {"make_disk", "setup_bootloader"}
ImgNames(d) ==
    {"calculate_rootfs_size", "populate_bootfs_contents", "populate_prepare_partitions"}
      \cup Where("img" \in d.artifacts, DiskNames)
ArtifactNames(d) ==
    Where(d.gadget # "none", ImgNames(d))
      \cup Where("qcow2" \in d.artifacts, DiskNames \cup {"make_qcow2_image"})
      \cup Where("manifest" \in d.artifacts, {"generate_package_manifest"})
      \cup Where("filelist" \in d.artifacts, {"generate_filelist"})
      \cup Where("rootfsTar" \in d.artifacts, {"generate_rootfs_tarball"})
Listed(d) ==
    RootfsNames(d) \cup {"clean_rootfs", "customize_sources_list"} \cup CustomizationNames(d)
      \cup {"set_default_locale", "populate_rootfs_contents"}
      \cup Where(d.diskInfo, {"generate_disk_info"})
      \cup Where(d.artifacts # {}, ArtifactNames(d))

\* A list of known states, and the states in it.
Holds(s, names) == s \in Seq(ClassicNames) /\ Range(s) = names

LEMMA HoldsJoined ==
    ASSUME NEW s, NEW t, NEW m, NEW n, Holds(s, m), Holds(t, n)
    PROVE  Holds(s \o t, m \cup n)
<1>1. s \in Seq(ClassicNames) /\ t \in Seq(ClassicNames)
  BY DEF Holds
<1>2. s \o t \in Seq(ClassicNames)
  BY <1>1
<1>3. QED
  BY <1>1, <1>2, InJoined DEF Holds

LEMMA HoldsNone == Holds(<<>>, {})
  BY DEF Holds, Range

LEMMA HoldsOptional ==
    ASSUME NEW s, NEW m, NEW cond, Holds(s, m) PROVE Holds(If(cond, s), Where(cond, m))
  BY HoldsNone DEF If, Where

LEMMA HoldsOne == ASSUME NEW a \in ClassicNames PROVE Holds(<<a>>, {a})
  BY DEF Holds, Range

LEMMA HoldsTwo ==
    ASSUME NEW a \in ClassicNames, NEW b \in ClassicNames PROVE Holds(<<a, b>>, {a, b})
  BY DEF Holds, Range

LEMMA HoldsThree ==
    ASSUME NEW a \in ClassicNames, NEW b \in ClassicNames, NEW c \in ClassicNames
    PROVE  Holds(<<a, b, c>>, {a, b, c})
  BY DEF Holds, Range

LEMMA GadgetListed == ASSUME NEW d PROVE Holds(addGadgetStates(d), GadgetNames(d))
<1>1. Holds(If(d.gadget = "source", <<"build_gadget_tree">>),
            Where(d.gadget = "source", {"build_gadget_tree"}))
  BY HoldsOne, HoldsOptional, Known
<1>2. Holds(<<"prepare_gadget_tree", "load_gadget_yaml">>,
            {"prepare_gadget_tree", "load_gadget_yaml"})
  BY HoldsTwo, Known
<1>3. QED
  BY <1>1, <1>2, HoldsJoined DEF addGadgetStates, GadgetNames

LEMMA UpgradeListed ==
    ASSUME NEW d PROVE Holds(If(d.pocket # "release", <<"upgrade_packages">>), UpgradeNames(d))
  BY HoldsOne, HoldsOptional, Known DEF UpgradeNames

LEMMA ExtraListed == ASSUME NEW d PROVE Holds(extraPackageStates(d), ExtraNames(d))
<1>1. Holds(<<"add_extra_ppas", "install_packages", "clean_extra_ppas">>,
            {"add_extra_ppas", "install_packages", "clean_extra_ppas"})
  BY HoldsThree, Known
<1>2. Holds(If("packages" \in d.custom, <<"install_packages">>),
            Where("packages" \in d.custom, {"install_packages"}))
  BY HoldsOne, HoldsOptional, Known
<1>3. QED
  BY <1>1, <1>2 DEF extraPackageStates, ExtraNames

LEMMA TarballListed ==
    ASSUME NEW d PROVE Holds(addRootfsFromTarballStates(d), TarballNames(d))
<1> DEFINE tar == <<"extract_rootfs_tar">>
           upgrade == If(d.pocket # "release", <<"upgrade_packages">>)
           snaps == If("snaps" \in d.custom, <<"prepare_image", "preseed_image">>)
           snapNames == Where("snaps" \in d.custom, {"prepare_image", "preseed_image"})
<1>1. Holds(tar, {"extract_rootfs_tar"})
  BY HoldsOne, Known
<1>2. Holds(snaps, snapNames)
  BY HoldsTwo, HoldsOptional, Known
<1>3. Holds(upgrade, UpgradeNames(d)) /\ Holds(extraPackageStates(d), ExtraNames(d))
  BY UpgradeListed, ExtraListed
<1>4. addRootfsFromTarballStates(d) = ((tar \o upgrade) \o extraPackageStates(d)) \o snaps
  BY DEF addRootfsFromTarballStates
<1> HIDE DEF tar, upgrade, snaps, snapNames
<1>5. Holds(tar \o upgrade, {"extract_rootfs_tar"} \cup UpgradeNames(d))
  BY <1>1, <1>3, HoldsJoined
<1>6. Holds((tar \o upgrade) \o extraPackageStates(d),
            ({"extract_rootfs_tar"} \cup UpgradeNames(d)) \cup ExtraNames(d))
  BY <1>3, <1>5, HoldsJoined
<1>7. Holds(addRootfsFromTarballStates(d),
            (({"extract_rootfs_tar"} \cup UpgradeNames(d)) \cup ExtraNames(d)) \cup snapNames)
  BY <1>2, <1>4, <1>6, HoldsJoined
<1>8. QED
  BY <1>7 DEF TarballNames, snapNames

LEMMA SeedListed == ASSUME NEW d PROVE Holds(addRootfsFromSeedStates(d), SeedNames(d))
<1> DEFINE start == <<"germinate", "create_chroot">>
           upgrade == If(d.pocket # "release", <<"upgrade_packages">>)
           packages == IF "ppas" \in d.custom THEN extraPackageStates(d)
                       ELSE <<"install_packages">>
           packageNames == IF "ppas" \in d.custom THEN ExtraNames(d) ELSE {"install_packages"}
           snaps == <<"prepare_image", "preseed_image">>
<1>1. /\ Holds(start, {"germinate", "create_chroot"})
      /\ Holds(snaps, {"prepare_image", "preseed_image"})
  BY HoldsTwo, Known
<1>2. Holds(upgrade, UpgradeNames(d))
  BY UpgradeListed
<1>3. Holds(packages, packageNames)
  BY ExtraListed, HoldsOne, Known
<1>4. addRootfsFromSeedStates(d) = ((start \o upgrade) \o packages) \o snaps
  BY DEF addRootfsFromSeedStates
<1> HIDE DEF start, upgrade, packages, packageNames, snaps
<1>5. Holds(start \o upgrade, {"germinate", "create_chroot"} \cup UpgradeNames(d))
  BY <1>1, <1>2, HoldsJoined
<1>6. Holds((start \o upgrade) \o packages,
            ({"germinate", "create_chroot"} \cup UpgradeNames(d)) \cup packageNames)
  BY <1>3, <1>5, HoldsJoined
<1>7. Holds(addRootfsFromSeedStates(d),
            (({"germinate", "create_chroot"} \cup UpgradeNames(d)) \cup packageNames)
              \cup {"prepare_image", "preseed_image"})
  BY <1>1, <1>4, <1>6, HoldsJoined
<1>8. QED
  BY <1>7 DEF SeedNames, packageNames

LEMMA RootfsListed == ASSUME NEW d \in Definitions PROVE Holds(rootfsStates(d), RootfsNames(d))
<1> DEFINE gadget == If(d.gadget # "none", addGadgetStates(d))
           verify == If(d.artifacts \cap DiskArtifacts # {}, <<"verify_artifact_names">>)
           rootfs == CASE d.rootfs = "tarball" -> addRootfsFromTarballStates(d)
                       [] d.rootfs = "seed"    -> addRootfsFromSeedStates(d)
                       [] d.rootfs = "tasks"   -> <<"build_rootfs_from_tasks">>
           gadgetNames == Where(d.gadget # "none", GadgetNames(d))
           verifyNames == Where(d.artifacts \cap DiskArtifacts # {}, {"verify_artifact_names"})
           names == CASE d.rootfs = "tarball" -> TarballNames(d)
                      [] d.rootfs = "seed"    -> SeedNames(d)
                      [] d.rootfs = "tasks"   -> {"build_rootfs_from_tasks"}
<1>1. Holds(gadget, gadgetNames)
  BY GadgetListed, HoldsOptional
<1>2. Holds(verify, verifyNames)
  BY HoldsOne, HoldsOptional, Known
<1>3. Holds(rootfs, names)
  <2>1. Holds(<<"build_rootfs_from_tasks">>, {"build_rootfs_from_tasks"})
    BY HoldsOne, Known
  <2>2. d.rootfs \in {"seed", "tarball", "tasks"}
    BY DEF Definitions
  <2>3. QED
    BY <2>1, <2>2, TarballListed, SeedListed
<1>4. rootfsStates(d) = (gadget \o verify) \o rootfs
  BY DEF rootfsStates
<1>5. RootfsNames(d) = (gadgetNames \cup verifyNames) \cup names
  BY DEF RootfsNames
<1> HIDE DEF gadget, verify, rootfs, gadgetNames, verifyNames, names
<1>6. Holds(gadget \o verify, gadgetNames \cup verifyNames)
  BY <1>1, <1>2, HoldsJoined
<1>7. QED
  BY <1>3, <1>4, <1>5, <1>6, HoldsJoined

LEMMA CustomizationListed ==
    ASSUME NEW d PROVE Holds(addCustomizationStates(d), CustomizationNames(d))
<1> DEFINE cloudInit == If("cloudInit" \in d.custom, <<"customize_cloud_init">>)
           fstab == If("fstab" \in d.custom, <<"customize_fstab">>)
           manual == If("manual" \in d.custom, <<"perform_manual_customization">>)
           cloudInitNames == Where("cloudInit" \in d.custom, {"customize_cloud_init"})
           fstabNames == Where("fstab" \in d.custom, {"customize_fstab"})
           manualNames == Where("manual" \in d.custom, {"perform_manual_customization"})
<1>1. /\ Holds(cloudInit, cloudInitNames) /\ Holds(fstab, fstabNames)
      /\ Holds(manual, manualNames)
  BY HoldsOne, HoldsOptional, Known
<1>2. /\ addCustomizationStates(d) = (cloudInit \o fstab) \o manual
      /\ CustomizationNames(d) = (cloudInitNames \cup fstabNames) \cup manualNames
  BY DEF addCustomizationStates, CustomizationNames
<1> HIDE DEF cloudInit, fstab, manual, cloudInitNames, fstabNames, manualNames
<1>3. Holds(cloudInit \o fstab, cloudInitNames \cup fstabNames)
  BY <1>1, HoldsJoined
<1>4. QED
  BY <1>1, <1>2, <1>3, HoldsJoined

LEMMA DiskListed == Holds(diskStates, DiskNames)
  BY HoldsTwo, Known DEF diskStates, DiskNames

LEMMA ImgListed == ASSUME NEW d PROVE Holds(addImgStates(d), ImgNames(d))
<1> DEFINE sizes == <<"calculate_rootfs_size", "populate_bootfs_contents",
                      "populate_prepare_partitions">>
           sizeNames == {"calculate_rootfs_size", "populate_bootfs_contents",
                         "populate_prepare_partitions"}
           disk == If("img" \in d.artifacts, diskStates)
           diskNames == Where("img" \in d.artifacts, DiskNames)
<1>1. Holds(sizes, sizeNames)
  BY HoldsThree, Known
<1>2. Holds(disk, diskNames)
  BY DiskListed, HoldsOptional
<1>3. addImgStates(d) = sizes \o disk /\ ImgNames(d) = sizeNames \cup diskNames
  BY DEF addImgStates, ImgNames
<1> HIDE DEF sizes, sizeNames, disk, diskNames
<1>4. QED
  BY <1>1, <1>2, <1>3, HoldsJoined

\* With the disk of an img or its own, a qcow2 has one disk.
LEMMA Qcow2Listed ==
    ASSUME NEW s, NEW names, Holds(s, names),
           "make_disk" \in names => DiskNames \subseteq names
    PROVE  Holds(s \o addQcow2States(s), names \cup (DiskNames \cup {"make_qcow2_image"}))
<1> DEFINE last == <<"make_qcow2_image">>
           disk == If("make_disk" \notin Range(s), diskStates)
           diskNames == Where("make_disk" \notin Range(s), DiskNames)
<1>1. Holds(last, {"make_qcow2_image"})
  BY HoldsOne, Known
<1>2. Holds(disk, diskNames)
  BY DiskListed, HoldsOptional
<1>3. addQcow2States(s) = disk \o last
  BY DEF addQcow2States
<1>4. names \cup diskNames = names \cup DiskNames
  <2>1. CASE "make_disk" \in names
    BY <2>1 DEF Where, Holds
  <2>2. CASE "make_disk" \notin names
    BY <2>2 DEF Where, Holds
  <2>3. QED
    BY <2>1, <2>2
<1> HIDE DEF last, disk, diskNames
<1>5. Holds(addQcow2States(s), diskNames \cup {"make_qcow2_image"})
  BY <1>1, <1>2, <1>3, HoldsJoined
<1>6. Holds(s \o addQcow2States(s), names \cup (diskNames \cup {"make_qcow2_image"}))
  BY <1>5, HoldsJoined
<1>7. names \cup (diskNames \cup {"make_qcow2_image"})
        = names \cup (DiskNames \cup {"make_qcow2_image"})
  BY <1>4
<1>8. QED
  BY <1>6, <1>7

LEMMA ArtifactsListed == ASSUME NEW d PROVE Holds(addArtifactsStates(d), ArtifactNames(d))
<1> DEFINE img == If(d.gadget # "none", addImgStates(d))
           qcow2 == If("qcow2" \in d.artifacts, addQcow2States(img))
           manifest == If("manifest" \in d.artifacts, <<"generate_package_manifest">>)
           filelist == If("filelist" \in d.artifacts, <<"generate_filelist">>)
           tarball == If("rootfsTar" \in d.artifacts, <<"generate_rootfs_tarball">>)
           imgNames == Where(d.gadget # "none", ImgNames(d))
           qcow2Names == Where("qcow2" \in d.artifacts, DiskNames \cup {"make_qcow2_image"})
           manifestNames == Where("manifest" \in d.artifacts, {"generate_package_manifest"})
           filelistNames == Where("filelist" \in d.artifacts, {"generate_filelist"})
           tarballNames == Where("rootfsTar" \in d.artifacts, {"generate_rootfs_tarball"})
<1>1. Holds(img, imgNames)
  BY ImgListed, HoldsOptional
<1>2. "make_disk" \in imgNames => DiskNames \subseteq imgNames
  BY DEF ImgNames, Where, DiskNames
<1>3. /\ Holds(manifest, manifestNames) /\ Holds(filelist, filelistNames)
      /\ Holds(tarball, tarballNames)
  BY HoldsOne, HoldsOptional, Known
<1>4. Holds(img \o qcow2, imgNames \cup qcow2Names)
  <2> HIDE DEF img, imgNames
  <2>1. CASE "qcow2" \in d.artifacts
    <3>1. qcow2 = addQcow2States(img) /\ qcow2Names = DiskNames \cup {"make_qcow2_image"}
      BY <2>1 DEF If, Where
    <3>2. QED
      BY <1>1, <1>2, <3>1, Qcow2Listed
  <2>2. CASE "qcow2" \notin d.artifacts
    <3>1. qcow2 = <<>> /\ qcow2Names = {}
      BY <2>2 DEF If, Where
    <3>2. QED
      BY <1>1, <3>1, HoldsNone, HoldsJoined
  <2>3. QED
    BY <2>1, <2>2
<1>5. addArtifactsStates(d) = (((img \o qcow2) \o manifest) \o filelist) \o tarball
  BY DEF addArtifactsStates
<1>6. ArtifactNames(d)
        = (((imgNames \cup qcow2Names) \cup manifestNames) \cup filelistNames) \cup tarballNames
  BY DEF ArtifactNames
<1> HIDE DEF img, qcow2, manifest, filelist, tarball, imgNames, qcow2Names, manifestNames,
             filelistNames, tarballNames
<1>7. Holds((img \o qcow2) \o manifest, (imgNames \cup qcow2Names) \cup manifestNames)
  BY <1>3, <1>4, HoldsJoined
<1>8. Holds(((img \o qcow2) \o manifest) \o filelist,
            ((imgNames \cup qcow2Names) \cup manifestNames) \cup filelistNames)
  BY <1>3, <1>7, HoldsJoined
<1>9. QED
  BY <1>3, <1>5, <1>6, <1>8, HoldsJoined

LEMMA ClassicListed == ASSUME NEW d \in Definitions PROVE Holds(calculateStates(d), Listed(d))
<1> DEFINE rootfs == rootfsStates(d)
           middle == <<"clean_rootfs", "customize_sources_list">>
           middleNames == {"clean_rootfs", "customize_sources_list"}
           custom == addCustomizationStates(d)
           copy == <<"set_default_locale", "populate_rootfs_contents">>
           copyNames == {"set_default_locale", "populate_rootfs_contents"}
           info == If(d.diskInfo, <<"generate_disk_info">>)
           infoNames == Where(d.diskInfo, {"generate_disk_info"})
           artifacts == If(d.artifacts # {}, addArtifactsStates(d))
           artifactNames == Where(d.artifacts # {}, ArtifactNames(d))
<1>1. Holds(rootfs, RootfsNames(d)) /\ Holds(custom, CustomizationNames(d))
  BY RootfsListed, CustomizationListed
<1>2. Holds(middle, middleNames) /\ Holds(copy, copyNames)
  BY HoldsTwo, Known
<1>3. Holds(info, infoNames)
  BY HoldsOne, HoldsOptional, Known
<1>4. Holds(artifacts, artifactNames)
  BY ArtifactsListed, HoldsOptional
<1>5. calculateStates(d) = ((((rootfs \o middle) \o custom) \o copy) \o info) \o artifacts
  BY DEF calculateStates
<1>6. Listed(d) = ((((RootfsNames(d) \cup middleNames) \cup CustomizationNames(d))
                     \cup copyNames) \cup infoNames) \cup artifactNames
  BY DEF Listed
<1> HIDE DEF rootfs, middle, middleNames, custom, copy, copyNames, info, infoNames,
             artifacts, artifactNames
<1>7. Holds(rootfs \o middle, RootfsNames(d) \cup middleNames)
  BY <1>1, <1>2, HoldsJoined
<1>8. Holds((rootfs \o middle) \o custom,
            (RootfsNames(d) \cup middleNames) \cup CustomizationNames(d))
  BY <1>1, <1>7, HoldsJoined
<1>9. Holds(((rootfs \o middle) \o custom) \o copy,
            ((RootfsNames(d) \cup middleNames) \cup CustomizationNames(d)) \cup copyNames)
  BY <1>2, <1>8, HoldsJoined
<1>10. Holds((((rootfs \o middle) \o custom) \o copy) \o info,
             (((RootfsNames(d) \cup middleNames) \cup CustomizationNames(d))
               \cup copyNames) \cup infoNames)
  BY <1>3, <1>9, HoldsJoined
<1>11. QED
  BY <1>4, <1>5, <1>6, <1>10, HoldsJoined

-----------------------------------------------------------------------------
(***************************************************************************)
(* What is there after n states of the list.                               *)
(***************************************************************************)
Supply(d, i) == stateFunc(d, States(d)[i])

Supplied(d, p, n) ==
    \E i \in 1..n : /\ p \in Supply(d, i).gives
                    /\ \A j \in (i + 1)..n : p \notin Supply(d, j).drops

\* A suspension loses the name of a default qcow2 volume, and nothing else.
InputsInv ==
    /\ \A p : p # "Qcow2Volume" /\ Supplied(imageDef, p, Len(performed)) => p \in have
    /\ outcome = "done" => Len(performed) = Len(States(imageDef))
    /\ Valid(imageDef)

LEMMA InputsInit == Init => InputsInv
<1> SUFFICES ASSUME Init PROVE InputsInv
  OBVIOUS
<1>1. Len(performed) = 0 /\ outcome # "done" /\ Valid(imageDef)
  BY DEF Init
<1>2. ASSUME NEW p PROVE ~Supplied(imageDef, p, 0)
  BY DEF Supplied
<1>3. QED
  BY <1>1, <1>2 DEF InputsInv

LEMMA InputsStep == ASSUME Inv, InputsInv, [Next]_vars PROVE InputsInv'
<1>1. CASE Perform
  <2> DEFINE next == Len(performed) + 1
             name == States(imageDef)[next]
             f    == stateFunc(imageDef, name)
  <2>1. /\ imageDef' = imageDef /\ outcome = "building"
        /\ \/ /\ have' = (have \ f.drops) \cup f.gives
              /\ performed' = Append(performed, name) /\ outcome' = outcome
           \/ have' = have /\ performed' = performed /\ outcome' = "failed"
    BY <1>1, Performs
  <2>2. f = Supply(imageDef, next)
    BY DEF Supply
  <2>3. Len(performed) \in Nat /\ performed \in Seq(Names)
    BY InvTypes DEF Inv
  <2> HIDE DEF name, f
  <2>4. CASE performed' = Append(performed, name) /\ have' = (have \ f.drops) \cup f.gives
             /\ outcome' = outcome
    <3>1. Len(performed') = next
      BY <2>3, <2>4
    <3>2. ASSUME NEW p, p # "Qcow2Volume", Supplied(imageDef, p, next) PROVE p \in have'
      <4>1. PICK i \in 1..next : /\ p \in Supply(imageDef, i).gives
                                 /\ \A j \in (i + 1)..next : p \notin Supply(imageDef, j).drops
        BY <3>2 DEF Supplied
      <4>2. CASE i = next
        BY <2>2, <2>4, <4>1, <4>2
      <4>3. CASE i # next
        <5>1. i \in 1..Len(performed) /\ next \in (i + 1)..next
          BY <2>3, <4>3
        <5>2. \A j \in (i + 1)..Len(performed) : j \in (i + 1)..next
          BY <2>3
        <5>3. Supplied(imageDef, p, Len(performed))
          BY <4>1, <5>1, <5>2 DEF Supplied
        <5>4. p \in have
          BY <3>2, <5>3 DEF InputsInv
        <5>5. QED
          BY <2>2, <2>4, <4>1, <5>1, <5>4
      <4>4. QED
        BY <4>2, <4>3
    <3>3. QED
      BY <2>1, <2>4, <3>1, <3>2 DEF InputsInv
  <2>5. CASE have' = have /\ performed' = performed /\ outcome' = "failed"
    BY <2>1, <2>5 DEF InputsInv
  <2>6. QED
    BY <2>1, <2>4, <2>5
<1>2. CASE Resume
  <2>1. Fields \ loadState \subseteq {"Qcow2Volume"}
    BY DEF loadState
  <2>2. \A p : p \in have /\ p # "Qcow2Volume" => p \in have'
    BY <1>2, <2>1 DEF Resume
  <2>3. QED
    BY <1>2, <2>2 DEF Resume, InputsInv
<1>3. CASE Finish
  <2>1. Len(performed) = Len(States(imageDef))
    <3>1. toPerform = SubSeq(States(imageDef), Len(performed) + 1, Len(States(imageDef)))
      BY DEF toPerform, remaining
    <3>2. /\ Len(performed) + 1 \in Int /\ Len(States(imageDef)) \in Int
          /\ Len(performed) <= Len(States(imageDef))
      BY InvTypes DEF Inv
    <3>3. Len(performed) + 1 > Len(States(imageDef))
      <4>1. SUFFICES ASSUME Len(performed) + 1 <= Len(States(imageDef)) PROVE FALSE
        BY <3>2
      <4>2. \A i \in (Len(performed) + 1)..Len(States(imageDef)) : States(imageDef)[i] \in Names
        BY InvTypes
      <4>3. Len(toPerform) = Len(States(imageDef)) - (Len(performed) + 1) + 1
        BY <3>1, <3>2, <4>1, <4>2, SubSeqProperties
      <4>4. Len(toPerform) = 0
        BY <1>3 DEF Finish
      <4>5. QED
        BY <3>2, <4>1, <4>3, <4>4
    <3>4. QED
      BY <3>2, <3>3
  <2>2. QED
    BY <1>3, <2>1 DEF Finish, InputsInv
<1>4. CASE UNCHANGED vars
  BY <1>4 DEF vars, InputsInv
<1>5. QED
  BY <1>1, <1>2, <1>3, <1>4 DEF Next

LEMMA InputsAlways == Spec => [](Inv /\ InputsInv)
<1>1. Inv /\ InputsInv /\ [Next]_vars => InputsInv'
  BY InputsStep
<1>2. QED
  BY <1>1, InputsInit, Invariant, PTL DEF Spec

-----------------------------------------------------------------------------
(***************************************************************************)
(* The lists of classic images: a state whose inputs are given by another  *)
(* is listed with it, and later.                                           *)
(***************************************************************************)
Classic(d) == d \in Definitions /\ d.type # "snap" /\ Valid(d) /\ Buildable(d)

LEMMA AlwaysListed ==
    ASSUME NEW d
    PROVE  /\ {"clean_rootfs", "customize_sources_list", "populate_rootfs_contents"}
                \subseteq Listed(d)
           /\ RootfsNames(d) \subseteq Listed(d) /\ CustomizationNames(d) \subseteq Listed(d)
  BY DEF Listed

\* Names of one part of the list are in no other.
LEMMA ListedIn ==
    ASSUME NEW d \in Definitions, NEW name \in Listed(d)
    PROVE  /\ Place(name) < 15 => name \in RootfsNames(d)
           /\ 22 < Place(name) => d.artifacts # {} /\ name \in ArtifactNames(d)
           /\ Place(name) = 22 => d.diskInfo
<1> DEFINE Early(n) == Place(n) < 15 /\ ~(22 < Place(n)) /\ Place(n) # 22
           Middle(n) == ~(Place(n) < 15) /\ ~(22 < Place(n)) /\ Place(n) # 22
           Late(n) == ~(Place(n) < 15) /\ 22 < Place(n) /\ Place(n) # 22
<1>1. \A n \in {"clean_rootfs", "customize_sources_list", "set_default_locale",
                "populate_rootfs_contents"} : Middle(n)
  BY PlaceOf
<1>2. \A n \in CustomizationNames(d) : Middle(n)
  BY PlaceOf DEF CustomizationNames, Where
<1>3. \A n \in RootfsNames(d) : Early(n)
  <2>1. \A n \in ExtraNames(d) \cup UpgradeNames(d) \cup GadgetNames(d) : Early(n)
    BY PlaceOf DEF ExtraNames, UpgradeNames, GadgetNames, Where
  <2>2. \A n \in TarballNames(d) \cup SeedNames(d) : Early(n)
    BY <2>1, PlaceOf DEF TarballNames, SeedNames, Where
  <2>3. Early("verify_artifact_names") /\ Early("build_rootfs_from_tasks")
    BY PlaceOf
  <2>4. d.rootfs \in {"seed", "tarball", "tasks"}
    BY DEF Definitions
  <2> HIDE DEF Early
  <2>5. QED
    BY <2>1, <2>2, <2>3, <2>4 DEF RootfsNames, Where
<1>4. \A n \in ArtifactNames(d) : Late(n)
  <2>1. \A n \in ImgNames(d) \cup DiskNames : Late(n)
    BY PlaceOf DEF ImgNames, DiskNames, Where
  <2>2. QED
    BY <2>1, PlaceOf DEF ArtifactNames, Where
<1>5. Place("generate_disk_info") = 22 /\ ~(22 < 15) /\ ~(22 < 22)
  BY PlaceOf
<1>6. \/ name \in RootfsNames(d) \/ name \in CustomizationNames(d)
      \/ name \in {"clean_rootfs", "customize_sources_list", "set_default_locale",
                   "populate_rootfs_contents"}
      \/ d.diskInfo /\ name = "generate_disk_info"
      \/ d.artifacts # {} /\ name \in ArtifactNames(d)
  BY DEF Listed, Where
<1>7. QED
  BY <1>1, <1>2, <1>3, <1>4, <1>5, <1>6

\* Both ways of making the rootfs of an image that can be built.
LEMMA RootfsOf ==
    ASSUME NEW d, Classic(d)
    PROVE  \/ d.rootfs = "seed" /\ SeedNames(d) \subseteq Listed(d)
           \/ d.rootfs = "tarball" /\ TarballNames(d) \subseteq Listed(d)
<1>1. d.rootfs \in {"seed", "tarball"}
  BY DEF Classic, Definitions, Buildable
<1>2. QED
  BY <1>1, AlwaysListed DEF RootfsNames

LEMMA GadgetOf ==
    ASSUME NEW d, Classic(d), NEW name \in Listed(d)
    PROVE  /\ Place(name) < 4 => d.gadget # "none" /\ name \in GadgetNames(d)
           /\ Place(name) = 4 => d.gadget # "none" /\ "verify_artifact_names" \in Listed(d)
           /\ d.gadget # "none" => GadgetNames(d) \subseteq Listed(d)
<1>1. d.gadget # "none" => GadgetNames(d) \subseteq Listed(d)
  BY AlwaysListed DEF RootfsNames, Where
<1>2. \A n \in TarballNames(d) \cup SeedNames(d) : 4 < Place(n)
  <2>1. \A n \in ExtraNames(d) \cup UpgradeNames(d) : 4 < Place(n)
    BY PlaceOf DEF ExtraNames, UpgradeNames, Where
  <2>2. QED
    BY <2>1, PlaceOf DEF TarballNames, SeedNames, Where
<1>3. \A n \in GadgetNames(d) : Place(n) < 4
  BY PlaceOf DEF GadgetNames, Where
<1>4. ASSUME name \in RootfsNames(d), ~(4 < Place(name))
      PROVE  \/ d.gadget # "none" /\ name \in GadgetNames(d)
             \/ d.artifacts \cap DiskArtifacts # {} /\ name = "verify_artifact_names"
  BY <1>2, <1>4, RootfsOf DEF RootfsNames, Where
<1>5. d.artifacts \cap DiskArtifacts # {} => d.gadget # "none"
  BY DEF Classic, Valid
<1>6. ASSUME ~(4 < Place(name)) PROVE name \in RootfsNames(d)
  <2>1. Listed(d) \subseteq ClassicNames
    BY ClassicListed DEF Classic, Holds, Range
  <2>2. Place(name) < 15
    BY <1>6, <2>1, Places
  <2>3. QED
    BY <2>2, ListedIn DEF Classic
<1>7. Place("verify_artifact_names") = 4
  BY PlaceOf
<1>8. Place(name) < 4 \/ Place(name) = 4 => ~(4 < Place(name))
  <2>1. Listed(d) \subseteq ClassicNames
    BY ClassicListed DEF Classic, Holds, Range
  <2>2. QED
    BY <2>1, Places
<1>9. QED
  BY <1>1, <1>3, <1>4, <1>5, <1>6, <1>7, <1>8

-----------------------------------------------------------------------------
(***************************************************************************)
(* Where each input comes from.                                            *)
(***************************************************************************)
\* A listed state before name gives p, and none in between removes it.
Sourced(d, name, p) ==
    \E a \in Listed(d) :
      /\ Place(a) < Place(name)
      /\ p \in stateFunc(d, a).gives
      /\ \A m \in ClassicNames :
            p \in stateFunc(d, m).drops => ~(Place(a) < Place(m)) \/ ~(Place(m) < Place(name))

LEMMA ClassicTypes ==
    ASSUME NEW d, Classic(d)
    PROVE  LET s == States(d) IN
           /\ s \in Seq(ClassicNames) /\ Len(s) \in Nat /\ DOMAIN s = 1..Len(s)
           /\ Range(s) = Listed(d) /\ Listed(d) \subseteq ClassicNames
           /\ \A i, j \in DOMAIN s : i < j => Place(s[i]) < Place(s[j])
           /\ \A i, j \in DOMAIN s : Place(s[i]) < Place(s[j]) => i < j
<1>1. States(d) = calculateStates(d)
  BY DEF States, Classic
<1>2. Part(States(d), 1, 31) /\ Holds(States(d), Listed(d))
  BY <1>1, ClassicList, ClassicListed DEF Classic
<1>3. /\ States(d) \in Seq(ClassicNames) /\ Range(States(d)) = Listed(d)
      /\ \A i, j \in DOMAIN States(d) : i < j => Place(States(d)[i]) < Place(States(d)[j])
  BY <1>2 DEF Part, Ascending, Holds
<1>4. Listed(d) \subseteq ClassicNames
  BY <1>3 DEF Range
<1>5. \A i \in DOMAIN States(d) : Place(States(d)[i]) \in Nat
  <2>1. \A i \in DOMAIN States(d) : States(d)[i] \in ClassicNames
    BY <1>3
  <2>2. QED
    BY <2>1, Places
<1>6. ASSUME NEW i \in DOMAIN States(d), NEW j \in DOMAIN States(d),
             Place(States(d)[i]) < Place(States(d)[j])
      PROVE  i < j
  <2>1. i = j \/ i < j \/ j < i
    BY <1>3
  <2>2. QED
    BY <1>3, <1>5, <1>6, <2>1
<1>7. QED
  BY <1>3, <1>4, <1>6

LEMMA SourcedSupplied ==
    ASSUME NEW d, Classic(d), NEW i \in DOMAIN States(d), NEW p, Sourced(d, States(d)[i], p)
    PROVE  Supplied(d, p, i - 1)
<1> DEFINE s == States(d)
<1>1. PICK a \in Listed(d) :
        /\ Place(a) < Place(s[i]) /\ p \in stateFunc(d, a).gives
        /\ \A m \in ClassicNames :
              p \in stateFunc(d, m).drops => ~(Place(a) < Place(m)) \/ ~(Place(m) < Place(s[i]))
  BY DEF Sourced
<1>2. PICK k \in DOMAIN s : s[k] = a
  <2>1. a \in Range(s)
    BY ClassicTypes
  <2>2. QED
    BY <2>1 DEF Range
<1>3. k < i
  BY <1>1, <1>2, ClassicTypes
<1>4. DOMAIN s = 1..Len(s) /\ Len(s) \in Nat
  BY ClassicTypes
<1>5. k \in 1..(i - 1) /\ p \in Supply(d, k).gives
  BY <1>1, <1>2, <1>3, <1>4 DEF Supply
<1>6. ASSUME NEW j \in (k + 1)..(i - 1) PROVE p \notin Supply(d, j).drops
  <2>1. j \in DOMAIN s /\ k < j /\ j < i
    BY <1>4
  <2>2. Place(a) < Place(s[j]) /\ Place(s[j]) < Place(s[i]) /\ s[j] \in ClassicNames
    BY <1>2, <2>1, ClassicTypes
  <2>3. QED
    BY <1>1, <2>2 DEF Supply
<1>7. QED
  BY <1>5, <1>6 DEF Supplied

\* What the states of a classic list remove.
LEMMA ClassicDrops ==
    ASSUME NEW d, d.type # "snap", NEW m \in ClassicNames
    PROVE  /\ stateFunc(d, m).drops \subseteq Unwanted \cup {"rootfs"}
           /\ "ppa sources" \in stateFunc(d, m).drops => m = "clean_extra_ppas"
<1> DEFINE Few(n, f) == /\ f.drops \subseteq Unwanted \cup {"rootfs"}
                        /\ "ppa sources" \in f.drops => n = "clean_extra_ppas"
<1>1. \A n \in ClassicNames \ {"clean_extra_ppas"} :
        stateFunc(d, n).drops \subseteq {"secrets", "build sources", "rootfs"}
  <2> DEFINE Mild(f) == f.drops \subseteq {"secrets", "build sources", "rootfs"}
  <2> USE DEF Effect
  <2>1. /\ Mild(buildGadgetTree) /\ Mild(prepareGadgetTree(d)) /\ Mild(loadGadgetYaml)
        /\ Mild(verifyArtifactNames(d)) /\ Mild(germinate)
    BY DEF buildGadgetTree, prepareGadgetTree, loadGadgetYaml, verifyArtifactNames, germinate
  <2>2. /\ Mild(createChroot(d)) /\ Mild(extractRootfsTar) /\ Mild(buildRootfsFromTasks)
        /\ Mild(upgradePackages) /\ Mild(addExtraPPAs)
    BY DEF createChroot, extractRootfsTar, buildRootfsFromTasks, upgradePackages, addExtraPPAs
  <2>3. /\ Mild(installPackages(d)) /\ Mild(prepareClassicImage(d))
        /\ Mild(preseedClassicImage) /\ Mild(cleanRootfs) /\ Mild(customizeSourcesList)
    BY DEF installPackages, prepareClassicImage, preseedClassicImage, cleanRootfs,
           customizeSourcesList
  <2>4. /\ Mild(customizeCloudInit) /\ Mild(customizeFstab) /\ Mild(manualCustomization)
        /\ Mild(setDefaultLocale) /\ Mild(populateClassicRootfsContents)
    BY DEF customizeCloudInit, customizeFstab, manualCustomization, setDefaultLocale,
           populateClassicRootfsContents
  <2>5. /\ Mild(generateDiskInfo(d)) /\ Mild(calculateRootfsSize)
        /\ Mild(populateBootfsContents) /\ Mild(populatePreparePartitions) /\ Mild(makeDisk)
    BY DEF generateDiskInfo, calculateRootfsSize, populateBootfsContents,
           populatePreparePartitions, makeDisk
  <2>6. /\ Mild(setupBootloader) /\ Mild(makeQcow2Img) /\ Mild(generatePackageManifest)
        /\ Mild(generateFilelist) /\ Mild(generateRootfsTarball)
    BY DEF setupBootloader, makeQcow2Img, generatePackageManifest, generateFilelist,
           generateRootfsTarball
  <2> HIDE DEF Effect, Mild
  <2>7. \A n \in ClassicNames \ {"clean_extra_ppas"} : Mild(stateFunc(d, n))
    BY <2>1, <2>2, <2>3, <2>4, <2>5, <2>6, ClassicFunctions DEF ClassicNames
  <2>8. QED
    BY <2>7 DEF Mild
<1>2. stateFunc(d, "clean_extra_ppas").drops = {"ppa sources", "rootfs"}
  <2>1. stateFunc(d, "clean_extra_ppas") = cleanExtraPPAs
    BY ClassicFunctions
  <2>2. QED
    <3>1. cleanExtraPPAs.drops = {"ppa sources", "rootfs"}
      BY DEF cleanExtraPPAs, Effect
    <3>2. QED
      BY <2>1, <3>1
<1>3. QED
  BY <1>1, <1>2 DEF Unwanted

LEMMA Lasting ==
    ASSUME NEW d, Classic(d), NEW a \in Listed(d), NEW name, Place(a) < Place(name),
           NEW p \in stateFunc(d, a).gives, p \notin Unwanted \cup {"rootfs"}
    PROVE  Sourced(d, name, p)
  BY ClassicDrops DEF Sourced, Classic

LEMMA RootfsSourced ==
    ASSUME NEW d, Classic(d), NEW name, 21 < Place(name) PROVE Sourced(d, name, "rootfs")
<1> DEFINE a == "populate_rootfs_contents"
<1>1. a \in Listed(d) /\ Place(a) = 21
  BY AlwaysListed, PlaceOf
<1>2. "rootfs" \in stateFunc(d, a).gives
  BY ClassicFunctions DEF Classic, populateClassicRootfsContents, Effect
<1>3. ASSUME NEW m \in ClassicNames, "rootfs" \in stateFunc(d, m).drops
      PROVE  ~(Place(a) < Place(m))
  <2>1. InItsPlace(m, stateFunc(d, m)) /\ Place(m) \in Nat
    BY ClassicEffects, Places DEF Classic
  <2>2. Place(m) < Place(a)
    BY <1>3, <2>1 DEF InItsPlace
  <2>3. QED
    BY <1>1, <2>1, <2>2
<1>4. QED
  BY <1>1, <1>2, <1>3 DEF Sourced

LEMMA ChrootSourced ==
    ASSUME NEW d, Classic(d), NEW name, 8 < Place(name), Place(name) \in Nat
    PROVE  Sourced(d, name, "chroot")
<1>1. CASE d.rootfs = "seed"
  <2>1. "create_chroot" \in Listed(d) /\ Place("create_chroot") < Place(name)
    BY <1>1, RootfsOf, PlaceOf DEF SeedNames
  <2>2. "chroot" \in stateFunc(d, "create_chroot").gives
    <3>1. stateFunc(d, "create_chroot") = createChroot(d)
      BY ClassicFunctions DEF Classic
    <3>2. "chroot" \in createChroot(d).gives
      BY DEF createChroot, Effect
    <3>3. QED
      BY <3>1, <3>2
  <2>3. QED
    BY <2>1, <2>2, Lasting DEF Unwanted
<1>2. CASE d.rootfs = "tarball"
  <2>1. "extract_rootfs_tar" \in Listed(d) /\ Place("extract_rootfs_tar") < Place(name)
    BY <1>2, RootfsOf, PlaceOf DEF TarballNames
  <2>2. "chroot" \in stateFunc(d, "extract_rootfs_tar").gives
    <3>1. stateFunc(d, "extract_rootfs_tar") = extractRootfsTar
      BY ClassicFunctions DEF Classic
    <3>2. "chroot" \in extractRootfsTar.gives
      BY DEF extractRootfsTar, Effect
    <3>3. QED
      BY <3>1, <3>2
  <2>3. QED
    BY <2>1, <2>2, Lasting DEF Unwanted
<1>3. QED
  BY <1>1, <1>2, RootfsOf

GadgetFields == {"GadgetInfo", "VolumeOrder", "ImageSizes", "SectorSize", "IsSeeded",
                 "MainVolumeName"}

\* What the states that make the disk read.
PartitionNeeds == {"GadgetInfo", "VolumeOrder", "ImageSizes", "SectorSize", "IsSeeded",
                   "RootfsSize", "rootfs", "boot contents"}
DiskNeeds == {"GadgetInfo", "VolumeNames", "ImageSizes", "SectorSize", "IsSeeded", "partitions"}
BootloaderNeeds == {"GadgetInfo", "SectorSize", "RootfsVolName", "RootfsPartNum", "BootPartNum",
                    "HasBIOSPartition", "img"}

\* What make_disk gives.
DiskPieces == {"img", "RootfsVolName", "RootfsPartNum", "BootPartNum", "HasBIOSPartition"}

LEMMA GadgetSourced ==
    ASSUME NEW d, Classic(d), d.gadget # "none", NEW name, Place(name) \in Nat
    PROVE  /\ 2 < Place(name) => /\ Sourced(d, name, "YamlFilePath")
                                 /\ Sourced(d, name, "unpack/gadget")
           /\ 3 < Place(name) => \A p \in GadgetFields : Sourced(d, name, p)
<1>1. /\ "prepare_gadget_tree" \in Listed(d) /\ Place("prepare_gadget_tree") = 2
      /\ "load_gadget_yaml" \in Listed(d) /\ Place("load_gadget_yaml") = 3
  BY AlwaysListed, PlaceOf DEF RootfsNames, GadgetNames, Where
<1>2. {"unpack/gadget", "YamlFilePath"} \subseteq stateFunc(d, "prepare_gadget_tree").gives
  BY ClassicFunctions DEF Classic, prepareGadgetTree, Effect
<1>3. GadgetFields \subseteq stateFunc(d, "load_gadget_yaml").gives
  BY ClassicFunctions DEF Classic, loadGadgetYaml, Effect, GadgetFields
<1>4. (GadgetFields \cup {"unpack/gadget", "YamlFilePath"})
        \cap (Unwanted \cup {"rootfs"}) = {}
  BY DEF GadgetFields, Unwanted
<1>5. QED
  BY <1>1, <1>2, <1>3, <1>4, Lasting

SizeNames == {"calculate_rootfs_size", "populate_bootfs_contents", "populate_prepare_partitions"}

\* A disk image is listed with the gadget, the sizes, the partitions and the
\* names of the images.
LEMMA ArtifactsOf ==
    ASSUME NEW d, Classic(d), NEW name \in Listed(d), 22 < Place(name), Place(name) < 29
    PROVE  /\ d.gadget # "none" /\ SizeNames \subseteq Listed(d)
           /\ 25 < Place(name) => DiskNames \cup {"verify_artifact_names"} \subseteq Listed(d)
           /\ name = "make_qcow2_image" => "qcow2" \in d.artifacts
<1>1. d.artifacts # {} /\ name \in ArtifactNames(d) /\ ArtifactNames(d) \subseteq Listed(d)
  <2>1. d.artifacts # {} /\ name \in ArtifactNames(d)
    BY ListedIn DEF Classic
  <2>2. QED
    BY <2>1 DEF Listed, Where
<1>2. \/ d.gadget # "none" /\ name \in ImgNames(d)
      \/ "qcow2" \in d.artifacts /\ name \in DiskNames \cup {"make_qcow2_image"}
  <2>1. /\ ~(Place("generate_package_manifest") < 29) /\ ~(Place("generate_filelist") < 29)
        /\ ~(Place("generate_rootfs_tarball") < 29)
    BY PlaceOf
  <2>2. QED
    BY <1>1, <2>1 DEF ArtifactNames, Where
<1>3. d.artifacts \cap DiskArtifacts # {} => d.gadget # "none"
  BY DEF Classic, Valid
<1>4. "qcow2" \in DiskArtifacts /\ "img" \in DiskArtifacts
  BY DEF DiskArtifacts
<1>5. d.gadget # "none"
  BY <1>2, <1>3, <1>4
<1>6. ImgNames(d) \subseteq Listed(d) /\ SizeNames \subseteq ImgNames(d)
  BY <1>1, <1>5 DEF ArtifactNames, ImgNames, SizeNames, Where
<1>7. ASSUME 25 < Place(name) PROVE "img" \in d.artifacts \/ "qcow2" \in d.artifacts
  <2>1. \A n \in SizeNames : ~(25 < Place(n))
    BY PlaceOf DEF SizeNames
  <2>2. QED
    BY <1>2, <1>7, <2>1 DEF ImgNames, SizeNames, Where
<1>8. "img" \in d.artifacts \/ "qcow2" \in d.artifacts
        => DiskNames \cup {"verify_artifact_names"} \subseteq Listed(d)
  <2>1. ASSUME "img" \in d.artifacts \/ "qcow2" \in d.artifacts
        PROVE  DiskNames \subseteq ArtifactNames(d)
    BY <1>5, <2>1 DEF ArtifactNames, ImgNames, Where
  <2>2. ASSUME "img" \in d.artifacts \/ "qcow2" \in d.artifacts
        PROVE  "verify_artifact_names" \in RootfsNames(d)
    <3>1. d.artifacts \cap DiskArtifacts # {}
      BY <1>4, <2>2
    <3>2. QED
      BY <3>1 DEF RootfsNames, Where
  <2>3. QED
    BY <1>1, <2>1, <2>2, AlwaysListed
<1>9. name = "make_qcow2_image" => "qcow2" \in d.artifacts
  BY <1>2 DEF ImgNames, DiskNames, Where
<1>10. QED
  BY <1>5, <1>6, <1>7, <1>8, <1>9

\* What the states from the rootfs on give one another.
LEMMA ImageSourced ==
    ASSUME NEW d, Classic(d), NEW name \in Listed(d), 22 < Place(name), Place(name) < 29,
           Place(name) \in Nat
    PROVE  /\ Sourced(d, name, "rootfs")
           /\ Sourced(d, name, "unpack/gadget")
           /\ \A p \in GadgetFields : Sourced(d, name, p)
           /\ 23 < Place(name) => Sourced(d, name, "RootfsSize")
           /\ 24 < Place(name) => Sourced(d, name, "boot contents")
           /\ 25 < Place(name) => /\ Sourced(d, name, "partitions")
                                  /\ Sourced(d, name, "VolumeNames")
           /\ 26 < Place(name) => \A p \in DiskPieces :
                                    Sourced(d, name, p)
<1>1. /\ d.gadget # "none" /\ SizeNames \subseteq Listed(d)
      /\ 25 < Place(name) => DiskNames \cup {"verify_artifact_names"} \subseteq Listed(d)
  BY ArtifactsOf
<1>2. Sourced(d, name, "rootfs")
  BY RootfsSourced
<1>3. Sourced(d, name, "unpack/gadget") /\ \A p \in GadgetFields : Sourced(d, name, p)
  BY <1>1, GadgetSourced
<1>4. /\ stateFunc(d, "calculate_rootfs_size") = calculateRootfsSize
      /\ stateFunc(d, "populate_bootfs_contents") = populateBootfsContents
      /\ stateFunc(d, "populate_prepare_partitions") = populatePreparePartitions
      /\ stateFunc(d, "verify_artifact_names") = verifyArtifactNames(d)
      /\ stateFunc(d, "make_disk") = makeDisk
  BY ClassicFunctions DEF Classic
<1>5. /\ "RootfsSize" \in calculateRootfsSize.gives
      /\ "boot contents" \in populateBootfsContents.gives
      /\ "partitions" \in populatePreparePartitions.gives
      /\ "VolumeNames" \in verifyArtifactNames(d).gives
  BY DEF calculateRootfsSize, populateBootfsContents, populatePreparePartitions,
         verifyArtifactNames, Effect
<1>6. DiskPieces \subseteq makeDisk.gives
  BY DEF DiskPieces, makeDisk, Effect
<1>7. ({"RootfsSize", "boot contents", "partitions", "VolumeNames"}
         \cup DiskPieces) \cap (Unwanted \cup {"rootfs"}) = {}
  BY DEF DiskPieces, Unwanted
<1>8. /\ Place("calculate_rootfs_size") = 23 /\ Place("populate_bootfs_contents") = 24
      /\ Place("populate_prepare_partitions") = 25 /\ Place("verify_artifact_names") = 4
      /\ Place("make_disk") = 26
  BY PlaceOf
<1>9. /\ "calculate_rootfs_size" \in Listed(d) /\ "populate_bootfs_contents" \in Listed(d)
      /\ "populate_prepare_partitions" \in Listed(d)
  BY <1>1 DEF SizeNames
<1>10. 25 < Place(name) => "verify_artifact_names" \in Listed(d) /\ "make_disk" \in Listed(d)
  BY <1>1 DEF DiskNames
<1>11. 23 < Place(name) => Sourced(d, name, "RootfsSize")
  <2>1. "RootfsSize" \in stateFunc(d, "calculate_rootfs_size").gives
    BY <1>4, <1>5
  <2>2. QED
    BY <1>7, <1>8, <1>9, <2>1, Lasting
<1>12. 24 < Place(name) => Sourced(d, name, "boot contents")
  <2>1. "boot contents" \in stateFunc(d, "populate_bootfs_contents").gives
    BY <1>4, <1>5
  <2>2. QED
    BY <1>7, <1>8, <1>9, <2>1, Lasting
<1>13. 25 < Place(name) => Sourced(d, name, "partitions")
  <2>1. "partitions" \in stateFunc(d, "populate_prepare_partitions").gives
    BY <1>4, <1>5
  <2>2. QED
    BY <1>7, <1>8, <1>9, <2>1, Lasting
<1>14. 25 < Place(name) => Sourced(d, name, "VolumeNames")
  <2>1. "VolumeNames" \in stateFunc(d, "verify_artifact_names").gives
    BY <1>4, <1>5
  <2>2. 25 < Place(name) => Place("verify_artifact_names") < Place(name)
    BY <1>8
  <2>3. QED
    BY <1>7, <1>10, <2>1, <2>2, Lasting
<1>15. ASSUME 26 < Place(name), NEW p \in DiskPieces
       PROVE  Sourced(d, name, p)
  <2>1. p \in stateFunc(d, "make_disk").gives
    BY <1>4, <1>6
  <2>2. Place("make_disk") < Place(name) /\ "make_disk" \in Listed(d)
    BY <1>8, <1>10, <1>15
  <2>3. QED
    BY <1>7, <2>1, <2>2, Lasting
<1>16. QED
  BY <1>2, <1>3, <1>11, <1>12, <1>13, <1>14, <1>15

-----------------------------------------------------------------------------
(***************************************************************************)
(* Every listed state finds what it needs: in the definition, or given by  *)
(* an earlier state.                                                       *)
(***************************************************************************)
Found(d, name, p) ==
    p \in FromDefinition(d) \/ (p # "Qcow2Volume" /\ Sourced(d, name, p))

LEMMA FoundInDefinition ==
    ASSUME NEW d, Classic(d)
    PROVE  /\ "Customization" \in FromDefinition(d)
           /\ "qcow2" \in d.artifacts => "Qcow2Volume" \in FromDefinition(d)
<1>1. d.type = "classic"
  BY DEF Classic, Definitions
<1>2. /\ "present" \in d.custom
      /\ "qcow2" \in d.artifacts => d.qcow2Volume = "named"
  BY <1>1 DEF Classic, Buildable
<1>3. "Customization" \in FromDefinition(d)
  BY <1>2 DEF FromDefinition
<1>4. d.qcow2Volume = "named" => "Qcow2Volume" \in FromDefinition(d)
  BY DEF FromDefinition
<1>5. QED
  BY <1>2, <1>3, <1>4

LEMMA GadgetFound ==
    ASSUME NEW d, Classic(d), NEW name \in Listed(d),
           name \in {"build_gadget_tree", "prepare_gadget_tree", "load_gadget_yaml",
                    "verify_artifact_names"}
    PROVE  \A p \in stateFunc(d, name).needs : Found(d, name, p)
<1>1. d.gadget # "none"
  BY GadgetOf, PlaceOf
<1>2. CASE name = "build_gadget_tree"
  <2>1. stateFunc(d, name) = buildGadgetTree
    BY <1>2, ClassicFunctions DEF Classic
  <2>2. buildGadgetTree.needs = {}
    BY DEF buildGadgetTree, Effect
  <2>3. QED
    BY <2>1, <2>2
<1>3. CASE name = "prepare_gadget_tree"
  <2>1. stateFunc(d, name) = prepareGadgetTree(d)
    BY <1>3, ClassicFunctions DEF Classic
  <2>2. CASE d.gadget = "prebuilt"
    <3>1. prepareGadgetTree(d).needs = {}
      BY <2>2 DEF prepareGadgetTree, Effect
    <3>2. QED
      BY <2>1, <3>1
  <2>3. CASE d.gadget # "prebuilt"
    <3>1. prepareGadgetTree(d).needs = {"scratch/gadget/install"}
      BY <2>3 DEF prepareGadgetTree, Effect
    <3>2. d.gadget = "source"
      BY <1>1, <2>3 DEF Classic, Definitions
    <3>3. "build_gadget_tree" \in Listed(d)
      BY <1>1, <3>2, GadgetOf DEF GadgetNames, Where
    <3>4. stateFunc(d, "build_gadget_tree") = buildGadgetTree
      BY ClassicFunctions DEF Classic
    <3>5. "scratch/gadget/install" \in buildGadgetTree.gives
      BY DEF buildGadgetTree, Effect
    <3>6. Place("build_gadget_tree") < Place(name)
      BY <1>3, PlaceOf
    <3>7. Sourced(d, name, "scratch/gadget/install")
      BY <3>3, <3>4, <3>5, <3>6, Lasting DEF Unwanted
    <3>8. QED
      BY <2>1, <3>1, <3>7 DEF Found
  <2>4. QED
    BY <2>2, <2>3
<1>4. CASE name = "load_gadget_yaml"
  <2>1. stateFunc(d, name) = loadGadgetYaml
    BY <1>4, ClassicFunctions DEF Classic
  <2>2. loadGadgetYaml.needs = {"YamlFilePath", "unpack/gadget"}
    BY DEF loadGadgetYaml, Effect
  <2>3. Sourced(d, name, "YamlFilePath") /\ Sourced(d, name, "unpack/gadget")
    BY <1>1, <1>4, GadgetSourced, PlaceOf
  <2>4. QED
    BY <2>1, <2>2, <2>3 DEF Found
<1>5. CASE name = "verify_artifact_names"
  <2>1. stateFunc(d, name) = verifyArtifactNames(d)
    BY <1>5, ClassicFunctions DEF Classic
  <2>2. verifyArtifactNames(d).needs = {"GadgetInfo"}
    BY DEF verifyArtifactNames, Effect
  <2>3. Place(name) = 4
    BY <1>5, PlaceOf
  <2>4. Sourced(d, name, "GadgetInfo")
    BY <1>1, <2>3, GadgetSourced DEF GadgetFields
  <2>5. QED
    BY <2>1, <2>2, <2>4 DEF Found
<1>6. QED
  BY <1>2, <1>3, <1>4, <1>5

\* The extra PPAs are added to install from them, and only in this list.
LEMMA PPAsListed ==
    ASSUME NEW d, Classic(d), "ppas" \in d.custom PROVE "add_extra_ppas" \in Listed(d)
<1>1. "add_extra_ppas" \in TarballNames(d) /\ "add_extra_ppas" \in SeedNames(d)
  BY DEF TarballNames, SeedNames, ExtraNames
<1>2. QED
  BY <1>1, RootfsOf

LEMMA PPAsSourced ==
    ASSUME NEW d, Classic(d), "ppas" \in d.custom,
           NEW name \in {"install_packages", "clean_extra_ppas"}
    PROVE  Sourced(d, name, "ppa sources")
<1>1. "add_extra_ppas" \in Listed(d)
  BY PPAsListed
<1>2. stateFunc(d, "add_extra_ppas") = addExtraPPAs
  BY ClassicFunctions DEF Classic
<1>3. "ppa sources" \in addExtraPPAs.gives
  BY DEF addExtraPPAs, Effect
<1>4. Place("add_extra_ppas") < Place(name) /\ ~(Place("clean_extra_ppas") < Place(name))
  BY PlaceOf
<1>5. \A m \in ClassicNames :
        "ppa sources" \in stateFunc(d, m).drops => m = "clean_extra_ppas"
  BY ClassicDrops DEF Classic
<1>6. QED
  BY <1>1, <1>2, <1>3, <1>4, <1>5 DEF Sourced

LEMMA RootfsFound ==
    ASSUME NEW d, Classic(d), NEW name \in Listed(d),
           name \in {"germinate", "create_chroot", "extract_rootfs_tar",
                    "build_rootfs_from_tasks", "upgrade_packages", "add_extra_ppas",
                    "install_packages", "clean_extra_ppas"}
    PROVE  \A p \in stateFunc(d, name).needs : Found(d, name, p)
<1>1. Place(name) \in Nat
  BY PlaceOf
<1>2. CASE name = "germinate"
  <2>1. stateFunc(d, name) = germinate
    BY <1>2, ClassicFunctions DEF Classic
  <2>2. germinate.needs = {}
    BY DEF germinate, Effect
  <2>3. QED
    BY <2>1, <2>2
<1>3. CASE name = "create_chroot"
  <2>1. stateFunc(d, name) = createChroot(d)
    BY <1>3, ClassicFunctions DEF Classic
  <2>2. createChroot(d).needs \subseteq {"Customization"}
    BY DEF createChroot, Effect
  <2>3. QED
    BY <2>1, <2>2, FoundInDefinition DEF Found
<1>4. CASE name = "extract_rootfs_tar"
  <2>1. stateFunc(d, name) = extractRootfsTar
    BY <1>4, ClassicFunctions DEF Classic
  <2>2. extractRootfsTar.needs = {}
    BY DEF extractRootfsTar, Effect
  <2>3. QED
    BY <2>1, <2>2
<1>5. CASE name = "build_rootfs_from_tasks"
  <2>1. stateFunc(d, name) = buildRootfsFromTasks
    BY <1>5, ClassicFunctions DEF Classic
  <2>2. buildRootfsFromTasks.needs = {}
    BY DEF buildRootfsFromTasks, Effect
  <2>3. QED
    BY <2>1, <2>2
<1>6. CASE name = "upgrade_packages"
  <2>1. stateFunc(d, name) = upgradePackages
    BY <1>6, ClassicFunctions DEF Classic
  <2>2. upgradePackages.needs = {"chroot"}
    BY DEF upgradePackages, Effect
  <2>3. 8 < Place(name)
    BY <1>6, PlaceOf
  <2>4. QED
    BY <1>1, <2>1, <2>2, <2>3, ChrootSourced DEF Found
<1>7. CASE name = "add_extra_ppas"
  <2>1. stateFunc(d, name) = addExtraPPAs
    BY <1>7, ClassicFunctions DEF Classic
  <2>2. addExtraPPAs.needs = {"chroot", "Customization"}
    BY DEF addExtraPPAs, Effect
  <2>3. 8 < Place(name)
    BY <1>7, PlaceOf
  <2>4. QED
    BY <1>1, <2>1, <2>2, <2>3, ChrootSourced, FoundInDefinition DEF Found
<1>8. CASE name = "install_packages"
  <2>1. stateFunc(d, name) = installPackages(d)
    BY <1>8, ClassicFunctions DEF Classic
  <2>2. /\ installPackages(d).needs \subseteq {"chroot", "Packages", "ppa sources"}
        /\ "Packages" \in installPackages(d).needs => d.rootfs = "seed"
        /\ "ppa sources" \in installPackages(d).needs => "ppas" \in d.custom
    <3>1. installPackages(d).needs
            = {"chroot"} \cup (IF d.rootfs = "seed" THEN {"Packages"} ELSE {})
                \cup (IF "ppas" \in d.custom THEN {"ppa sources"} ELSE {})
      BY DEF installPackages, Effect
    <3>2. QED
      BY <3>1
  <2>3. Sourced(d, name, "chroot")
    BY <1>1, <1>8, PlaceOf, ChrootSourced
  <2>4. ASSUME d.rootfs = "seed" PROVE Sourced(d, name, "Packages")
    <3>1. "germinate" \in Listed(d)
      BY <2>4, RootfsOf DEF SeedNames
    <3>2. stateFunc(d, "germinate") = germinate
      BY ClassicFunctions DEF Classic
    <3>3. "Packages" \in germinate.gives
      BY DEF germinate, Effect
    <3>4. Place("germinate") < Place(name)
      BY <1>8, PlaceOf
    <3>5. QED
      BY <3>1, <3>2, <3>3, <3>4, Lasting DEF Unwanted
  <2>5. "ppas" \in d.custom => Sourced(d, name, "ppa sources")
    BY <1>8, PPAsSourced
  <2>6. QED
    BY <2>1, <2>2, <2>3, <2>4, <2>5 DEF Found
<1>9. CASE name = "clean_extra_ppas"
  <2>1. stateFunc(d, name) = cleanExtraPPAs
    BY <1>9, ClassicFunctions DEF Classic
  <2>2. cleanExtraPPAs.needs = {"ppa sources", "Customization"}
    BY DEF cleanExtraPPAs, Effect
  <2>3. "ppas" \in d.custom
    <3>1. name \in RootfsNames(d)
      BY <1>9, PlaceOf, ListedIn DEF Classic
    <3>2. name \in TarballNames(d) \cup SeedNames(d)
      BY <1>9, <3>1, RootfsOf DEF RootfsNames, GadgetNames, Where
    <3>3. QED
      BY <1>9, <3>2 DEF TarballNames, SeedNames, ExtraNames, UpgradeNames, Where
  <2>4. Sourced(d, name, "ppa sources")
    BY <1>9, <2>3, PPAsSourced
  <2>5. QED
    BY <2>1, <2>2, <2>4, FoundInDefinition DEF Found
<1>10. QED
  BY <1>2, <1>3, <1>4, <1>5, <1>6, <1>7, <1>8, <1>9

LEMMA SnapsFound ==
    ASSUME NEW d, Classic(d), NEW name \in Listed(d), name \in {"prepare_image", "preseed_image"}
    PROVE  \A p \in stateFunc(d, name).needs : Found(d, name, p)
<1>1. Place(name) \in Nat /\ 8 < Place(name)
  BY PlaceOf
<1>2. CASE name = "prepare_image"
  <2>1. stateFunc(d, name) = prepareClassicImage(d)
    BY <1>2, ClassicFunctions DEF Classic
  <2>2. /\ prepareClassicImage(d).needs \subseteq {"chroot", "Snaps"}
        /\ "Snaps" \in prepareClassicImage(d).needs => d.rootfs = "seed"
    <3>1. prepareClassicImage(d).needs
            = {"chroot"} \cup (IF d.rootfs = "seed" THEN {"Snaps"} ELSE {})
      BY DEF prepareClassicImage, Effect
    <3>2. QED
      BY <3>1
  <2>3. ASSUME d.rootfs = "seed" PROVE Sourced(d, name, "Snaps")
    <3>1. "germinate" \in Listed(d)
      BY <2>3, RootfsOf DEF SeedNames
    <3>2. stateFunc(d, "germinate") = germinate
      BY ClassicFunctions DEF Classic
    <3>3. "Snaps" \in germinate.gives
      BY DEF germinate, Effect
    <3>4. Place("germinate") < Place(name)
      BY <1>2, PlaceOf
    <3>5. QED
      BY <3>1, <3>2, <3>3, <3>4, Lasting DEF Unwanted
  <2>4. QED
    BY <1>1, <2>1, <2>2, <2>3, ChrootSourced DEF Found
<1>3. CASE name = "preseed_image"
  <2>1. stateFunc(d, name) = preseedClassicImage
    BY <1>3, ClassicFunctions DEF Classic
  <2>2. preseedClassicImage.needs = {"chroot", "snap seed"}
    BY DEF preseedClassicImage, Effect
  <2>3. "prepare_image" \in Listed(d)
    <3>1. name \in RootfsNames(d)
      BY <1>3, PlaceOf, ListedIn DEF Classic
    <3>2. CASE d.rootfs = "seed"
      BY <3>2, RootfsOf DEF SeedNames
    <3>3. CASE d.rootfs = "tarball"
      <4>1. name \in TarballNames(d)
        BY <1>3, <3>1, <3>3 DEF RootfsNames, GadgetNames, Where
      <4>2. "prepare_image" \in TarballNames(d)
        BY <1>3, <4>1 DEF TarballNames, ExtraNames, UpgradeNames, Where
      <4>3. QED
        BY <3>3, <4>2, RootfsOf
    <3>4. QED
      BY <3>2, <3>3, RootfsOf
  <2>4. stateFunc(d, "prepare_image") = prepareClassicImage(d)
    BY ClassicFunctions DEF Classic
  <2>5. "snap seed" \in prepareClassicImage(d).gives
    BY DEF prepareClassicImage, Effect
  <2>6. Place("prepare_image") < Place(name)
    BY <1>3, PlaceOf
  <2>7. Sourced(d, name, "snap seed")
    BY <2>3, <2>4, <2>5, <2>6, Lasting DEF Unwanted
  <2>8. QED
    BY <1>1, <2>1, <2>2, <2>7, ChrootSourced DEF Found
<1>4. QED
  BY <1>2, <1>3

LEMMA CustomizationFound ==
    ASSUME NEW d, Classic(d), NEW name \in Listed(d),
           name \in {"clean_rootfs", "customize_sources_list", "customize_cloud_init",
                    "customize_fstab", "perform_manual_customization",
                    "set_default_locale", "populate_rootfs_contents"}
    PROVE  \A p \in stateFunc(d, name).needs : Found(d, name, p)
<1>1. CASE name = "clean_rootfs"
  <2>1. stateFunc(d, name) = cleanRootfs
    BY <1>1, ClassicFunctions DEF Classic
  <2>2. cleanRootfs.needs = {}
    BY DEF cleanRootfs, Effect
  <2>3. QED
    BY <2>1, <2>2
<1>2. CASE name = "customize_sources_list"
  <2>1. stateFunc(d, name) = customizeSourcesList
    BY <1>2, ClassicFunctions DEF Classic
  <2>2. customizeSourcesList.needs = {"chroot", "Customization"}
    BY DEF customizeSourcesList, Effect
  <2>3. Place(name) \in Nat /\ 8 < Place(name)
    BY <1>2, PlaceOf
  <2>4. QED
    BY <2>1, <2>2, <2>3, ChrootSourced, FoundInDefinition DEF Found
<1>3. CASE name = "customize_cloud_init"
  <2>1. stateFunc(d, name) = customizeCloudInit
    BY <1>3, ClassicFunctions DEF Classic
  <2>2. customizeCloudInit.needs = {"chroot", "Customization"}
    BY DEF customizeCloudInit, Effect
  <2>3. Place(name) \in Nat /\ 8 < Place(name)
    BY <1>3, PlaceOf
  <2>4. QED
    BY <2>1, <2>2, <2>3, ChrootSourced, FoundInDefinition DEF Found
<1>4. CASE name = "customize_fstab"
  <2>1. stateFunc(d, name) = customizeFstab
    BY <1>4, ClassicFunctions DEF Classic
  <2>2. customizeFstab.needs = {"chroot", "Customization"}
    BY DEF customizeFstab, Effect
  <2>3. Place(name) \in Nat /\ 8 < Place(name)
    BY <1>4, PlaceOf
  <2>4. QED
    BY <2>1, <2>2, <2>3, ChrootSourced, FoundInDefinition DEF Found
<1>5. CASE name = "perform_manual_customization"
  <2>1. stateFunc(d, name) = manualCustomization
    BY <1>5, ClassicFunctions DEF Classic
  <2>2. manualCustomization.needs = {"chroot", "Customization"}
    BY DEF manualCustomization, Effect
  <2>3. Place(name) \in Nat /\ 8 < Place(name)
    BY <1>5, PlaceOf
  <2>4. QED
    BY <2>1, <2>2, <2>3, ChrootSourced, FoundInDefinition DEF Found
<1>6. CASE name = "set_default_locale"
  <2>1. stateFunc(d, name) = setDefaultLocale
    BY <1>6, ClassicFunctions DEF Classic
  <2>2. setDefaultLocale.needs = {}
    BY DEF setDefaultLocale, Effect
  <2>3. QED
    BY <2>1, <2>2
<1>7. CASE name = "populate_rootfs_contents"
  <2>1. stateFunc(d, name) = populateClassicRootfsContents
    BY <1>7, ClassicFunctions DEF Classic
  <2>2. populateClassicRootfsContents.needs = {"chroot"}
    BY DEF populateClassicRootfsContents, Effect
  <2>3. Place(name) \in Nat /\ 8 < Place(name)
    BY <1>7, PlaceOf
  <2>4. QED
    BY <2>1, <2>2, <2>3, ChrootSourced DEF Found
<1>8. QED
  BY <1>1, <1>2, <1>3, <1>4, <1>5, <1>6, <1>7

LEMMA FilesFound ==
    ASSUME NEW d, Classic(d), NEW name \in Listed(d),
           name \in {"generate_disk_info", "generate_package_manifest", "generate_filelist",
                    "generate_rootfs_tarball"}
    PROVE  \A p \in stateFunc(d, name).needs : Found(d, name, p)
<1>1. CASE name = "generate_disk_info"
  <2>1. stateFunc(d, name) = generateDiskInfo(d)
    BY <1>1, ClassicFunctions DEF Classic
  <2>2. generateDiskInfo(d).needs = {"rootfs"}
    BY DEF generateDiskInfo, Effect
  <2>3. 21 < Place(name)
    BY <1>1, PlaceOf
  <2>4. QED
    BY <2>1, <2>2, <2>3, RootfsSourced DEF Found
<1>2. CASE name = "generate_package_manifest"
  <2>1. stateFunc(d, name) = generatePackageManifest
    BY <1>2, ClassicFunctions DEF Classic
  <2>2. generatePackageManifest.needs = {"rootfs"}
    BY DEF generatePackageManifest, Effect
  <2>3. 21 < Place(name)
    BY <1>2, PlaceOf
  <2>4. QED
    BY <2>1, <2>2, <2>3, RootfsSourced DEF Found
<1>3. CASE name = "generate_filelist"
  <2>1. stateFunc(d, name) = generateFilelist
    BY <1>3, ClassicFunctions DEF Classic
  <2>2. generateFilelist.needs = {"rootfs"}
    BY DEF generateFilelist, Effect
  <2>3. 21 < Place(name)
    BY <1>3, PlaceOf
  <2>4. QED
    BY <2>1, <2>2, <2>3, RootfsSourced DEF Found
<1>4. CASE name = "generate_rootfs_tarball"
  <2>1. stateFunc(d, name) = generateRootfsTarball
    BY <1>4, ClassicFunctions DEF Classic
  <2>2. generateRootfsTarball.needs = {"rootfs"}
    BY DEF generateRootfsTarball, Effect
  <2>3. 21 < Place(name)
    BY <1>4, PlaceOf
  <2>4. QED
    BY <2>1, <2>2, <2>3, RootfsSourced DEF Found
<1>5. QED
  BY <1>1, <1>2, <1>3, <1>4

LEMMA ImageFound ==
    ASSUME NEW d, Classic(d), NEW name \in Listed(d),
           name \in SizeNames \cup DiskNames \cup {"make_qcow2_image"}
    PROVE  \A p \in stateFunc(d, name).needs : Found(d, name, p)
<1>1. CASE name = "calculate_rootfs_size"
  <2>1. stateFunc(d, name) = calculateRootfsSize
    BY <1>1, ClassicFunctions DEF Classic
  <2>2. calculateRootfsSize.needs = {"rootfs", "GadgetInfo", "ImageSizes", "SectorSize"}
    BY DEF calculateRootfsSize, Effect
  <2>3. Place(name) = 23
    BY <1>1, PlaceOf
  <2>4. \A p \in {"rootfs", "GadgetInfo", "ImageSizes", "SectorSize"} : Sourced(d, name, p)
    <3>1. 22 < Place(name) /\ Place(name) < 29 /\ Place(name) \in Nat
      BY <2>3
    <3>2. /\ Sourced(d, name, "rootfs") /\ Sourced(d, name, "unpack/gadget")
          /\ \A p \in GadgetFields : Sourced(d, name, p)
      BY <3>1, ImageSourced
    <3>3. QED
      BY <3>2 DEF GadgetFields
  <2>5. QED
    BY <2>1, <2>2, <2>4 DEF Found
<1>2. CASE name = "populate_bootfs_contents"
  <2>1. stateFunc(d, name) = populateBootfsContents
    BY <1>2, ClassicFunctions DEF Classic
  <2>2. populateBootfsContents.needs = {"GadgetInfo", "VolumeOrder", "IsSeeded", "unpack/gadget"}
    BY DEF populateBootfsContents, Effect
  <2>3. Place(name) = 24
    BY <1>2, PlaceOf
  <2>4. \A p \in {"GadgetInfo", "VolumeOrder", "IsSeeded", "unpack/gadget"} : Sourced(d, name, p)
    <3>1. 22 < Place(name) /\ Place(name) < 29 /\ Place(name) \in Nat
      BY <2>3
    <3>2. /\ Sourced(d, name, "rootfs") /\ Sourced(d, name, "unpack/gadget")
          /\ \A p \in GadgetFields : Sourced(d, name, p)
      BY <3>1, ImageSourced
    <3>3. QED
      BY <3>2 DEF GadgetFields
  <2>5. QED
    BY <2>1, <2>2, <2>4 DEF Found
<1>3. CASE name = "populate_prepare_partitions"
  <2>1. stateFunc(d, name) = populatePreparePartitions
    BY <1>3, ClassicFunctions DEF Classic
  <2>2. populatePreparePartitions.needs = PartitionNeeds
    BY DEF populatePreparePartitions, Effect, PartitionNeeds
  <2>3. Place(name) = 25
    BY <1>3, PlaceOf
  <2>4. \A p \in PartitionNeeds : Sourced(d, name, p)
    <3>1. /\ 22 < Place(name) /\ Place(name) < 29 /\ Place(name) \in Nat
          /\ 23 < Place(name) /\ 24 < Place(name)
      BY <2>3
    <3>2. /\ Sourced(d, name, "rootfs") /\ Sourced(d, name, "unpack/gadget")
          /\ \A p \in GadgetFields : Sourced(d, name, p)
      BY <3>1, ImageSourced
    <3>3. Sourced(d, name, "RootfsSize") /\ Sourced(d, name, "boot contents")
      BY <3>1, ImageSourced
    <3>4. QED
      BY <3>2, <3>3 DEF GadgetFields, PartitionNeeds
  <2>5. QED
    BY <2>1, <2>2, <2>4 DEF Found, PartitionNeeds
<1>4. CASE name = "make_disk"
  <2>1. stateFunc(d, name) = makeDisk
    BY <1>4, ClassicFunctions DEF Classic
  <2>2. makeDisk.needs = DiskNeeds
    BY DEF makeDisk, Effect, DiskNeeds
  <2>3. Place(name) = 26
    BY <1>4, PlaceOf
  <2>4. \A p \in DiskNeeds : Sourced(d, name, p)
    <3>1. /\ 22 < Place(name) /\ Place(name) < 29 /\ Place(name) \in Nat
          /\ 25 < Place(name)
      BY <2>3
    <3>2. /\ Sourced(d, name, "rootfs") /\ Sourced(d, name, "unpack/gadget")
          /\ \A p \in GadgetFields : Sourced(d, name, p)
      BY <3>1, ImageSourced
    <3>3. Sourced(d, name, "partitions") /\ Sourced(d, name, "VolumeNames")
      BY <3>1, ImageSourced
    <3>4. QED
      BY <3>2, <3>3 DEF GadgetFields, DiskNeeds
  <2>5. QED
    BY <2>1, <2>2, <2>4 DEF Found, DiskNeeds
<1>5. CASE name = "setup_bootloader"
  <2>1. stateFunc(d, name) = setupBootloader
    BY <1>5, ClassicFunctions DEF Classic
  <2>2. setupBootloader.needs = BootloaderNeeds
    BY DEF setupBootloader, Effect, BootloaderNeeds
  <2>3. Place(name) = 27
    BY <1>5, PlaceOf
  <2>4. \A p \in BootloaderNeeds : Sourced(d, name, p)
    <3>1. /\ 22 < Place(name) /\ Place(name) < 29 /\ Place(name) \in Nat
          /\ 26 < Place(name)
      BY <2>3
    <3>2. /\ Sourced(d, name, "rootfs") /\ Sourced(d, name, "unpack/gadget")
          /\ \A p \in GadgetFields : Sourced(d, name, p)
      BY <3>1, ImageSourced
    <3>3. \A p \in DiskPieces : Sourced(d, name, p)
      BY <3>1, ImageSourced
    <3>4. QED
      BY <3>2, <3>3 DEF GadgetFields, DiskPieces, BootloaderNeeds
  <2>5. QED
    BY <2>1, <2>2, <2>4 DEF Found, BootloaderNeeds
<1>6. CASE name = "make_qcow2_image"
  <2>1. stateFunc(d, name) = makeQcow2Img
    BY <1>6, ClassicFunctions DEF Classic
  <2>2. makeQcow2Img.needs = {"VolumeNames", "Qcow2Volume", "img"}
    BY DEF makeQcow2Img, Effect
  <2>3. Place(name) = 28
    BY <1>6, PlaceOf
  <2>4. "qcow2" \in d.artifacts
    BY <1>6, <2>3, ArtifactsOf
  <2>5. Sourced(d, name, "VolumeNames") /\ Sourced(d, name, "img")
    <3>1. /\ 22 < Place(name) /\ Place(name) < 29 /\ Place(name) \in Nat
          /\ 25 < Place(name) /\ 26 < Place(name)
      BY <2>3
    <3>2. QED
      BY <3>1, ImageSourced DEF DiskPieces
  <2>6. QED
    BY <2>1, <2>2, <2>4, <2>5, FoundInDefinition DEF Found
<1>7. QED
  BY <1>1, <1>2, <1>3, <1>4, <1>5, <1>6 DEF SizeNames, DiskNames

LEMMA ClassicFound ==
    ASSUME NEW d, Classic(d), NEW name \in Listed(d)
    PROVE  \A p \in stateFunc(d, name).needs : Found(d, name, p)
<1>1. name \in ClassicNames
  BY ClassicTypes
<1>2. \/ name \in {"build_gadget_tree", "prepare_gadget_tree", "load_gadget_yaml",
                   "verify_artifact_names"}
      \/ name \in {"germinate", "create_chroot", "extract_rootfs_tar",
                   "build_rootfs_from_tasks", "upgrade_packages", "add_extra_ppas",
                   "install_packages", "clean_extra_ppas"}
      \/ name \in {"prepare_image", "preseed_image"}
      \/ name \in {"clean_rootfs", "customize_sources_list", "customize_cloud_init",
                   "customize_fstab", "perform_manual_customization",
                   "set_default_locale", "populate_rootfs_contents"}
      \/ name \in {"generate_disk_info", "generate_package_manifest", "generate_filelist",
                   "generate_rootfs_tarball"}
      \/ name \in SizeNames \cup DiskNames \cup {"make_qcow2_image"}
  BY <1>1 DEF ClassicNames, SizeNames, DiskNames
<1>3. QED
  BY <1>2, GadgetFound, RootfsFound, SnapsFound, CustomizationFound, FilesFound, ImageFound

-----------------------------------------------------------------------------
(***************************************************************************)
(* The list of snap images is fixed: its inputs, state by state.           *)
(***************************************************************************)
LEMMA SnapSupply ==
    ASSUME NEW d, d.type = "snap"
    PROVE  /\ Len(States(d)) = 10 /\ DOMAIN States(d) = 1..10
           /\ Supply(d, 1) = prepareImage
           /\ Supply(d, 2) = loadGadgetYaml
           /\ Supply(d, 3) = setArtifactNames
           /\ Supply(d, 4) = populateSnapRootfsContents
           /\ Supply(d, 5) = generateDiskInfo(d)
           /\ Supply(d, 6) = calculateRootfsSize
           /\ Supply(d, 7) = populateBootfsContents
           /\ Supply(d, 8) = populatePreparePartitions
           /\ Supply(d, 9) = makeDisk
           /\ Supply(d, 10) = generateSnapManifest
<1>1. States(d) = snapStates
  BY DEF States
<1>2. /\ Len(snapStates) = 10 /\ DOMAIN snapStates = 1..10
      /\ snapStates[1] = "prepare_image" /\ snapStates[2] = "load_gadget_yaml"
      /\ snapStates[3] = "set_artifact_names" /\ snapStates[4] = "populate_rootfs_contents"
      /\ snapStates[5] = "generate_disk_info" /\ snapStates[6] = "calculate_rootfs_size"
      /\ snapStates[7] = "populate_bootfs_contents"
      /\ snapStates[8] = "populate_prepare_partitions"
      /\ snapStates[9] = "make_disk" /\ snapStates[10] = "generate_snap_manifest"
  BY DEF snapStates
<1>3. QED
  BY <1>1, <1>2, SnapFunctions DEF Supply

LEMMA SnapDrops ==
    ASSUME NEW d, d.type = "snap", NEW j \in 1..10
    PROVE  Supply(d, j).drops = IF j = 4 THEN {"unpack/image"} ELSE {}
<1>1. /\ prepareImage.drops = {} /\ loadGadgetYaml.drops = {} /\ setArtifactNames.drops = {}
      /\ populateSnapRootfsContents.drops = {"unpack/image"}
      /\ generateDiskInfo(d).drops = {}
  BY DEF prepareImage, loadGadgetYaml, setArtifactNames, populateSnapRootfsContents,
         generateDiskInfo, Effect
<1>2. /\ calculateRootfsSize.drops = {} /\ populateBootfsContents.drops = {}
      /\ populatePreparePartitions.drops = {} /\ makeDisk.drops = {}
      /\ generateSnapManifest.drops = {}
  BY DEF calculateRootfsSize, populateBootfsContents, populatePreparePartitions, makeDisk,
         generateSnapManifest, Effect
<1>3. j \in {1, 2, 3, 4, 5, 6, 7, 8, 9, 10}
  OBVIOUS
<1>4. QED
  BY <1>1, <1>2, <1>3, SnapSupply

LEMMA SnapLasting ==
    ASSUME NEW d, d.type = "snap", NEW n \in 1..10, NEW k \in 1..n,
           NEW p \in Supply(d, k).gives, p = "unpack/image" => n < 4
    PROVE  Supplied(d, p, n)
<1>1. ASSUME NEW j \in (k + 1)..n PROVE p \notin Supply(d, j).drops
  <2>1. j \in 1..10 /\ (j = 4 => ~(n < 4))
    OBVIOUS
  <2>2. QED
    BY <2>1, SnapDrops
<1>2. QED
  BY <1>1 DEF Supplied

\* What the first states give, and when.
LEMMA SnapGives ==
    ASSUME NEW d, d.type = "snap"
    PROVE  /\ \A n \in 1..10 : Supplied(d, "YamlFilePath", n) /\ Supplied(d, "unpack/gadget", n)
           /\ \A n \in 1..3 : Supplied(d, "unpack/image", n)
           /\ \A n \in 2..10 : \A p \in GadgetFields : Supplied(d, p, n)
           /\ \A n \in 3..10 : Supplied(d, "VolumeNames", n)
           /\ \A n \in 4..10 : Supplied(d, "rootfs", n)
           /\ \A n \in 6..10 : Supplied(d, "RootfsSize", n)
           /\ \A n \in 7..10 : Supplied(d, "boot contents", n)
           /\ \A n \in 8..10 : Supplied(d, "partitions", n)
           /\ \A n \in 9..10 : Supplied(d, "img", n)
           /\ Supplied(d, "manifest", 10)
<1>1. {"YamlFilePath", "unpack/gadget", "unpack/image"} \subseteq Supply(d, 1).gives
  <2>1. {"YamlFilePath", "unpack/gadget", "unpack/image"} \subseteq prepareImage.gives
    BY DEF prepareImage, Effect
  <2>2. QED
    BY <2>1, SnapSupply
<1>2. GadgetFields \subseteq Supply(d, 2).gives
  <2>1. GadgetFields \subseteq loadGadgetYaml.gives
    BY DEF loadGadgetYaml, Effect, GadgetFields
  <2>2. QED
    BY <2>1, SnapSupply
<1>3. /\ "VolumeNames" \in Supply(d, 3).gives /\ "rootfs" \in Supply(d, 4).gives
      /\ "RootfsSize" \in Supply(d, 6).gives /\ "boot contents" \in Supply(d, 7).gives
  <2>1. /\ "VolumeNames" \in setArtifactNames.gives
        /\ "rootfs" \in populateSnapRootfsContents.gives
        /\ "RootfsSize" \in calculateRootfsSize.gives
        /\ "boot contents" \in populateBootfsContents.gives
    BY DEF setArtifactNames, populateSnapRootfsContents, calculateRootfsSize,
           populateBootfsContents, Effect
  <2>2. QED
    BY <2>1, SnapSupply
<1>4. /\ "partitions" \in Supply(d, 8).gives /\ "img" \in Supply(d, 9).gives
      /\ "manifest" \in Supply(d, 10).gives
  <2>1. /\ "partitions" \in populatePreparePartitions.gives /\ "img" \in makeDisk.gives
        /\ "manifest" \in generateSnapManifest.gives
    BY DEF populatePreparePartitions, makeDisk, generateSnapManifest, Effect
  <2>2. QED
    BY <2>1, SnapSupply
<1>5. ASSUME NEW n \in 1..10
      PROVE  Supplied(d, "YamlFilePath", n) /\ Supplied(d, "unpack/gadget", n)
  <2>1. 1 \in 1..n
    BY <1>5
  <2>2. QED
    BY <1>1, <2>1, SnapLasting
<1>6. ASSUME NEW n \in 1..3 PROVE Supplied(d, "unpack/image", n)
  <2>1. n \in 1..10 /\ 1 \in 1..n /\ n < 4
    BY <1>6
  <2>2. QED
    BY <1>1, <2>1, SnapLasting
<1>7. ASSUME NEW n \in 2..10, NEW p \in GadgetFields PROVE Supplied(d, p, n)
  <2>1. n \in 1..10 /\ 2 \in 1..n
    BY <1>7
  <2>2. p # "unpack/image"
    BY DEF GadgetFields
  <2>3. QED
    BY <1>2, <2>1, <2>2, SnapLasting
<1>8. ASSUME NEW n \in 3..10 PROVE Supplied(d, "VolumeNames", n)
  <2>1. n \in 1..10 /\ 3 \in 1..n
    BY <1>8
  <2>2. QED
    BY <1>3, <2>1, SnapLasting
<1>9. ASSUME NEW n \in 4..10 PROVE Supplied(d, "rootfs", n)
  <2>1. n \in 1..10 /\ 4 \in 1..n
    BY <1>9
  <2>2. QED
    BY <1>3, <2>1, SnapLasting
<1>10. ASSUME NEW n \in 6..10 PROVE Supplied(d, "RootfsSize", n)
  <2>1. n \in 1..10 /\ 6 \in 1..n
    BY <1>10
  <2>2. QED
    BY <1>3, <2>1, SnapLasting
<1>11. ASSUME NEW n \in 7..10 PROVE Supplied(d, "boot contents", n)
  <2>1. n \in 1..10 /\ 7 \in 1..n
    BY <1>11
  <2>2. QED
    BY <1>3, <2>1, SnapLasting
<1>12. ASSUME NEW n \in 8..10 PROVE Supplied(d, "partitions", n)
  <2>1. n \in 1..10 /\ 8 \in 1..n
    BY <1>12
  <2>2. QED
    BY <1>4, <2>1, SnapLasting
<1>13. ASSUME NEW n \in 9..10 PROVE Supplied(d, "img", n)
  <2>1. n \in 1..10 /\ 9 \in 1..n
    BY <1>13
  <2>2. QED
    BY <1>4, <2>1, SnapLasting
<1>14. Supplied(d, "manifest", 10)
  <2>1. 10 \in 1..10
    OBVIOUS
  <2>2. QED
    BY <1>4, <2>1, SnapLasting
<1>15. QED
  BY <1>5, <1>6, <1>7, <1>8, <1>9, <1>10, <1>11, <1>12, <1>13, <1>14

LEMMA SnapFound ==
    ASSUME NEW d, d.type = "snap", NEW i \in 1..10, NEW p \in Supply(d, i).needs
    PROVE  p # "Qcow2Volume" /\ Supplied(d, p, i - 1)
<1>1. /\ Supply(d, 1).needs = {} /\ Supply(d, 2).needs = {"YamlFilePath", "unpack/gadget"}
      /\ Supply(d, 3).needs = {"GadgetInfo"} /\ Supply(d, 4).needs = {"unpack/image", "IsSeeded"}
      /\ Supply(d, 5).needs = {"rootfs"}
  <2>1. /\ prepareImage.needs = {} /\ loadGadgetYaml.needs = {"YamlFilePath", "unpack/gadget"}
        /\ setArtifactNames.needs = {"GadgetInfo"}
        /\ populateSnapRootfsContents.needs = {"unpack/image", "IsSeeded"}
        /\ generateDiskInfo(d).needs = {"rootfs"}
    BY DEF prepareImage, loadGadgetYaml, setArtifactNames, populateSnapRootfsContents,
           generateDiskInfo, Effect
  <2>2. QED
    BY <2>1, SnapSupply
<1>2. /\ Supply(d, 6).needs = {"rootfs", "GadgetInfo", "ImageSizes", "SectorSize"}
      /\ Supply(d, 7).needs = {"GadgetInfo", "VolumeOrder", "IsSeeded", "unpack/gadget"}
      /\ Supply(d, 8).needs = PartitionNeeds
      /\ Supply(d, 9).needs = DiskNeeds
      /\ Supply(d, 10).needs = {"rootfs"}
  <2>1. /\ calculateRootfsSize.needs = {"rootfs", "GadgetInfo", "ImageSizes", "SectorSize"}
        /\ populateBootfsContents.needs = {"GadgetInfo", "VolumeOrder", "IsSeeded", "unpack/gadget"}
        /\ generateSnapManifest.needs = {"rootfs"}
    BY DEF calculateRootfsSize, populateBootfsContents, generateSnapManifest, Effect
  <2>2. /\ populatePreparePartitions.needs
             = PartitionNeeds
        /\ makeDisk.needs
             = DiskNeeds
    BY DEF populatePreparePartitions, makeDisk, Effect, PartitionNeeds, DiskNeeds
  <2>3. QED
    BY <2>1, <2>2, SnapSupply
<1>3. CASE i = 1
  BY <1>1, <1>3
<1>4. CASE i = 2
  <2>1. /\ Supplied(d, "YamlFilePath", i - 1)
        /\ Supplied(d, "unpack/gadget", i - 1)
    <3>1. i - 1 \in 1..10
      BY <1>4
    <3>2. QED
      BY <3>1, SnapGives
  <2>2. QED
    BY <1>1, <1>4, <2>1
<1>5. CASE i = 3
  <2>1. \A q \in GadgetFields : Supplied(d, q, i - 1)
    <3>1. i - 1 \in 2..10
      BY <1>5
    <3>2. QED
      BY <3>1, SnapGives
  <2>2. QED
    BY <1>1, <1>5, <2>1 DEF GadgetFields
<1>6. CASE i = 4
  <2>1. Supplied(d, "unpack/image", i - 1) /\ Supplied(d, "IsSeeded", i - 1)
    <3>1. i - 1 \in 1..3 /\ i - 1 \in 2..10
      BY <1>6
    <3>2. QED
      BY <3>1, SnapGives DEF GadgetFields
  <2>2. QED
    BY <1>1, <1>6, <2>1
<1>7. CASE i = 5
  <2>1. Supplied(d, "rootfs", i - 1)
    <3>1. i - 1 \in 4..10
      BY <1>7
    <3>2. QED
      BY <3>1, SnapGives
  <2>2. QED
    BY <1>1, <1>7, <2>1
<1>8. CASE i = 6
  <2>1. /\ Supplied(d, "rootfs", i - 1)
        /\ \A q \in GadgetFields : Supplied(d, q, i - 1)
    <3>1. i - 1 \in 4..10 /\ i - 1 \in 2..10
      BY <1>8
    <3>2. QED
      BY <3>1, SnapGives
  <2>2. QED
    BY <1>2, <1>8, <2>1 DEF GadgetFields
<1>9. CASE i = 7
  <2>1. /\ Supplied(d, "unpack/gadget", i - 1)
        /\ \A q \in GadgetFields : Supplied(d, q, i - 1)
    <3>1. i - 1 \in 1..10 /\ i - 1 \in 2..10
      BY <1>9
    <3>2. QED
      BY <3>1, SnapGives
  <2>2. QED
    BY <1>2, <1>9, <2>1 DEF GadgetFields
<1>10. CASE i = 8
  <2>1. /\ Supplied(d, "rootfs", i - 1)
        /\ Supplied(d, "RootfsSize", i - 1)
        /\ Supplied(d, "boot contents", i - 1)
        /\ \A q \in GadgetFields : Supplied(d, q, i - 1)
    <3>1. i - 1 \in 4..10 /\ i - 1 \in 6..10 /\ i - 1 \in 7..10 /\ i - 1 \in 2..10
      BY <1>10
    <3>2. QED
      BY <3>1, SnapGives
  <2>2. QED
    BY <1>2, <1>10, <2>1 DEF GadgetFields, PartitionNeeds
<1>11. CASE i = 9
  <2>1. /\ Supplied(d, "VolumeNames", i - 1)
        /\ Supplied(d, "partitions", i - 1)
        /\ \A q \in GadgetFields : Supplied(d, q, i - 1)
    <3>1. i - 1 \in 3..10 /\ i - 1 \in 8..10 /\ i - 1 \in 2..10
      BY <1>11
    <3>2. QED
      BY <3>1, SnapGives
  <2>2. QED
    BY <1>2, <1>11, <2>1 DEF GadgetFields, DiskNeeds
<1>12. CASE i = 10
  <2>1. Supplied(d, "rootfs", i - 1)
    <3>1. i - 1 \in 4..10
      BY <1>12
    <3>2. QED
      BY <3>1, SnapGives
  <2>2. QED
    BY <1>2, <1>12, <2>1
<1>13. i \in {1, 2, 3, 4, 5, 6, 7, 8, 9, 10}
  OBVIOUS
<1>14. QED
  BY <1>3, <1>4, <1>5, <1>6, <1>7, <1>8, <1>9, <1>10, <1>11, <1>12, <1>13

-----------------------------------------------------------------------------
(***************************************************************************)
(* The two results.                                                        *)
(***************************************************************************)
LEMMA NextFound ==
    ASSUME Inv, InputsInv, Buildable(imageDef), NEW i \in DOMAIN States(imageDef),
           i = Len(performed) + 1
    PROVE  Supply(imageDef, i).needs \subseteq have \cup FromDefinition(imageDef)
<1>1. imageDef \in Definitions /\ Len(performed) \in Nat /\ i - 1 = Len(performed)
  BY InvTypes
<1>2. ASSUME NEW p \in Supply(imageDef, i).needs
      PROVE  p \in FromDefinition(imageDef)
               \/ (p # "Qcow2Volume" /\ Supplied(imageDef, p, i - 1))
  <2>1. CASE imageDef.type = "snap"
    <3>1. i \in 1..10
      BY <2>1, SnapSupply
    <3>2. QED
      BY <1>2, <2>1, <3>1, SnapFound
  <2>2. CASE imageDef.type # "snap"
    <3>1. Classic(imageDef)
      BY <1>1, <2>2 DEF Classic, InputsInv
    <3>2. States(imageDef)[i] \in Listed(imageDef)
      <4>1. States(imageDef)[i] \in Range(States(imageDef))
        BY DEF Range
      <4>2. QED
        BY <3>1, <4>1, ClassicTypes
    <3>3. Found(imageDef, States(imageDef)[i], p)
      BY <1>2, <3>1, <3>2, ClassicFound DEF Supply
    <3>4. QED
      BY <3>1, <3>3, SourcedSupplied DEF Found
  <2>3. QED
    BY <2>1, <2>2
<1>3. QED
  BY <1>1, <1>2 DEF InputsInv

LEMMA PerformsFound ==
    ASSUME Inv, InputsInv, Buildable(imageDef), Perform PROVE outcome' # "failed"
<1> DEFINE next == Len(performed) + 1
<1>1. toPerform = SubSeq(States(imageDef), next, Len(States(imageDef)))
  BY DEF toPerform, remaining
<1>2. next \in Int /\ next > 0 /\ Len(States(imageDef)) \in Int
  BY InvTypes
<1>3. next \in DOMAIN States(imageDef)
  BY Performs
<1>4. Head(toPerform) = States(imageDef)[next]
  <2>1. next \in Nat /\ next <= Len(States(imageDef))
    BY <1>3, InvTypes
  <2>2. QED
    BY <1>1, <1>2, <2>1, InvTypes, HeadTailOfSubSeq
<1>5. Supply(imageDef, next).needs \subseteq have \cup FromDefinition(imageDef)
  BY <1>3, NextFound
<1>6. stateFunc(imageDef, Head(toPerform)).needs \subseteq have \cup FromDefinition(imageDef)
  BY <1>4, <1>5 DEF Supply
<1>7. QED
  BY <1>6 DEF Perform

\* No state function misses a piece of the work directory or a field that it
\* reads, for every definition that can be built and wherever the build is
\* suspended: the lists and the fields of the metadata file are sufficient.
THEOREM InputsCorrect ==
    ASSUME \A d \in ImageDefs : Valid(d) => Buildable(d)
    PROVE  Spec => []EveryStateFindsItsInputs
<1>1. Init => EveryStateFindsItsInputs
  BY DEF Init, EveryStateFindsItsInputs
<1>2. ASSUME Inv, InputsInv, EveryStateFindsItsInputs, [Next]_vars
      PROVE  EveryStateFindsItsInputs'
  <2>1. CASE Perform
    <3>1. Buildable(imageDef)
      BY <1>2 DEF Inv, InputsInv
    <3>2. QED
      BY <1>2, <2>1, <3>1, PerformsFound DEF EveryStateFindsItsInputs
  <2>2. CASE Resume
    BY <1>2, <2>2 DEF Resume, EveryStateFindsItsInputs
  <2>3. CASE Finish
    BY <2>3 DEF Finish, EveryStateFindsItsInputs
  <2>4. CASE UNCHANGED vars
    BY <1>2, <2>4 DEF vars, EveryStateFindsItsInputs
  <2>5. QED
    BY <1>2, <2>1, <2>2, <2>3, <2>4 DEF Next
<1>3. Inv /\ InputsInv /\ EveryStateFindsItsInputs /\ [Next]_vars => EveryStateFindsItsInputs'
  BY <1>2
<1>4. QED
  BY <1>1, <1>3, InputsAlways, PTL DEF Spec

LEMMA LastsToTheEnd ==
    ASSUME NEW d, Classic(d), NEW a \in Listed(d), NEW p \in stateFunc(d, a).gives,
           p \notin Unwanted \cup {"rootfs"}
    PROVE  Supplied(d, p, Len(States(d)))
<1>1. a \in Range(States(d)) /\ DOMAIN States(d) = 1..Len(States(d)) /\ Len(States(d)) \in Nat
  BY ClassicTypes
<1>2. PICK k \in DOMAIN States(d) : States(d)[k] = a
  BY <1>1 DEF Range
<1>3. ASSUME NEW j \in (k + 1)..Len(States(d)) PROVE p \notin Supply(d, j).drops
  <2>1. j \in DOMAIN States(d)
    BY <1>1
  <2>2. States(d)[j] \in ClassicNames
    BY <2>1, ClassicTypes
  <2>3. QED
    BY <2>2, ClassicDrops DEF Classic, Supply
<1>4. QED
  BY <1>1, <1>2, <1>3 DEF Supplied, Supply

\* The artifacts asked for are given by listed states.
LEMMA ArtifactsGiven ==
    ASSUME NEW d, Classic(d), NEW p \in d.artifacts
    PROVE  \E a \in Listed(d) : p \in stateFunc(d, a).gives
<1>1. p \in {"img", "qcow2", "manifest", "filelist", "rootfsTar"}
  BY DEF Classic, Definitions
<1>2. ArtifactNames(d) \subseteq Listed(d)
  BY DEF Listed, Where
<1>3. /\ stateFunc(d, "make_disk") = makeDisk
      /\ stateFunc(d, "make_qcow2_image") = makeQcow2Img
      /\ stateFunc(d, "generate_package_manifest") = generatePackageManifest
      /\ stateFunc(d, "generate_filelist") = generateFilelist
      /\ stateFunc(d, "generate_rootfs_tarball") = generateRootfsTarball
  BY ClassicFunctions DEF Classic
<1>4. /\ "img" \in makeDisk.gives /\ "qcow2" \in makeQcow2Img.gives
      /\ "manifest" \in generatePackageManifest.gives /\ "filelist" \in generateFilelist.gives
      /\ "rootfsTar" \in generateRootfsTarball.gives
  BY DEF makeDisk, makeQcow2Img, generatePackageManifest, generateFilelist,
         generateRootfsTarball, Effect
<1>5. CASE p = "img"
  <2>1. d.gadget # "none"
    BY <1>5 DEF Classic, Valid, DiskArtifacts
  <2>2. "make_disk" \in ArtifactNames(d)
    BY <1>5, <2>1 DEF ArtifactNames, ImgNames, DiskNames, Where
  <2>3. QED
    BY <1>2, <1>3, <1>4, <1>5, <2>2
<1>6. CASE p = "qcow2"
  <2>1. "make_qcow2_image" \in ArtifactNames(d)
    BY <1>6 DEF ArtifactNames, Where
  <2>2. QED
    BY <1>2, <1>3, <1>4, <1>6, <2>1
<1>7. CASE p = "manifest"
  <2>1. "generate_package_manifest" \in ArtifactNames(d)
    BY <1>7 DEF ArtifactNames, Where
  <2>2. QED
    BY <1>2, <1>3, <1>4, <1>7, <2>1
<1>8. CASE p = "filelist"
  <2>1. "generate_filelist" \in ArtifactNames(d)
    BY <1>8 DEF ArtifactNames, Where
  <2>2. QED
    BY <1>2, <1>3, <1>4, <1>8, <2>1
<1>9. CASE p = "rootfsTar"
  <2>1. "generate_rootfs_tarball" \in ArtifactNames(d)
    BY <1>9 DEF ArtifactNames, Where
  <2>2. QED
    BY <1>2, <1>3, <1>4, <1>9, <2>1
<1>10. QED
  BY <1>1, <1>5, <1>6, <1>7, <1>8, <1>9

\* The packages, extra ones or kernel, are installed by a listed state.
LEMMA InstallListed ==
    ASSUME NEW d, Classic(d), d.rootfs = "seed" \/ d.custom \cap {"ppas", "packages"} # {}
    PROVE  "install_packages" \in Listed(d)
<1>1. d.custom \cap {"ppas", "packages"} # {} => "install_packages" \in ExtraNames(d)
  BY DEF ExtraNames, Where
<1>2. "install_packages" \in SeedNames(d)
  BY DEF SeedNames, ExtraNames
<1>3. d.rootfs = "tarball" => d.custom \cap {"ppas", "packages"} # {}
  OBVIOUS
<1>4. ExtraNames(d) \subseteq TarballNames(d)
  BY DEF TarballNames
<1>5. QED
  BY <1>1, <1>2, <1>3, <1>4, RootfsOf

LEMMA CustomizationsGiven ==
    ASSUME NEW d, Classic(d), NEW p \in d.custom \ {"present", "ppas"}
    PROVE  \E a \in Listed(d) : p \in stateFunc(d, a).gives
<1>1. p \in {"packages", "snaps", "cloudInit", "fstab", "manual"}
  BY DEF Classic, Definitions
<1>2. /\ stateFunc(d, "install_packages") = installPackages(d)
      /\ stateFunc(d, "preseed_image") = preseedClassicImage
      /\ stateFunc(d, "customize_cloud_init") = customizeCloudInit
      /\ stateFunc(d, "customize_fstab") = customizeFstab
      /\ stateFunc(d, "perform_manual_customization") = manualCustomization
  BY ClassicFunctions DEF Classic
<1>3. /\ "snaps" \in preseedClassicImage.gives /\ "cloudInit" \in customizeCloudInit.gives
      /\ "fstab" \in customizeFstab.gives /\ "manual" \in manualCustomization.gives
  BY DEF preseedClassicImage, customizeCloudInit, customizeFstab, manualCustomization, Effect
<1>4. CASE p = "packages"
  <2>1. installPackages(d).gives = {"secrets"} \cup (IF d.kernel THEN {"kernel"} ELSE {})
                                     \cup ({"packages"} \cap d.custom)
    BY DEF installPackages, Effect
  <2>2. "install_packages" \in Listed(d)
    BY <1>4, InstallListed
  <2>3. QED
    BY <1>2, <1>4, <2>1, <2>2
<1>5. CASE p = "snaps"
  <2>1. "preseed_image" \in TarballNames(d) /\ "preseed_image" \in SeedNames(d)
    BY <1>5 DEF TarballNames, SeedNames, Where
  <2>2. "preseed_image" \in Listed(d)
    BY <2>1, RootfsOf
  <2>3. QED
    BY <1>2, <1>3, <1>5, <2>2
<1>6. CASE p = "cloudInit"
  <2>1. "customize_cloud_init" \in Listed(d)
    BY <1>6, AlwaysListed DEF CustomizationNames, Where
  <2>2. QED
    BY <1>2, <1>3, <1>6, <2>1
<1>7. CASE p = "fstab"
  <2>1. "customize_fstab" \in Listed(d)
    BY <1>7, AlwaysListed DEF CustomizationNames, Where
  <2>2. QED
    BY <1>2, <1>3, <1>7, <2>1
<1>8. CASE p = "manual"
  <2>1. "perform_manual_customization" \in Listed(d)
    BY <1>8, AlwaysListed DEF CustomizationNames, Where
  <2>2. QED
    BY <1>2, <1>3, <1>8, <2>1
<1>9. QED
  BY <1>1, <1>4, <1>5, <1>6, <1>7, <1>8

LEMMA OthersGiven ==
    ASSUME NEW d, Classic(d), InstallsKernel(d)
    PROVE  /\ d.kernel => \E a \in Listed(d) : "kernel" \in stateFunc(d, a).gives
           /\ d.pocket = "updates" => \E a \in Listed(d) : "upgrades" \in stateFunc(d, a).gives
           /\ d.diskInfo => \E a \in Listed(d) : "disk info" \in stateFunc(d, a).gives
<1>1. /\ stateFunc(d, "install_packages") = installPackages(d)
      /\ stateFunc(d, "upgrade_packages") = upgradePackages
      /\ stateFunc(d, "generate_disk_info") = generateDiskInfo(d)
  BY ClassicFunctions DEF Classic
<1>2. ASSUME d.kernel PROVE \E a \in Listed(d) : "kernel" \in stateFunc(d, a).gives
  <2>1. "install_packages" \in Listed(d)
    BY <1>2, InstallListed DEF InstallsKernel
  <2>2. installPackages(d).gives = {"secrets"} \cup (IF d.kernel THEN {"kernel"} ELSE {})
                                     \cup ({"packages"} \cap d.custom)
    BY DEF installPackages, Effect
  <2>3. QED
    BY <1>1, <1>2, <2>1, <2>2
<1>3. ASSUME d.pocket = "updates"
      PROVE  \E a \in Listed(d) : "upgrades" \in stateFunc(d, a).gives
  <2>1. "upgrade_packages" \in TarballNames(d) /\ "upgrade_packages" \in SeedNames(d)
    BY <1>3 DEF TarballNames, SeedNames, UpgradeNames, Where
  <2>2. "upgrade_packages" \in Listed(d)
    BY <2>1, RootfsOf
  <2>3. "upgrades" \in upgradePackages.gives
    BY DEF upgradePackages, Effect
  <2>4. QED
    BY <1>1, <2>2, <2>3
<1>4. ASSUME d.diskInfo PROVE \E a \in Listed(d) : "disk info" \in stateFunc(d, a).gives
  <2>1. "generate_disk_info" \in Listed(d)
    BY <1>4 DEF Listed, Where
  <2>2. generateDiskInfo(d).gives = IF d.diskInfo THEN {"disk info"} ELSE {}
    BY DEF generateDiskInfo, Effect
  <2>3. QED
    BY <1>1, <1>4, <2>1, <2>2
<1>5. QED
  BY <1>2, <1>3, <1>4

\* A build that ends has made the artifacts, the customizations, the upgrades,
\* the kernel and the disk information that its definition asks for.
THEOREM RequestedCorrect ==
    ASSUME \A d \in ImageDefs : Valid(d) => Buildable(d) /\ InstallsKernel(d)
    PROVE  Spec => []RequestedIsBuilt
<1>1. ASSUME Inv, InputsInv, outcome = "done", NEW p \in Requested(imageDef) PROVE p \in have
  <2>1. /\ imageDef \in Definitions /\ Valid(imageDef)
        /\ Buildable(imageDef) /\ InstallsKernel(imageDef)
    BY <1>1, InvTypes DEF Inv, InputsInv
  <2>2. p # "Qcow2Volume" /\ p \notin Unwanted \cup {"rootfs"}
    BY <1>1, <2>1 DEF Requested, Definitions, Unwanted
  <2>3. CASE imageDef.type = "snap"
    <3>1. p \in {"img", "manifest"}
      BY <1>1, <2>3 DEF Requested
    <3>2. Len(States(imageDef)) = 10 /\ 10 \in 9..10
      BY <2>3, SnapSupply
    <3>3. Supplied(imageDef, p, Len(States(imageDef)))
      BY <2>3, <3>1, <3>2, SnapGives
    <3>4. QED
      BY <1>1, <2>2, <3>3 DEF InputsInv
  <2>4. CASE imageDef.type # "snap"
    <3>1. Classic(imageDef)
      BY <2>1, <2>4 DEF Classic
    <3>2. \/ p \in imageDef.artifacts
          \/ p \in imageDef.custom \ {"present", "ppas"}
          \/ p = "kernel" /\ imageDef.kernel
          \/ p = "upgrades" /\ imageDef.pocket = "updates"
          \/ p = "disk info" /\ imageDef.diskInfo
      BY <1>1, <2>1, <2>4 DEF Requested, Definitions
    <3>3. \E a \in Listed(imageDef) : p \in stateFunc(imageDef, a).gives
      BY <2>1, <3>1, <3>2, ArtifactsGiven, CustomizationsGiven, OthersGiven
    <3>4. Supplied(imageDef, p, Len(States(imageDef)))
      BY <2>2, <3>1, <3>3, LastsToTheEnd
    <3>5. QED
      BY <1>1, <2>2, <3>4 DEF InputsInv
  <2>5. QED
    BY <2>3, <2>4
<1>2. Inv /\ InputsInv => RequestedIsBuilt
  BY <1>1 DEF RequestedIsBuilt
<1>3. QED
  BY <1>2, InputsAlways, PTL

=============================================================================
