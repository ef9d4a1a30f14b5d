----------------------------- MODULE ImageBuild -----------------------------
(***************************************************************************)
(* One image built to the end: the list of state functions computed from   *)
(* the image definition (classic images) or fixed (snap images), and what  *)
(* each function reads and leaves behind, in the work directory and in the *)
(* fields of the StateMachine.  Between two states the build may be        *)
(* suspended (--until, --thru) and resumed by another process, which reads *)
(* the definition again and gets back the fields of the metadata file.     *)
(*                                                                         *)
(* A piece of the image or a field is a name.  Failures are the business   *)
(* of StateMachine; here a function succeeds if what it dereferences,      *)
(* opens or looks up is there.                                             *)
(***************************************************************************)
EXTENDS Integers, Sequences, FiniteSets, Functions

CONSTANTS
    ImageDefs,    \* the image definitions considered
    MaxResumes    \* bound: suspensions of one build

(***************************************************************************)
(* An image definition, reduced to what the list of states depends on.     *)
(* qcow2Volume is "unnamed" when that volume is left to default.           *)
(***************************************************************************)
Definitions ==
    [type : {"classic", "snap"}, gadget : {"none", "source", "prebuilt"},
     rootfs : {"seed", "tarball", "tasks"}, pocket : {"release", "updates"},
     custom : SUBSET {"present", "ppas", "packages", "snaps", "cloudInit",
                      "fstab", "manual"},
     kernel : BOOLEAN, deb822 : BOOLEAN, diskInfo : BOOLEAN,
     artifacts : SUBSET {"img", "qcow2", "manifest", "filelist", "rootfsTar"},
     qcow2Volume : {"named", "unnamed"}]

ASSUME BoundsAssumption ==
    ImageDefs \subseteq Definitions /\ MaxResumes \in Nat

\* Tags "is_disk" of the Artifact struct.
DiskArtifacts == {"img", "qcow2"}

\* validateGadget: no disk image without a gadget.  The sub-keys of a
\* customization exist only when it does.
Valid(d) ==
    /\ d.gadget = "none" => d.artifacts \cap DiskArtifacts = {}
    /\ d.custom # {} => "present" \in d.custom

If(cond, states) == IF cond THEN states ELSE <<>>

-----------------------------------------------------------------------------
\* The list of states of a classic image.

addGadgetStates(d) ==
    If(d.gadget = "source", <<"build_gadget_tree">>)
      \o <<"prepare_gadget_tree", "load_gadget_yaml">>

packagesOnlyFromPPAs(d) ==
    If("ppas" \in d.custom,
       <<"add_extra_ppas", "install_packages", "clean_extra_ppas">>)
extraPackageStates(d) ==
    IF "ppas" \in d.custom
    THEN <<"add_extra_ppas", "install_packages", "clean_extra_ppas">>
    ELSE If("packages" \in d.custom, <<"install_packages">>)

addRootfsFromTarballStates(d) ==
    <<"extract_rootfs_tar">>
      \o If(d.pocket # "release", <<"upgrade_packages">>)
      \o extraPackageStates(d)
      \o If("snaps" \in d.custom, <<"prepare_image", "preseed_image">>)

addRootfsFromSeedStates(d) ==
    <<"germinate", "create_chroot">>
      \o If(d.pocket # "release", <<"upgrade_packages">>)
      \o (IF "ppas" \in d.custom THEN extraPackageStates(d)
          ELSE <<"install_packages">>)
      \o <<"prepare_image", "preseed_image">>

addCustomizationStates(d) ==
    If("cloudInit" \in d.custom, <<"customize_cloud_init">>)
      \o If("fstab" \in d.custom, <<"customize_fstab">>)
      \o If("manual" \in d.custom, <<"perform_manual_customization">>)

diskStates == <<"make_disk", "setup_bootloader">>

addImgStates(d) ==
    <<"calculate_rootfs_size", "populate_bootfs_contents",
      "populate_prepare_partitions">>
      \o If("img" \in d.artifacts, diskStates)

\* Only run make_disk once: states is the list built so far.
addQcow2StatesTwice(states) == diskStates \o <<"make_qcow2_image">>
addQcow2States(states) ==
    If("make_disk" \notin Range(states), diskStates) \o <<"make_qcow2_image">>

addArtifactsStates(d) ==
    LET img == If(d.gadget # "none", addImgStates(d)) IN
    img \o If("qcow2" \in d.artifacts, addQcow2States(img))
      \o If("manifest" \in d.artifacts, <<"generate_package_manifest">>)
      \o If("filelist" \in d.artifacts, <<"generate_filelist">>)
      \o If("rootfsTar" \in d.artifacts, <<"generate_rootfs_tarball">>)

\* The part of calculateStates that creates the rootfs.
rootfsStates(d) ==
    If(d.gadget # "none", addGadgetStates(d))
      \o If(d.artifacts \cap DiskArtifacts # {}, <<"verify_artifact_names">>)
      \o CASE d.rootfs = "tarball" -> addRootfsFromTarballStates(d)
           [] d.rootfs = "seed"    -> addRootfsFromSeedStates(d)
           [] d.rootfs = "tasks"   -> <<"build_rootfs_from_tasks">>

sourcesAfterCustomization(d) ==
    rootfsStates(d) \o <<"clean_rootfs">>
      \o addCustomizationStates(d) \o <<"customize_sources_list">>
      \o <<"set_default_locale", "populate_rootfs_contents">>
      \o If(d.diskInfo, <<"generate_disk_info">>)
      \o If(d.artifacts # {}, addArtifactsStates(d))
cleanAfterCopy(d) ==
    rootfsStates(d) \o <<"customize_sources_list">>
      \o addCustomizationStates(d)
      \o <<"set_default_locale", "populate_rootfs_contents", "clean_rootfs">>
      \o If(d.diskInfo, <<"generate_disk_info">>)
      \o If(d.artifacts # {}, addArtifactsStates(d))
calculateStates(d) ==
    rootfsStates(d) \o <<"clean_rootfs", "customize_sources_list">>
      \o addCustomizationStates(d)
      \o <<"set_default_locale", "populate_rootfs_contents">>
      \o If(d.diskInfo, <<"generate_disk_info">>)
      \o If(d.artifacts # {}, addArtifactsStates(d))

snapStates ==
    <<"prepare_image", "load_gadget_yaml", "set_artifact_names",
      "populate_rootfs_contents", "generate_disk_info",
      "calculate_rootfs_size", "populate_bootfs_contents",
      "populate_prepare_partitions", "make_disk", "generate_snap_manifest">>

States(d) == IF d.type = "snap" THEN snapStates ELSE calculateStates(d)

-----------------------------------------------------------------------------
(***************************************************************************)
(* What a state function reads, leaves and removes.  A function that       *)
(* changes the chroot makes the copy in "rootfs" out of date: it removes   *)
(* it.  "secrets" are the machine-specific files of the build, "build      *)
(* sources" the apt sources used to build, "ppa sources" those of the      *)
(* extra PPAs.                                                             *)
(***************************************************************************)
Effect(needs, gives, drops) == [needs |-> needs, gives |-> gives, drops |-> drops]

buildGadgetTree == Effect({}, {"scratch/gadget/install"}, {})

prepareGadgetTree(d) ==
    Effect(IF d.gadget = "prebuilt" THEN {} ELSE {"scratch/gadget/install"},
           {"unpack/gadget", "YamlFilePath"}, {})

\* IsSeeded is settled there, true or false: a later state that takes the
\* zero value of a lost field for its value goes wrong without an error.
loadGadgetYaml ==
    Effect({"YamlFilePath", "unpack/gadget"},
           {"GadgetInfo", "VolumeOrder", "ImageSizes", "SectorSize", "IsSeeded",
            "MainVolumeName"}, {})

setArtifactNames == Effect({"GadgetInfo"}, {"VolumeNames"}, {})

\* The volume a qcow2 image is made from, when the definition does not name
\* it, is written into the ImageDef the process holds in memory.
verifyArtifactNames(d) ==
    Effect({"GadgetInfo"},
           {"VolumeNames"} \cup
             (IF "qcow2" \in d.artifacts THEN {"Qcow2Volume"} ELSE {}), {})

germinate == Effect({}, {"Packages", "Snaps"}, {})

\* The legacy sources list of the build takes its components from the
\* customization.
createChroot(d) ==
    Effect(IF d.deb822 THEN {} ELSE {"Customization"},
           {"chroot", "secrets", "build sources"}, {"rootfs"})

extractRootfsTar == Effect({}, {"chroot", "secrets"}, {"rootfs"})

upgradePackages == Effect({"chroot"}, {"upgrades", "secrets"}, {"rootfs"})

\* gatherPackages adds the extra packages and the kernel to the seed's.
installPackages(d) ==
    Effect({"chroot"} \cup (IF d.rootfs = "seed" THEN {"Packages"} ELSE {})
             \cup (IF "ppas" \in d.custom THEN {"ppa sources"} ELSE {}),
           {"secrets"} \cup (IF d.kernel THEN {"kernel"} ELSE {})
             \cup ({"packages"} \cap d.custom),
           {"rootfs"})

addExtraPPAs == Effect({"chroot", "Customization"}, {"ppa sources"}, {"rootfs"})

cleanExtraPPAs == Effect({"ppa sources", "Customization"}, {}, {"ppa sources", "rootfs"})

prepareClassicImage(d) ==
    Effect({"chroot"} \cup (IF d.rootfs = "seed" THEN {"Snaps"} ELSE {}),
           {"snap seed"}, {"rootfs"})

preseedClassicImage ==
    Effect({"chroot", "snap seed"}, {"snaps", "secrets"}, {"rootfs"})

buildRootfsFromTasks == Effect({}, {}, {})

\* Removing and truncating files that do not exist is no error.
cleanRootfs == Effect({}, {}, {"secrets", "rootfs"})

\* The pocket of the target is the customization's, in both formats.
customizeSourcesList ==
    Effect({"chroot", "Customization"}, {}, {"build sources", "rootfs"})

customizeCloudInit == Effect({"chroot", "Customization"}, {"cloudInit"}, {"rootfs"})
customizeFstab == Effect({"chroot", "Customization"}, {"fstab"}, {"rootfs"})
manualCustomization == Effect({"chroot", "Customization"}, {"manual"}, {"rootfs"})

\* The directory is created if it is missing.
setDefaultLocale == Effect({}, {}, {"rootfs"})

populateClassicRootfsContents == Effect({"chroot"}, {"rootfs"}, {})

generateDiskInfo(d) ==
    Effect({"rootfs"}, IF d.diskInfo THEN {"disk info"} ELSE {}, {})

calculateRootfsSize ==
    Effect({"rootfs", "GadgetInfo", "ImageSizes", "SectorSize"}, {"RootfsSize"}, {})

populateBootfsContents ==
    Effect({"GadgetInfo", "VolumeOrder", "IsSeeded", "unpack/gadget"},
           {"boot contents"}, {})

populatePreparePartitions ==
    Effect({"GadgetInfo", "VolumeOrder", "ImageSizes", "SectorSize", "IsSeeded",
            "RootfsSize", "rootfs", "boot contents"}, {"partitions"}, {})

makeDisk ==
    Effect({"GadgetInfo", "VolumeNames", "ImageSizes", "SectorSize", "IsSeeded",
            "partitions"},
           {"img", "RootfsVolName", "RootfsPartNum", "BootPartNum",
            "HasBIOSPartition"}, {})

setupBootloader ==
    Effect({"GadgetInfo", "SectorSize", "RootfsVolName", "RootfsPartNum",
            "BootPartNum", "HasBIOSPartition", "img"}, {"bootloader"}, {})

makeQcow2Img == Effect({"VolumeNames", "Qcow2Volume", "img"}, {"qcow2"}, {})

generatePackageManifest == Effect({"rootfs"}, {"manifest"}, {})
generateFilelist == Effect({"rootfs"}, {"filelist"}, {})
generateRootfsTarball == Effect({"rootfs"}, {"rootfsTar"}, {})

prepareImage == Effect({}, {"unpack/gadget", "unpack/image", "YamlFilePath"}, {})
populateSnapRootfsContents ==
    Effect({"unpack/image", "IsSeeded"}, {"rootfs"}, {"unpack/image"})
generateSnapManifest == Effect({"rootfs"}, {"manifest"}, {})

\* The stateFunc variables: a name and its function, by type of image.
stateFunc(d, name) ==
    CASE name = "prepare_image" ->
           IF d.type = "snap" THEN prepareImage ELSE prepareClassicImage(d)
      [] name = "populate_rootfs_contents" ->
           IF d.type = "snap" THEN populateSnapRootfsContents
           ELSE populateClassicRootfsContents
      [] name = "build_gadget_tree" -> buildGadgetTree
      [] name = "prepare_gadget_tree" -> prepareGadgetTree(d)
      [] name = "load_gadget_yaml" -> loadGadgetYaml
      [] name = "set_artifact_names" -> setArtifactNames
      [] name = "verify_artifact_names" -> verifyArtifactNames(d)
      [] name = "germinate" -> germinate
      [] name = "create_chroot" -> createChroot(d)
      [] name = "extract_rootfs_tar" -> extractRootfsTar
      [] name = "upgrade_packages" -> upgradePackages
      [] name = "install_packages" -> installPackages(d)
      [] name = "add_extra_ppas" -> addExtraPPAs
      [] name = "clean_extra_ppas" -> cleanExtraPPAs
      [] name = "preseed_image" -> preseedClassicImage
      [] name = "build_rootfs_from_tasks" -> buildRootfsFromTasks
      [] name = "clean_rootfs" -> cleanRootfs
      [] name = "customize_sources_list" -> customizeSourcesList
      [] name = "customize_cloud_init" -> customizeCloudInit
      [] name = "customize_fstab" -> customizeFstab
      [] name = "perform_manual_customization" -> manualCustomization
      [] name = "set_default_locale" -> setDefaultLocale
      [] name = "generate_disk_info" -> generateDiskInfo(d)
      [] name = "calculate_rootfs_size" -> calculateRootfsSize
      [] name = "populate_bootfs_contents" -> populateBootfsContents
      [] name = "populate_prepare_partitions" -> populatePreparePartitions
      [] name = "make_disk" -> makeDisk
      [] name = "setup_bootloader" -> setupBootloader
      [] name = "make_qcow2_image" -> makeQcow2Img
      [] name = "generate_package_manifest" -> generatePackageManifest
      [] name = "generate_filelist" -> generateFilelist
      [] name = "generate_rootfs_tarball" -> generateRootfsTarball
      [] name = "generate_snap_manifest" -> generateSnapManifest

-----------------------------------------------------------------------------
(***************************************************************************)
(* The build.                                                              *)
(***************************************************************************)
VARIABLES
    imageDef,     \* ImageDef, as read from the definition file
    performed,    \* the state functions that succeeded; its length is StepsTaken
    have,         \* pieces of the work directory and output, and fields set
    resumes,      \* number of resumed processes so far
    outcome       \* "building", "failed" or "done"

vars == <<imageDef, performed, have, resumes, outcome>>

\* Fields of the StateMachine and of the ImageDef that states set.  No state
\* reads MainVolumeName.
Fields ==
    {"YamlFilePath", "GadgetInfo", "VolumeOrder", "ImageSizes", "SectorSize",
     "IsSeeded", "MainVolumeName", "VolumeNames", "Packages", "Snaps", "RootfsSize",
     "RootfsVolName", "RootfsPartNum", "BootPartNum", "HasBIOSPartition",
     "Qcow2Volume"}

\* What reading the definition file brings.
FromDefinition(d) ==
    {"Customization" : x \in {"present"} \cap d.custom}
      \cup {"Qcow2Volume" : x \in {"named"} \cap {d.qcow2Volume}}

\* The fields a resumed process takes from the metadata file.
loadStateWithoutBIOS == Fields \ {"Qcow2Volume", "HasBIOSPartition"}
loadState == Fields \ {"Qcow2Volume"}

\* The states that are left after so many steps.
remainingSkipsOne(d, taken) ==
    SubSeq(States(d), taken + (IF taken = 0 THEN 1 ELSE 2), Len(States(d)))
remaining(d, taken) == SubSeq(States(d), taken + 1, Len(States(d)))

toPerform == remaining(imageDef, Len(performed))

Init ==
    /\ imageDef \in {d \in ImageDefs : Valid(d)}
    /\ performed = <<>>
    /\ have = {}
    /\ resumes = 0
    /\ outcome = "building"

\* The next state function of the list.
Perform ==
    /\ outcome = "building"
    /\ toPerform # <<>>
    /\ LET name == Head(toPerform)
           f    == stateFunc(imageDef, name)
       IN  IF f.needs \subseteq have \cup FromDefinition(imageDef)
           THEN /\ have' = (have \ f.drops) \cup f.gives
                /\ performed' = Append(performed, name)
                /\ UNCHANGED outcome
           ELSE /\ outcome' = "failed"
                /\ UNCHANGED <<have, performed>>
    /\ UNCHANGED <<imageDef, resumes>>

\* The run ends, after --until or --thru, and another process resumes it with
\* the same definition file: what was only in memory is gone.
Resume ==
    /\ outcome = "building"
    /\ resumes < MaxResumes
    /\ have' = have \ (Fields \ loadState)
    /\ resumes' = resumes + 1
    /\ UNCHANGED <<imageDef, performed, outcome>>

Finish ==
    /\ outcome = "building"
    /\ toPerform = <<>>
    /\ outcome' = "done"
    /\ UNCHANGED <<imageDef, performed, have, resumes>>

Next == Perform \/ Resume \/ Finish

Spec == Init /\ [][Next]_vars

-----------------------------------------------------------------------------
\* Pieces of the work directory and of the output, by what they are or hold.
Pieces ==
    {"scratch/gadget/install", "unpack/gadget", "unpack/image", "chroot", "rootfs",
     "secrets", "build sources", "ppa sources", "upgrades", "kernel", "packages",
     "snap seed", "snaps", "cloudInit", "fstab", "manual", "disk info",
     "boot contents", "partitions", "img", "bootloader", "qcow2", "manifest",
     "filelist", "rootfsTar"}

\* Types; what was performed is the beginning of the list of states.
TypeOK ==
    /\ imageDef \in Definitions
    /\ performed = SubSeq(States(imageDef), 1, Len(performed))
    /\ have \subseteq Fields \cup Pieces
    /\ resumes \in 0..MaxResumes
    /\ outcome \in {"building", "failed", "done"}

\* The definitions that can be built.  The others stop in a state function or
\* make no rootfs: every list has customize_sources_list, which dereferences
\* Customization; build_rootfs_from_tasks has no body yet; and the name of a
\* default qcow2 volume does not survive a suspension.
Buildable(d) ==
    d.type = "classic" =>
      /\ "present" \in d.custom
      /\ d.rootfs # "tasks"
      /\ "qcow2" \in d.artifacts => d.qcow2Volume = "named"

\* A kernel is installed with packages: the lists of tarballs have a state for
\* it only if there are extra packages or PPAs.
InstallsKernel(d) ==
    d.kernel => d.rootfs = "seed" \/ d.custom \cap {"ppas", "packages"} # {}

\* Every state function finds what it reads, whatever the definition and
\* wherever the build was suspended: the order of the lists computed by
\* calculateStates, and the fields that loadState restores, are sufficient.
EveryStateFindsItsInputs == outcome # "failed"

\* What the definition asks of the image and of the output directory.
Requested(d) ==
    IF d.type = "snap" THEN {"img", "manifest"}
    ELSE d.artifacts \cup (d.custom \ {"present", "ppas"})
           \cup {"kernel" : x \in {TRUE} \cap {d.kernel}}
           \cup {"upgrades" : x \in {"updates"} \cap {d.pocket}}
           \cup {"disk info" : x \in {TRUE} \cap {d.diskInfo}}

\* A build that ends without error has made all that was requested.
RequestedIsBuilt == outcome = "done" => Requested(imageDef) \subseteq have

\* The files of the image are free of machine-specific secrets, of the apt
\* sources of the build and of the PPAs used only to build.
ImageIsClean ==
    "rootfs" \in have =>
        have \cap {"secrets", "build sources", "ppa sources"} = {}

\* Once the staged chroot is copied to rootfs, nothing changes the chroot any
\* more: artifacts are all made from the same, final contents.
CopyIsFinal == [][ "rootfs" \in have => "rootfs" \in have' ]_vars

Before(a, b) ==
    \A i, j \in DOMAIN performed :
        performed[i] = a /\ performed[j] = b => i < j

\* customizeSourcesList "must be executed once packages installation is done,
\* and before other manual customization to let users modify it".
SourcesListInPlace ==
    /\ \A f \in {"upgrade_packages", "install_packages", "clean_extra_ppas"} :
            Before(f, "customize_sources_list")
    /\ \A f \in {"customize_cloud_init", "customize_fstab",
                  "perform_manual_customization"} :
            Before("customize_sources_list", f)

\* No state function is performed twice in a build, resumed or not: "only run
\* make_disk once", when both an img and a qcow2 are asked for.
EachStateOnce == IsInjective(performed)

-----------------------------------------------------------------------------
(***************************************************************************)
(* What the documentation says, for the runs that refute it.               *)
(***************************************************************************)
\* Resuming works from any state: a build that was resumed does not fail.
ResumesFromAnyState == resumes > 0 => outcome # "failed"
=============================================================================
