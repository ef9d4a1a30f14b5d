# A formal model of ubuntu-image

ubuntu-image turns an image definition (classic images) or a model assertion
(snap images) into disk images. This directory holds TLA+ modules of its core
logic, the TLC configurations that model-check them, and proofs checked by
TLAPS. `PROJECT.json` lists components, runs, the source lines each definition
models, the hazards of the code and the findings.

## 1. The system

One process builds one image. It runs a list of *state functions* one after the
other; each does its part in the work directory (`chroot`, `root`, `unpack`,
`scratch`, `volumes`) by calling other programs. With `--workdir` the directory
is kept, and with `--until`/`--thru` and `--resume` a build is spread over
several processes, which share the directory and `ubuntu-image.json` in it.
There are no goroutines. What is hard is not interleaving but *history*: what a
failed, killed or suspended process left, what order a computed list has, and
what a teardown does with half of a set-up.

| Component | Source | State it keeps | Operations | Model |
|---|---|---|---|---|
| State machine engine | `cmd/ubuntu-image/main.go`, `internal/statemachine/state_machine.go`, `classic.go`, `snap.go` | flags, `StepsTaken`, `CurrentStep`, remaining states, `cleanWorkDir`; work directory, metadata file | `Setup`, `Run`, `Teardown` and what they call | `StateMachine`, `BuildProgress` |
| Lists of states | `classic.go`, `classic_states.go`, `snap_states.go`, `common_states.go` | fields of `StateMachine`, contents of the work directory | `calculateStates`, every `stateFunc` as a step, `loadState` | `ImageBuild` |
| Apt sources, extra PPAs | `internal/imagedefinition/image_definition.go`, `internal/ppa/ppa.go`, `classic_states.go`, `helper.go` | `sources.list`, `ubuntu.sources`, `sources.list.d`, `trusted.gpg.d` | write sources (build, target), add and remove PPAs, install packages | `AptSources` |
| Chroot sessions | `classic_states.go`, `mount_helper.go`, `internal/helper/helper.go` | mounts, diverted programs, `resolv.conf` and its backup | set-up, commands, deferred teardown, restore | `ChrootSession` |
| Sizes, disk layout, partition table | `internal/partition`, `common_states.go`, `helper.go` | sizes and offsets, GPT/MBR tables | `calculateRootfsSize`, `makeDisk`, `copyDataToImage`, `writeOffsetValues` | `PartitionTable`, `DiskImage` |
| Gadget YAML, volume order | `state_machine.go`, `common_states.go` | `GadgetInfo`, `VolumeOrder`, `ImageSizes`, `VolumeNames` | `loadGadgetYaml`, `saveVolumeOrder`, `parseImageSizes` | `DiskImage` |
| Bootloader set-up | `bootloader_helper.go`, `classic_states.go` | loop device, mounts on the finished image, its `resolv.conf` and `os-prober` | `setupBootloader`, `setupGrub` | choice in `DiskImage`, GRUB in `GrubSession` |
| Image definition | `internal/imagedefinition` | none (stateless) | parse, validate, defaults | partly, in `ImageBuild` |
| Snap preparation, customizations, artifacts | `snap_states.go`, `classic_states.go` | files of the image | prepare, preseed, customize, manifests | as steps of `ImageBuild` |
| Command line | `cmd/`, `internal/commands` | options | parse, `executeStateMachine` | the options of `StateMachine` |
| Helpers, architecture names, tests, packaging | `internal/helper`, `internal/arch`, `testhelper`, `debian` | none | stateless | predicates and rounding in `PartitionTable`, the rest not modelled |

**Interactions.** The engine calls the state functions through one table of
names; a function sees the struct of the process and the files of the work
directory, never the engine's counters. Two processes of a build meet only
through the work directory and the metadata. The chroot is shared by all state
functions: `install_packages` reads the apt files that `create_chroot` and
`add_extra_ppas` wrote; `populate_rootfs_contents` restores the `resolv.conf`
that package sessions moved away; artifacts are made from the copy of the
chroot and not from the chroot itself. `calculate_rootfs_size`,
`populate_prepare_partitions`, `make_disk` and `setup_bootloader` pass sizes and
partition numbers on in `GadgetInfo`, `ImageSizes` and the numbers of the struct,
each correcting what the one before left there.

**What makes each part correct.**

* Engine: a checkpoint never counts a state that has not completed; a state
  function runs only after its predecessors; what is run is what was displayed;
  temporary directories go, given ones stay; a dry run writes nothing; it ends.
* Lists: every function finds what it reads, fresh or resumed; all that was
  requested is made, once, from final and clean contents.
* Apt: packages come from the sources of the build, the image gets those of the
  target, and only PPAs to be kept stay, with or without failures.
* Sessions: a state that succeeds leaves no mount, no fake program, and the
  image its own `resolv.conf`; nothing mounted is ever removed recursively.
* Disks: every partition fits between the tables and shares no sector with
  another; content and boot sectors are where the table says; `--image-size` is
  honoured, for the volume it names.
* GRUB: installed on the partitions of the image the numbers belong to; after
  `setupGrub` nothing of it is attached or mounted, and the image is as it was.

The hazards behind these are in `PROJECT.json`, each at its line. Those
without a property say why: mostly, the code has no answer to them.

## 2. The modules

### StateMachine, BuildProgress

`StateMachine` is the life of one process, and a chain of up to `MaxRuns` of
them, over one given directory. `pc` is the function of the code being run and
each action bears its name: `validateInput`, `validateUntilThru`,
`readMetadata` (with `loadState`), `SetSeries` (with `displayStates`),
`makeTemporaryDirectories`, `determineOutputDirectory`, `Run` (the head of the
loop), `stateOk`/`stateError` (a state function
returns), `cleanupAfterError`, `Teardown`, `writeMetadata`. `Invoke` starts a
process with any options; `Kill` stops it anywhere. The slice of remaining
states is the index `next`: `loadState` drops the first `StepsTaken` and the
loop the head, so `stateMachine.states` is always a suffix of the list. `--dry-run` is
tested where the code does, once in each of `Setup`, `Run` and `Teardown`:
`afterDisplay`, `enterRun` and `leave`; a dry run comes through all three, and
without one of them it would make directories, build, or write and clean up.
Opening
the metadata file truncates it, and encoding comes later: `Teardown` leaves a
torn file, which `writeMetadata` completes or not.

State functions are names. What matters of them is that they complete, that they
may fail, and that some (`Once`; in the code `create_chroot`) refuse to make
again what they made. The given directory may hold the metadata of another
build with more states (`Foreign`).

`BuildProgress` is the promise behind `--workdir` and `--resume`: states
complete in order, and the checkpoint covers completed states only. The
engine implements it with `done <- done["given"]` and `saved <-` the count of a
metadata file that can be loaded (-1 without one): `ImplementsProgress`.

Two histories are added to the code's state, `done` and `ran`; no guard reads them.

### ImageBuild

`calculateStates(d)` and its helpers build the list of a classic image, the
snap list is fixed. For each state, `Effect(needs, gives, drops)` names what it
reads (without which it fails: a nil dereference, an open, a lookup), what it
leaves, and what it removes or makes out of date. `Perform` is the next function
of the list; `Resume` loses what is not in the metadata: all fields of
`loadState` come back, the definition is read again, what a state wrote into the
`ImageDef` in memory does not come back. A function that changes the chroot
drops `"rootfs"`, the copy, so that a list that copied too early shows.

### AptSources

The apt files of the chroot, through the state functions that write them:
`WriteSources` (one file at a time, in order), `AddPPA`, `RemovePPA`,
`installPackages` (`upgrade_packages` and `install_packages`), `EndState`. A
tarball comes with either file or both, whatever the format of the definition,
and with sources of any suites: `original` keeps what was there. An entry is mirror, suite, and the list of
components it uses. `Fail` stops a state function before or in the middle of an
item (truncated file, key without file, file removed but key kept); `Retry` is a
process that resumes at any earlier state but the first, since the checkpoint it
has may be any older one. The chroot directory exists by then, so
`create_rootfs` cannot be repeated. `create_rootfs` stands for `create_chroot`
or `extract_rootfs_tar`. The history `used` is the configuration at the last
installation; `retargeted` tells whether the target's sources had been written.

Left out: pinning priorities, authentication strings and looking up
fingerprints. They change nothing in which files and keys exist.

### ChrootSession

`runCmdsWithChrootSetup`, `preseedClassicImage` and `manualCustomization` as
jobs; `populate_rootfs_contents` ends the build. One action per command that
changes the chroot: `Backup`, `Mount`, `Divert`, `WriteFake`, `Commands`,
`RemoveFake`, `Undivert`, `Teardown`. Deferred functions are the set `deferred`,
run last in first out. `Commands` may turn `resolv.conf` into a link, mount
something, and install a diverted program, as maintainer scripts do. Those of
`manualCustomization`, which are the user's (`manualExecute`, `manualCopyFile`,
`manualTouchFile`), may also write or remove `resolv.conf`, remove programs,
and mount with no teardown around them: `scripted` is what they mounted.
`Fault(kind)` is a failure of that kind, or a kill; `Return` removes a
temporary work directory after an error; `Resume` performs the state again in a
given one. `FileExists` follows symlinks, as `osutil.FileExists` does.

External, modelled from how the code uses them: `dpkg-divert` (rename unless
already diverted; put back), `mount`/`umount` (mounts stack), apt and
maintainer scripts (`Commands`).

### PartitionTable, DiskImage

`PartitionTable` has no state: the structures of a volume, where they start
(`Starts`), the sizes of tables, and `GeneratePartitionTable` with the numbers
it finds. The boot partition is recorded before it is decided to skip a
structure, the rootfs after; both are here as in the code. A GPT entry is given
its size in bytes and the library keeps the whole sectors in it; an MBR entry
has its count of sectors rounded up and cut to 32 bits.

`DiskImage` is the sequence of state functions on one gadget: `loadGadgetYaml`
(order of volumes, a rootfs nobody declared, seeded gadgets, `--image-size`),
`artifactNames`, `calculateRootfsSize`, `populatePreparePartitions`, `makeDisk`
for each volume, `setupBootloader` and whether `setupGrub` fails. Where the code ranges over a Go map, the
model takes the elements in any order: `makeDisk(v)` with any volume that is
left, `calculateRootfsSize` with any volume that has a rootfs. Sizes and offsets
are integers in bytes, the real ones, and rounding is the code's.
`saveVolumeOrder` searches the text of gadget.yaml for each name followed by a
colon. All its search tells apart is `gadget.matches`, the names of volumes that
come before a colon in the text, in order, as keys or as the ends of others;
`gadget.declared` is the place among them where each volume is declared.
`pc = "failed"` has the reason in
`error`; `"panic"` is an index or a nil dereference.

External: snapd's layout (`Starts`, `VolumeSize`, `VolumeMinSize`, which
structures are partitions), modelled from how it is used; the sizes of what
`du` and `mkfs` make are `ContentSizes` and `ext4Padding`.

### GrubSession

`setupGrub` on a finished image: `AssociateLoopDevice`, `Prepare`
(`prepareGrubMountDir`), `RunCmd` (one command of a list), `Backup`,
`ListCommands` (the rest of the function fills both lists), `RestoreResolvConf`,
`TeardownCmd`, `Return`. The two lists are state, as in the code: commands to
set up run first in first out and stop at an error, commands to tear down are put
in front and all run. `layers` is what is mounted on the mount point: after a
kill, the next process mounts above what was left. `Retry` is that process, on
the same image or on one that `make_disk` made again. `Fault("mounted")` is a
command that succeeds and leaves something else mounted.

External: `losetup`, `mount`, `umount` (a busy mount point is refused),
`dpkg-divert`, `grub-install`, `update-grub`, which runs `os-prober` when it
is there.

## 3. The runs

All `.cfg` files give small finite constants. `CHECK_DEADLOCK FALSE` is in every
one because builds end (`done`, or a failed process without a directory to
resume in) and chains of processes are bounded; that a process does not stop
half-way is `Terminates`.

| Run | What it shows | States |
|---|---|---|
| `state_machine` (`StateMachine.cfg`) | the engine's invariants, action properties, refinement and termination | 146 468 |
| `image_build` (`ImageBuild.cfg`) | every list is sufficient, complete and clean, also suspended twice | 59 460 |
| `apt_sources` (`AptSources.cfg`) | sources and PPAs after any two failures and retries | 206 570 |
| `chroot_session` (`ChrootSession.cfg`) | teardown after any two failures or kills | 225 607 |
| `disk_image` (`DiskImage.cfg`) | partitions, content, sizes and numbers on the disks of 19 gadgets | 50 508 |
| `grub_session` (`GrubSession.cfg`) | what `setupGrub` leaves after any two failures or kills, and retries | 389 276 |

*Bounds.* `state_machine`: three states are a first, a middle (the `Once` one)
and a last, so `--until`, `--thru` and a checkpoint can be before, at and after
each other; three processes are one that saves, one that fails or is killed
past the checkpoint, one that resumes. `MaxRuns` bounds `Invoke` and nothing
else. `image_build`: `MCImageDefs` has every combination of gadget, rootfs,
pocket, extra packages, PPAs, snaps, customization and the artifact sets that
decide which states exist; two suspensions (a field lost by the first is noticed
after the second). `apt_sources`: a tarball with or without `ubuntu.sources`, in
both formats; two PPAs (one kept, one not, or both not)
suffice for a list half done; two failures are one in the first attempt and one
in its retry. `chroot_session`: two faults of any of the seven kinds; nested
mounts, one shared with `preseed_image`, one that is not, and two diversions;
builds of up to four sessions. `disk_image`: the pc, pi, u-boot and core gadgets
in small (MiB instead of GiB) in both schemas, and gadgets of three volumes with
one or two boot partitions in the volumes, next to an emmc one; contents
that are empty, smaller and larger than what the gadget declares; image sizes
absent, too small, between the size of the volume and that with its table, not a
multiple of a sector, and large, by number, name and for all. `Word` and `MBRWord` are 2^30 and 2^20 instead of 2^64 and 2^32 (the
values of TLC have 32 bits); no size here reaches them, so nothing is cut:
volumes of 2 TiB and more are not checked. In the gadgets of this run nothing
with an offset of its own follows the rootfs; the run `structures_overlap` has
one where something does. `grub_session`: two faults of any of nine kinds and two
retries; three mount points, one inside another, one a bind mount; with and
without boot partition and BIOS target; the three kinds of series.

*Symmetry* is not used: the states, PPAs and mounts are ordered.

*Fairness.* `Terminates` assumes weak fairness of `Step` alone: every call a
process makes returns in the end, with success or error. The code has no
timeouts, and waits for each command. It is not assumed that a process is
started, or killed, nor that a state function succeeds.

*Conditions in properties.* Where the code does not keep a promise after certain
failures, the property says so, and the promise without condition is a run of its
own when a document makes it: `SuccessLeavesNoFake` excludes faults of
`dpkg-divert` itself and kills, `RemovedWhenUnmounted` a failed umount,
`BuildSuites` an installation or upgrade repeated after the sources were
customized. `SuccessLeavesNoMount` and `RemovedWhenUnmounted` except what scripts
of the manual customization mounted, and nothing else that is mounted.
`OnlyTargetSources` asks of the legacy format that `sources.list` is replaced and
that `ubuntu.sources` is as it came. `TempDirRemoved` is about processes that reached `Run`. `Released` excludes, for
a process that fails, an umount or detach that is itself the failure and
anything after an earlier kill;
`ImageRestored` a link in place of `resolv.conf` that a process that stopped
half-way has lost (the same defect as `resolv_leak`).

### Promises the code does not keep

Each of these runs states one sentence of the documentation, and TLC finds an
execution that contradicts it. The quotations are in `PROJECT.json`.

| Run | What happens |
|---|---|
| `resume_blocked` | a failure past `create_chroot` leaves an older checkpoint; resuming from it fails on the existing directory |
| `resume_qcow2` | the default volume of a qcow2 image is lost by `--resume` |
| `kept_ppa_key` | a kept legacy PPA loses its key |
| `resume_sources` | a resumed build installs packages from the suites of the target |
| `resolv_leak` | a `resolv.conf` that is a dangling link is replaced by the host's in the image |
| `structures_overlap` | a rootfs raised to its content's size overlaps a structure that comes after it with an offset, and the image is made |

Seen while modelling and without a run of its own:

* `--until`/`--thru` naming a state that an earlier process has completed passes
  `validateUntilThru` (it looks in the full list); the resumed process goes to
  the end. `StopsWhereAsked` is therefore about processes that do not resume.
* A rootfs tarball without extra packages or PPAs has no `install_packages`:
  `kernel:` of the definition is not installed. `MCImageDefs` has a kernel in
  tarball builds only with extra packages.
* The legacy format takes the customization's components also to build, the
  deb822 format takes the rootfs's also for the target; the deb822 format always
  adds the security suite (`TargetSuites` says so).
* With the legacy format, which is the default, an `ubuntu.sources` that came with
  a rootfs tarball is never written: the image has its sources and suites besides
  those asked for, and packages are installed from them too.
* What a script of the manual customization mounts is not taken down. When the
  state succeeds the mount is there while the chroot is copied, and when it fails
  in a temporary work directory, `RemoveAll` goes through it.
* A failed `dpkg-divert`, or a kill in a session, leaves a program moved away
  for good: `WriteFake` comes before the deferred undo, and a second session
  finds no program to divert.
* If an umount fails in a temporary work directory, `RemoveAll` goes through
  what is still mounted.
* A legacy PPA whose key was imported by an attempt that then failed cannot be
  added again: gpg in batch mode does not overwrite (`error = "exists"`).
* `Setup` failing after `makeTemporaryDirectories` leaves the temporary directory.
* A definition without the optional `customization` dereferences nil.
* In deb822 format the security pocket has no release suite, for the build and
  for the image; `PPAs` with the same name twice are not refused.
* With several volumes GRUB is installed, or skipped in silence, depending on the
  order of a Go map: each volume overwrites the boot partition number, and the
  last may have none. `GrubPartitionsRight` is about when it is installed.
* Without any rootfs structure `setup_bootloader` fails ("no volume to setup
  bootloader for"), where `debian/changelog:50` has "Do not fail but only warn".
* Disks are larger than asked for by the size of the partition table. The sizes
  are compared without it and the rootfs is computed with it: a size between
  that of the volume and that with the table makes the disk larger and leaves
  the rootfs as it was (`ImageSizeHonoured` says so).
* A structure that does not end at a sector makes the rootfs data of the next one
  start one sector before its partition (`seek` rounds down, the table up); a
  GPT partition whose size is not a whole number of sectors loses the last one.
* A name of a volume that comes before a colon earlier in gadget.yaml, in any
  other place, changes the numbers that `--image-size` uses; a negative number
  panics.
* Several `img` artifacts for a gadget of one volume: only one is made; a volume
  that does not exist is not noticed.

## 4. The proofs

Eight modules of proofs, beside the modules they are about. Everything is proved
for all values of the constants that the named assumptions of the module allow;
the runs are the same properties on small instances. A theorem that holds only
of some definitions or gadgets names them by an operator (`Buildable`,
`WellLaid`, ...). `MCImageBuild` and `MCDiskImage` have these as assumptions
(`RunAssumptions`), which TLC evaluates: what the runs that pass are given meets
them, so they exclude no case the runs have, and the gadget of
`structures_overlap`, which breaks the promise, is not `WellLaid`.

| Module | Theorem | Property |
|---|---|---|
| `StateMachineProofs` | `TypeCorrect` | `TypeOK` |
| | `CheckpointCorrect` | `CheckpointSound`: a loadable checkpoint counts completed states only |
| | `CompleteCorrect` | `CheckpointComplete`: after a success it counts all that was run |
| | `OrderCorrect` | `InOrder`: predecessors completed in the same directory |
| | `ShownCorrect` | `RunsWhatIsShown`: `Run` executes what `displayStates` announced |
| | `StopCorrect` | `StopsWhereAsked`: `--until` and `--thru` |
| | `DryRunCorrect` | `DryRunPure` |
| | `TempDirCorrect`, `WorkDirCorrect` | `TempDirRemoved`, `WorkDirKept` |
| | `ProgressCorrect` | `ImplementsProgress`: `StateMachine` implements `BuildProgress` |
| `ImageBuildProofs` | `TypeCorrect` | `TypeOK` |
| | `OnceCorrect` | `EachStateOnce` |
| | `CleanCorrect` | `ImageIsClean` |
| | `CopyCorrect` | `CopyIsFinal` |
| | `SourcesListCorrect` | `SourcesListInPlace` |
| `ImageInputsProofs` | `InputsCorrect` | `EveryStateFindsItsInputs`, if all valid definitions are `Buildable` |
| | `RequestedCorrect` | `RequestedIsBuilt`, if also `InstallsKernel` |
| `AptSourcesProofs` | `TypeCorrect` | `TypeOK` |
| | `PPAsCorrect` | `PPAsAsAsked` |
| | `InstallationCorrect` | `InstallSeesEveryPPA` |
| | `SourcesCorrect` | `OnlyTargetSources` |
| | `TargetCorrect`, `BuildCorrect` | `TargetSuites`, `BuildSuites`, if no deb822 configuration has the security pocket |
| `ChrootSessionProofs` | `TypeCorrect` | `TypeOK` |
| | `NoMountCorrect` | `SuccessLeavesNoMount` |
| | `NoFakeCorrect` | `SuccessLeavesNoFake` |
| | `RemovalCorrect` | `RemovedWhenUnmounted` |
| | `ResolvConfCorrect` | `ImageHasItsResolvConf`, if no `resolv.conf` is a dangling link |
| `GrubSessionProofs` | `TypeCorrect` | `TypeOK` |
| | `NotScannedCorrect` | `HostNotScanned` |
| | `ReleasedCorrect` | `Released` |
| | `RestoredCorrect` | `ImageRestored` |
| `DiskImageProofs` | `TypeCorrect` | `TypeOK` |
| | `GrubCorrect` | `GrubPartitionsRight` |
| | `OrderCorrect` | `VolumesInOrder`, if the gadget is `NamedInOrder` |
| | `FitCorrect` | `PartitionsFit`, if `WellLaid` and `[]WithinTables` |
| | `DisjointCorrect` | `PartitionsDisjoint`, if `WellLaid` and `[]WithinTables` |
| | `ContentCorrect` | `ContentInPartition`, if `WellLaid`, `WholeSectors` and `[]WithinTables` |
| | `SizeCorrect` | `ImageSizeHonoured`, if `WellLaid`, `NoGaps` and `[]WithinTables` |
| `PartitionTableProofs` | lemmas only | what `Starts`, rounding, numbering and the table compute |

### StateMachineProofs

Assumptions: `StatesAssumption` (distinct names), `BoundsAssumption`.

None of the invariants is inductive alone. `CheckpointSound` constrains the file,
but the file is written from `StepsTaken` of the process, so the invariant must
follow the count through the process: `ProcessInv` says that in a live process
`stepsTaken = next - 1` and the states before `next` have completed in the
directory in use, that resuming implies a given directory, that past `mkdir`
`cleanWorkDir` holds exactly in a temporary one, and that a torn file is in a
given one. `CheckpointInv` is `ProcessInv`, `CheckpointSound` and
`TempDirRemoved`; `InOrder` and `WorkDirKept` follow from it. The steps that
matter are `loadState`, where the invariant on the file becomes the one on the
process, and `writeMetadata`, where it goes back; `Invoke` empties the temporary
directory only.

`ShownInv` says that what was shown is what has been run plus what the display
would list from `next` on, whose head is decided by the same two comparisons as
in `Run`; at the end of the loop the rest is empty. The refinement has one case
per action: `stateOk` in the given directory is `Complete(next)`, a complete
file is `Save(stepsTaken)`, a truncated one `Lose`, all others stutter.
`ProgressInit` and `ProgressStep` are combined by temporal logic in the last step.

`DryRunPure` needs of a dry run that it never comes to a place that writes, that
is from `makeTemporaryDirectories` on, in the loop and in what `Teardown` does:
`ProcessInv` says so (`Writing`), because of the three tests, and that
`cleanWorkDir` is not set in one.

Two more invariants follow a process from its options to its end:
`CompleteInv` (the loop is past all it has run), for `CheckpointComplete`;
`ScratchInv` (what a process without `--resume` shows is the list
up to where it was asked to stop), which with `ShownInv` gives `StopsWhereAsked`.

### ImageBuildProofs

Assumption: `BoundsAssumption`. `Place` numbers the states of a classic image in
one order, and every list of `calculateStates` is `Ascending` in it: lists leave
states out and never swap any (`ClassicList`, from one lemma per helper). So no
state comes twice (`EachStateOnce`) and two states of a build come in the order
of their places (`SourcesListInPlace`). For the other two, `InItsPlace` says
what a state function may leave or remove given its place: only states before
`populate_rootfs_contents` make the copy out of date or bring secrets and
sources. `CopyInv` then holds: while there is a copy,
`populate_rootfs_contents` was performed, and secrets, sources of the build and
PPAs are only there until the state that removes them; that state is in the list
whenever it is needed, and before the copy. `Inv`, that what was performed is
the beginning of the list, holds because `Resume` computes the same list.

### ImageInputsProofs

What a state function reads depends on which states come before it, not only on
their order, so this module first says what a list holds: `Listed(d)` is the set
of states of `calculateStates(d)` (`ClassicListed`, one lemma per helper of
`calculateStates`). `Supplied(d, p, n)` says that one of the first `n` states
leaves `p` and none after it removes it. The inductive invariant is `InputsInv`:
what is supplied by the states performed is there, whatever was suspended,
except the name of a default qcow2 volume; and a build that is done has come to
the end of its list. Everything else is about lists: a state that is listed and
has a smaller `Place` comes earlier (`Sourced`), and what it leaves stays
(`Lasting`, since `ClassicDrops` says that no classic state removes anything but
secrets, sources and the copy), so that what it gives is supplied. There is one
lemma per group of state functions (`GadgetFound`, `RootfsFound`, `ImageFound`,
...); the snap list is fixed and gone through as it is (`SnapFound`). For
`RequestedIsBuilt`, `LastsToTheEnd` applies the same to the whole list.

The hypotheses are about definitions the code stops on, each a line of the list
in section 3 or a run of its own: `Buildable` is a definition with a
`customization`, a rootfs not from tasks, and a named volume for qcow2;
`InstallsKernel`, a kernel only in lists that have `install_packages`.

### AptSourcesProofs

Assumption: `DefinitionAssumption` (in `AptSources`): lists of records, PPAs
with distinct names. `PPAInv` has to survive a retry from any earlier state,
with only some of the PPAs there. Its heart is `Seen`: if packages were last
installed without some PPA, then `clean_extra_ppas` still has one ahead that it
cannot remove, and fails. `Enabled` and `Cleaned` say what the loops of
`add_extra_ppas` and `clean_extra_ppas` have done up to their item. `SourcesInv`
says that the legacy format leaves `ubuntu.sources` as it was (`OtherKept`), that
`customize_sources_list` has put the target's sources in the files up to its item,
and in all of them in the end (`ForTarget`), and that those of the build are
there until then, unless an older checkpoint starts without any (`ForBuild`).
`TargetCorrect` and `BuildCorrect` need their assumption: without release in the
security pocket the deb822 format gives fewer suites than the pocket includes.

### ChrootSessionProofs

For any mount points, nested in any way, any diversions and any number of faults.
`MountInv`: nothing is mounted when a session returns without an error, nor, in a
temporary directory, before and after any session unless an umount failed, both
but for what scripts mounted; the
lemma it rests on, `TeardownUnmounts`, says that a teardown without an error
unmounts all there is, also what an earlier process had left. `DivertInv`:
without faults of `dpkg-divert` and kills, a program is a fake exactly while its
undo is deferred, and moved away only between the two steps of (un)diverting.
`ResolvInv`: the image's own `resolv.conf` is in place, or it is the backup; in
a session of packages it is the backup. A dangling link is not seen as one, hence
the assumption of `ResolvConfCorrect`.

### GrubSessionProofs

For any mount points in the chroot, any number of faults and retries. `ScanInv`:
in what is left of `setup` an `update-grub` comes after a diversion, or
`os-prober` is diverted already. `HostInv`: layers are in the order of the
processes that mounted them, only the top one may belong to this process
(`Mine`), and `setup` while preparing is one of the forms that
`prepareGrubMountDir` leaves. `ReleaseInv`: for what this process has mounted
and attached, the commands to undo it wait in `teardown`, in an order in which
they are possible (`ReadyFor`, `Waits`), or an excused error will be returned.
`ProberInv` says the same of the diversion, and `ResolvInv` that `resolv.conf`
is in place or in the backup, with the faults the property excludes.

### PartitionTableProofs

Lemmas about operators, for any volume. `Starts` is a recursive function over the
structures. The library's induction theorems take an operator, so induction is
done on sets of naturals: a non-empty one has a least element (`Least`, from the
well-foundedness of `<`), hence `Induction` and, for functions, `Recursion`.
With these `Laid` characterises `Starts` by its equations, and `LaidMoves` says
what happens when one structure grows: up to it nothing moves, and those after it
move by as much as it grew, if they have no offset of their own (this is where
`structures_overlap` breaks). `CeilGrows`, `Sectors` and their neighbours are about
rounding to sectors, the lemmas on `Rank` show that numbering a finite set of
structures in their order is a bijection, so that the number of a structure is
the index of its partition. `TableNumbers` is the point where the order of two
lines in the code might hurt: the boot partition is recorded before it is
decided to skip it, but a rootfs in the table means that the image is not seeded,
and then nothing is skipped. `TableFits` and `EntryFits` put these together: for a
volume whose structures are in order, at sectors and after the table (`Tidy`), on a
disk that is large enough, the table is written without an error, and each entry
is where its structure is and ends before the second table.

### DiskImageProofs

For any gadgets, sizes, orders of volumes and content.

*Numbers.* `VolumesInv`: sizes change, the roles of structures do not.
`NumbersInv`: no rootfs volume is recorded, or the last table made had no rootfs
(then GRUB is not installed), or the numbers are right for the volume recorded
(`NumbersRight`), whatever the order of the volumes.

*Order.* The code sorts volumes by the first match of their names. Every volume
is in the sorted order once (`SortedExists`, by counting, and `Ordered`), and it
is the order of declaration (`OrderedAsDeclared`) under `NamedInOrder`: no name
comes before a colon above the declaration of an earlier volume.

*Layout.* `LayoutInv` follows a volume through the functions that correct it.
`Loaded`: it is the declared one, with a rootfs added if there was none. `Sized`:
its rootfs is raised to the rootfs size and nothing else differs. `Prepared`: the
image size is no smaller than the volume, and the content of each partition is
as large as the structure. `ImageMade`: the image has the table and the data of
this volume. The properties speak of the image alone and are not inductive: a
table is right because of the volume at the moment it was made, and the volume is
right because of what the functions before did to the declared one. `RaisedMoves`
says what raising does to offsets, `RaisedTidy` that the raised volume is still
`Tidy`, `DiskFits` that the disk is large enough for it; then `EntryFits` is
`FitCorrect`, and structures one after another give `DisjointCorrect`.
`DataCopied` compares where `copyDataToImage` seeks with where the table says the
partition is: the first rounds down, the second up, and they agree at sectors.

*Sizes.* `SizeCorrect` compares two ways to the size of a volume: the layout with
its rootfs raised, and `calculateNoRootfsSize`, which adds up the other structures
at their least sizes, without free space around the rootfs. `NoGaps` says that
they agree for the declared volume, `RaisedWhole` that raising keeps it so. Then
`Desired` says what `getRootfsDesiredSize` leaves to the rootfs, to the sector,
and `AskedSize` that this makes the volume as large as asked for without the
table, or leaves it at its least size.

*The hypotheses.* `WellLaid`: structures come one after another, partitions start
at sectors after the table, what follows the rootfs has no offset, there is one
rootfs. `WholeSectors`: sizes of partitions are whole sectors, without which
content may be longer than its GPT partition. `[]WithinTables`: no disk has more
sectors than its table can count (`MBRWord` for MBR, 2 TiB in the code); beyond,
the counts wrap around in the model as in the code and the promise does not hold.
It is a condition on the behaviour, since the size of a disk comes from content
and flags.

### What is only model-checked

`Terminates`: liveness is out of the prover's reach. All other properties of the
runs that pass have a theorem, some under the hypotheses in the table.

No module has a `RECURSIVE` operator, which the prover does not support;
recursion is by functions.

## 5. Plan

All components with logic of their own are modelled. What would add most next:

1. Gadgets with structures that end between sectors, with the rounding of `seek`
   stated as a condition; volumes past 2 TiB with a scaled `MBRWord`.
2. The files that `handleLkBootloader`, `handleUbootPart` and `handleSecureBoot`
   move between `unpack` and `root`, repeated by a resumed process.
3. A resumed process with another definition or other flags, which changes the
   list that `StepsTaken` counts in.
4. Weaker hypotheses than `WellLaid`: which gadgets with an offset after the
   rootfs are still built correctly, because the content fits what they declare.

Composition: `ImageBuild` abstracts failures, which `StateMachine` has;
`AptSources` and `ChrootSession` are the inside of the steps `install_packages`,
`add_extra_ppas`, `clean_extra_ppas`, `customize_sources_list`, `preseed_image`
and `perform_manual_customization` of `ImageBuild`, and take from `StateMachine`
that a resumed process starts at an earlier state of the same list. `DiskImage` is
the inside of `load_gadget_yaml`, `verify_artifact_names`, `calculate_rootfs_size`,
`populate_prepare_partitions`, `make_disk` and the choice in `setup_bootloader`;
`GrubSession` is what follows when that choice is `"grub"`.

## 6. Not modelled

YAML and JSON handling, defaults by reflection, URL checks, germinate's output,
snapd's image package, manifests and file lists, customizations' contents, the
command line's parsing and help: input and output without a state of their own
over a build. `build_rootfs_from_tasks` is a stub in the code. Test helpers and
packaging are not part of the program. Of the disk: labels and contents of file
systems, `mkfs`, and the disk ID, which `fixDiskIDOnMBR` changes before content
is copied. Of the boot loaders: the files that `handleLkBootloader`,
`handleUbootPart` and `handleSecureBoot` copy or rename, with the structure of
role `system-boot-state` that `populatePreparePartitions` looks at for them. Of
the disk functions, failures of the file system are left out: they end the build,
and no property is about what one that ended so leaves. Scripts of the manual
customization are taken not to touch `resolv.conf.tmp`, the backup.

## 7. Running it

    tlc -config StateMachine.cfg MCStateMachine
    tlc -config ImageBuild.cfg MCImageBuild
    tlc -config AptSources.cfg MCAptSources
    tlc -config ChrootSession.cfg MCChrootSession
    tlc -config DiskImage.cfg MCDiskImage
    tlc -config GrubSession.cfg MCGrubSession
    tlapm StateMachineProofs.tla
    tlapm ImageBuildProofs.tla
    tlapm ImageInputsProofs.tla
    tlapm AptSourcesProofs.tla
    tlapm ChrootSessionProofs.tla
    tlapm GrubSessionProofs.tla
    tlapm PartitionTableProofs.tla
    tlapm DiskImageProofs.tla
