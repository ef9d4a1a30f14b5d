----------------------------- MODULE GrubSession ------------------------------
(***************************************************************************)
(* setupGrub: the finished image is attached to a loop device, its rootfs  *)
(* and boot partitions are mounted, and GRUB is installed from a chroot in *)
(* it.  Commands to set up run first in, first out and stop at the first   *)
(* error; commands to tear down are stacked, run in any case, each         *)
(* whatever happened to the others.  resolv.conf is restored between the   *)
(* two.  A killed process leaves all it has set up, and the next one works *)
(* above that, on the same image or on one that make_disk made again.      *)
(***************************************************************************)
EXTENDS Integers, Sequences, FiniteSets, Functions

CONSTANTS
    MountPoints,    \* sequence of the mount points in the chroot, the last a bind
    Inside,         \* for each of them, those that are in it, itself included
    BootPartitions, \* whether the image has a boot partition: values considered
    Series,         \* "jammy" stands for it and older ones
    BIOS,           \* whether GRUB is installed for BIOS too: values considered
    Originals,      \* what /etc/resolv.conf of the image may be
    Faults,         \* kinds of failures considered
    MaxFaults       \* bound: failures

ASSUME GrubAssumptions ==
    /\ MountPoints \in Seq(Range(MountPoints)) /\ IsInjective(MountPoints)
    /\ Range(MountPoints) \cap {"image", "root", "boot"} = {}
    /\ Inside \in [Range(MountPoints) -> SUBSET Range(MountPoints)]
    /\ \A m \in Range(MountPoints) : m \in Inside[m]
    /\ BootPartitions \subseteq BOOLEAN /\ BIOS \subseteq BOOLEAN
    /\ Series \subseteq {"jammy", "newer", "unknown"}
    /\ Originals \subseteq {"file", "link"} /\ MaxFaults \in Nat

FaultKinds == {"losetup", "setup", "copy", "mkdir", "restore", "release", "undivert",
               "mounted", "kill"}
ASSUME FaultAssumption == Faults \subseteq FaultKinds

\* Commands; "mount" and "umount" have the mount point with them.
Cmd(name) == [cmd |-> name, at |-> "image"]
MountCmd(m) == [cmd |-> "mount", at |-> m]
UmountCmd(m) == [cmd |-> "umount", at |-> m]

Reversed(s) == [i \in DOMAIN s |-> s[Len(s) + 1 - i]]

(***************************************************************************)
(* The image: its resolv.conf and the backup of it, a "file", a "link"     *)
(* that dangles outside of the running system, the copy of the "host"'s,   *)
(* or "missing"; os-prober, in place or "diverted".                        *)
(***************************************************************************)
VARIABLES
    hasBoot, series, bios, original, \* inputs
    pc,        \* where setupGrub is
    setup,     \* commands still to run: prepareCmds, then setupGrubCmds
    teardown,  \* teardownCmds
    restore,   \* whether the restoring of resolv.conf is deferred
    err,       \* whether an error will be returned
    attached,  \* loop devices, by the process that attached them
    layers,    \* what is mounted on mountDir: rootfs mounts, the last on top
    resolv, backup, prober, \* the image
    scanned,   \* history: os-prober ran
    attempt,   \* number of this process
    faults     \* kinds of the failures so far, in order

inputs == <<hasBoot, series, bios, original>>
image == <<resolv, backup, prober>>
host == <<attached, layers>>
control == <<setup, teardown, restore>>
vars == <<inputs, pc, control, err, host, image, scanned, attempt, faults>>

Init ==
    /\ hasBoot \in BootPartitions /\ series \in Series /\ bios \in BIOS
    /\ original \in Originals
    /\ pc = "losetup" /\ setup = <<>> /\ teardown = <<>> /\ restore = FALSE
    /\ err = FALSE /\ attached = {} /\ layers = <<>>
    /\ resolv = original /\ backup = "missing" /\ prober = "real"
    /\ scanned = FALSE /\ attempt = 1 /\ faults = <<>>

Fault(kind) ==
    /\ kind \in Faults /\ Len(faults) < MaxFaults
    /\ faults' = Append(faults, kind)

\* A layer is a mount of the rootfs partition of a loop device, with what is
\* mounted in it.
Layer == [device |-> attempt, boot |-> FALSE, inner |-> {}, other |-> FALSE]
Top == layers[Len(layers)]
OnTop(layer) == [layers EXCEPT ![Len(layers)] = layer]
Empty(layer) == ~layer.boot /\ layer.inner = {} /\ ~layer.other

-----------------------------------------------------------------------------
\* associateLoopDevice.  Without it, as when the architecture has no GRUB target,
\* there is nothing to tear down.
AssociateLoopDevice ==
    /\ pc = "losetup"
    /\ \/ /\ attached' = attached \cup {attempt}
          /\ teardown' = <<Cmd("detach")>>
          /\ pc' = "prepare"
          /\ UNCHANGED <<err, faults>>
       \/ /\ Fault("losetup")
          /\ pc' = "teardown" /\ err' = TRUE
          /\ UNCHANGED <<attached, teardown>>
    /\ UNCHANGED <<inputs, setup, restore, layers, image, scanned, attempt>>

\* prepareGrubMountDir returns its teardown commands in any case.
prepareTeardown == IF hasBoot THEN <<UmountCmd("boot"), UmountCmd("root")>>
                   ELSE <<UmountCmd("root")>>
Prepare ==
    /\ pc = "prepare"
    /\ setup' = IF hasBoot THEN <<Cmd("settle"), MountCmd("root"), MountCmd("boot")>>
                ELSE <<Cmd("settle"), MountCmd("root")>>
    /\ teardown' = prepareTeardown \o teardown
    /\ pc' = "preparing"
    /\ UNCHANGED <<inputs, restore, err, host, image, scanned, attempt, faults>>

(***************************************************************************)
(* One command of RunCmds, in either list.  update-grub runs os-prober     *)
(* unless it is diverted.  Commands of packages may leave something else   *)
(* mounted in the image.                                                   *)
(***************************************************************************)
Inner == Range(MountPoints)

runs(c) ==
    /\ layers' = CASE c.cmd = "mount" /\ c.at = "root" -> Append(layers, Layer)
                   [] c.cmd = "mount" /\ c.at = "boot" -> OnTop([Top EXCEPT !.boot = TRUE])
                   [] c.cmd = "mount" /\ c.at \in Inner ->
                        OnTop([Top EXCEPT !.inner = @ \cup {c.at}])
                   [] OTHER -> layers
    /\ prober' = IF c.cmd = "divert" THEN "diverted" ELSE prober
    /\ scanned' = (scanned \/ (c.cmd = "update-grub" /\ prober = "real"))

\* The restoring is deferred only when the backup has been made.
restoreAnyway == "restore"
restoreForgotten == "teardown"
afterError == IF restore THEN "restore" ELSE "teardown"

RunCmd ==
    /\ pc \in {"preparing", "running"} /\ setup # <<>>
    /\ \/ /\ runs(Head(setup))
          /\ setup' = Tail(setup)
          /\ UNCHANGED <<pc, err, faults>>
       \/ /\ Head(setup).cmd \in {"udev", "grub-install", "update-grub"}
          /\ Fault("mounted")
          /\ layers' = OnTop([Top EXCEPT !.other = TRUE])
          /\ UNCHANGED prober
          /\ scanned' = (scanned \/ (Head(setup).cmd = "update-grub" /\ prober = "real"))
          /\ setup' = Tail(setup)
          /\ UNCHANGED <<pc, err>>
       \/ /\ Fault("setup")
          /\ pc' = afterError
          /\ err' = TRUE
          /\ UNCHANGED <<setup, layers, prober, scanned>>
    /\ UNCHANGED <<inputs, teardown, restore, attached, resolv, backup, attempt>>

(***************************************************************************)
(* BackupAndCopyResolvConf moves resolv.conf, then copies the host's.  A   *)
(* link is not seen as a backup.                                           *)
(***************************************************************************)
Backup ==
    /\ pc = "preparing" /\ setup = <<>>
    /\ \/ /\ backup \in {"file", "host"}
          /\ pc' = "prepared" /\ restore' = TRUE
          /\ UNCHANGED <<err, faults, resolv, backup>>
       \/ /\ backup \notin {"file", "host"} /\ resolv # "missing"
          /\ backup' = resolv
          /\ \/ /\ resolv' = "host" /\ pc' = "prepared" /\ restore' = TRUE
                /\ UNCHANGED <<err, faults>>
             \/ /\ Fault("copy")
                /\ resolv' = "missing" /\ pc' = "teardown" /\ err' = TRUE
                /\ UNCHANGED restore
       \/ /\ backup \notin {"file", "host"} /\ resolv = "missing"
          /\ pc' = "teardown" /\ err' = TRUE
          /\ UNCHANGED <<restore, faults, resolv, backup>>
    /\ UNCHANGED <<inputs, setup, teardown, host, prober, scanned, attempt>>

(***************************************************************************)
(* The rest of setupGrub fills both lists.  A temporary directory for the  *)
(* bind mount is made first, and the series looked up after.               *)
(***************************************************************************)
grubCmdsDivertLast ==
    <<Cmd("grub-install")>> \o (IF bios THEN <<Cmd("grub-install")>> ELSE <<>>)
      \o <<Cmd("update-grub"), Cmd("divert")>>

grubCmds ==
    <<Cmd("grub-install")>> \o (IF bios THEN <<Cmd("grub-install")>> ELSE <<>>)
      \o <<Cmd("divert"), Cmd("update-grub")>>

\* New teardown commands are put before those there are.
stackAtEnd(new, old) == old \o new
stack(new, old) == new \o old

mountCmds == [i \in DOMAIN MountPoints |-> MountCmd(MountPoints[i])]
umountCmds == <<Cmd("settle")>> \o Reversed([i \in DOMAIN MountPoints |-> UmountCmd(MountPoints[i])])

ListCommands ==
    /\ pc = "prepared"
    /\ \/ /\ Fault("mkdir")
          /\ pc' = "restore" /\ err' = TRUE
          /\ UNCHANGED <<setup, teardown>>
       \/ /\ series = "unknown"
          /\ teardown' = stack(umountCmds, teardown)
          /\ pc' = "restore" /\ err' = TRUE
          /\ UNCHANGED <<setup, faults>>
       \/ /\ series # "unknown"
          /\ setup' = mountCmds \o (IF series = "jammy" THEN <<Cmd("udev")>> ELSE <<>>) \o grubCmds
          /\ teardown' = <<Cmd("undivert")>> \o stack(umountCmds, teardown)
          /\ pc' = "running"
          /\ UNCHANGED <<err, faults>>
    /\ UNCHANGED <<inputs, restore, host, image, scanned, attempt>>

Finished ==
    /\ pc = "running" /\ setup = <<>>
    /\ pc' = "restore"
    /\ UNCHANGED <<inputs, control, err, host, image, scanned, attempt, faults>>

-----------------------------------------------------------------------------
\* Deferred functions run in the opposite order: this one first.
RestoreResolvConf ==
    /\ pc = "restore"
    /\ \/ /\ backup = "missing"
          /\ UNCHANGED <<resolv, backup, err, faults>>
       \/ /\ backup # "missing"
          /\ backup' = "missing"
          /\ resolv' = IF resolv = "link" THEN resolv ELSE backup
          /\ UNCHANGED <<err, faults>>
       \/ /\ Fault("restore") /\ err' = TRUE
          /\ UNCHANGED <<resolv, backup>>
    /\ restore' = FALSE /\ pc' = "teardown"
    /\ UNCHANGED <<inputs, setup, teardown, host, prober, scanned, attempt>>

(***************************************************************************)
(* execTeardownCmds.  What is not mounted cannot be unmounted, what has    *)
(* something mounted in it is busy, but for the mount points in the        *)
(* chroot, which are unmounted with what is in them; a busy device is      *)
(* detached later.                                                         *)
(***************************************************************************)
possible(c) ==
    CASE c.cmd = "umount" /\ c.at = "root"   -> layers # <<>> /\ Empty(Top)
      [] c.cmd = "umount" /\ c.at = "boot"   -> layers # <<>> /\ Top.boot
      [] c.cmd = "umount" /\ c.at \in Inner  -> layers # <<>> /\ c.at \in Top.inner
      [] c.cmd = "undivert" -> layers # <<>>
      [] OTHER -> TRUE

undoes(c) ==
    /\ layers' = CASE c.cmd = "umount" /\ c.at = "root" ->
                        SubSeq(layers, 1, Len(layers) - 1)
                   [] c.cmd = "umount" /\ c.at = "boot" -> OnTop([Top EXCEPT !.boot = FALSE])
                   [] c.cmd = "umount" /\ c.at \in Inner ->
                        OnTop([Top EXCEPT !.inner = @ \ Inside[c.at]])
                   [] OTHER -> layers
    /\ attached' = IF c.cmd = "detach" THEN attached \ {attempt} ELSE attached
    /\ prober' = IF c.cmd = "undivert" THEN "real" ELSE prober

TeardownCmd ==
    /\ pc = "teardown" /\ teardown # <<>>
    /\ LET c == Head(teardown) IN
       \/ possible(c) /\ undoes(c) /\ UNCHANGED <<err, faults>>
       \/ ~possible(c) /\ err' = TRUE /\ UNCHANGED <<host, prober, faults>>
       \/ /\ c.cmd # "settle"
          /\ Fault(IF c.cmd = "undivert" THEN "undivert" ELSE "release")
          /\ err' = TRUE /\ UNCHANGED <<host, prober>>
    /\ teardown' = Tail(teardown)
    /\ UNCHANGED <<inputs, pc, setup, restore, resolv, backup, scanned, attempt>>

Return ==
    /\ pc = "teardown" /\ teardown = <<>>
    /\ pc' = IF err THEN "failed" ELSE "done"
    /\ setup' = <<>>
    /\ UNCHANGED <<inputs, teardown, restore, err, host, image, scanned, attempt, faults>>

-----------------------------------------------------------------------------
Kill ==
    /\ pc \notin {"done", "failed", "killed"}
    /\ Fault("kill")
    /\ pc' = "killed" /\ setup' = <<>> /\ teardown' = <<>> /\ restore' = FALSE
    /\ UNCHANGED <<inputs, err, host, image, scanned, attempt>>

\* Another process comes to setup_bootloader; when its checkpoint is older,
\* make_disk has removed the image and made it again.
Retry ==
    /\ pc \in {"failed", "killed"} /\ attempt <= MaxFaults
    /\ attempt' = attempt + 1 /\ pc' = "losetup" /\ err' = FALSE
    /\ \/ UNCHANGED image
       \/ resolv' = original /\ backup' = "missing" /\ prober' = "real"
    /\ UNCHANGED <<inputs, control, host, scanned, faults>>

Next ==
    \/ AssociateLoopDevice \/ Prepare \/ RunCmd \/ Backup \/ ListCommands \/ Finished
    \/ RestoreResolvConf \/ TeardownCmd \/ Return \/ Kill \/ Retry

Spec == Init /\ [][Next]_vars

-----------------------------------------------------------------------------
\* Types; commands to tear down are pending only in a session, and loop devices
\* are attached by processes there have been; resolv.conf is to be restored from
\* the time it has been backed up.
Commands == [cmd : {"settle", "mount", "umount", "detach", "divert", "undivert", "udev",
                    "grub-install", "update-grub"},
             at : Inner \cup {"image", "root", "boot"}]
Layers == [device : 1..MaxFaults + 1, boot : BOOLEAN, inner : SUBSET Inner, other : BOOLEAN]

TypeOK ==
    /\ pc \in {"losetup", "prepare", "preparing", "prepared", "running", "restore",
              "teardown", "done", "failed", "killed"}
    /\ setup \in Seq(Commands) /\ teardown \in Seq(Commands)
    /\ teardown # <<>> => pc \notin {"losetup", "done", "failed", "killed"}
    /\ {restore, err, scanned} \subseteq BOOLEAN
    /\ pc \in {"prepared", "running", "restore"} <=> restore
    /\ attempt \in 1..MaxFaults + 1 /\ attached \subseteq 1..attempt
    /\ layers \in Seq(Layers)
    /\ resolv \in {"file", "link", "host", "missing"}
    /\ backup \in {"file", "link", "host", "missing"}
    /\ prober \in {"real", "diverted"}
    /\ faults \in Seq(Faults) /\ Len(faults) <= MaxFaults

\* A setup_bootloader that succeeds has detached its loop device and unmounted
\* all that it mounted, whatever earlier processes had left there; one that
\* fails too (debian/changelog: "Make sure we unmount/detach everything if the
\* update_bootloader state is failing"), unless what fails is to unmount or
\* detach, or a command left something mounted that is not on its list.
Released ==
    \/ pc \notin {"done", "failed"}
    \/ pc = "failed" /\ Range(faults) \cap {"release", "mounted", "kill"} # {}
    \/ attempt \notin attached /\ \A layer \in Range(layers) : layer.device # attempt

\* After setup_bootloader the image has its own resolv.conf, without a backup,
\* and os-prober in place: after a success whatever happened before, but for a
\* link that a process which stopped half-way lost; after a failure unless the
\* restoring is what failed.
ImageRestored ==
    LET lost == Range(faults) \cap {"copy", "restore", "kill"} # {}
        divertedByFault == Range(faults) \cap {"undivert", "kill"} # {}
    IN  /\ \/ pc = "done" /\ ~(original = "link" /\ lost)
           \/ pc = "failed" /\ ~lost
           => resolv = original /\ backup = "missing"
        /\ \/ pc = "done"
           \/ pc = "failed" /\ ~divertedByFault
           => prober = "real"

\* update-grub never runs os-prober, which would list the systems of the host in
\* the menu of the image.
HostNotScanned == ~scanned

=============================================================================
