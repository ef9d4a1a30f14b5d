--------------------------- MODULE ChrootSession ----------------------------
(***************************************************************************)
(* What the state functions that run commands in the chroot set up around  *)
(* them and take down afterwards: the host's resolv.conf in the place of   *)
(* the chroot's, mounts, and fakes in the place of the programs that start *)
(* daemons.  The set-up stops at the first error; the deferred functions   *)
(* undo it, and each teardown command runs whatever happened to the        *)
(* others.  resolv.conf alone is put back later, when the rootfs is copied *)
(* to the image.  A process may be killed at any point; the state function *)
(* is then performed again by a process that resumes the build.            *)
(***************************************************************************)
EXTENDS Integers, Sequences, FiniteSets, Functions

CONSTANTS
    Builds,         \* sequences of jobs considered: the states, in order
    PackagesMounts, \* mount points of runCmdsWithChrootSetup, in order
    PreseedMounts,  \* mount points of preseedClassicImage, in order
    OtherMounts,    \* mount points that commands may add
    Diversions,     \* sequence of the programs replaced by fakes
    Originals,      \* what /etc/resolv.conf may be at first
    Faults,         \* kinds of failures considered
    MaxFaults       \* bound: failures

FaultKinds == {"copy", "mount", "divert", "command", "undivert", "umount", "kill"}

\* Kinds of jobs: "packages" is runCmdsWithChrootSetup (upgrade_packages and
\* install_packages), "preseed" preseedClassicImage, "manual"
\* manualCustomization.
Jobs == {"packages", "preseed", "manual"}

MountPoints == Range(PackagesMounts) \cup Range(PreseedMounts) \cup OtherMounts

ASSUME Assumptions ==
    /\ Builds \subseteq Seq(Jobs)
    /\ PackagesMounts \in Seq(MountPoints) /\ PreseedMounts \in Seq(MountPoints)
    /\ Diversions \in Seq(Range(Diversions)) /\ IsInjective(Diversions)
    /\ Originals \subseteq {"file", "dangling", "missing"}
    /\ Faults \subseteq FaultKinds /\ MaxFaults \in Nat

(***************************************************************************)
(* resolv.conf: a regular "file", a symlink of the rootfs tarball that     *)
(* dangles in the chroot ("dangling") or one put there by a package        *)
(* ("link", which dangles too), the copy of the "host"'s, what a script of *)
(* the definition wrote in its place ("custom"), or "missing".             *)
(***************************************************************************)
Links == {"dangling", "link"}

\* osutil.FileExists follows symlinks.
FileExists(f) == f \notin Links \cup {"missing"}

VARIABLES
    build,      \* the jobs of this build
    job,        \* index of the current job; populate_rootfs_contents is the last
    pc,         \* where the state function is
    next,       \* next mount or diversion
    deferred,   \* diversions whose undivert function is deferred
    err,        \* whether an error will be returned
    mounted,    \* number of mounts on each mount point of the chroot
    scripted,   \* history: mount points used by scripts, not unmounted since
    program,    \* diverted programs: "absent", "real", "fake" or "moved" away
    resolv,     \* /etc/resolv.conf
    backup,     \* /etc/resolv.conf.tmp
    workDir,    \* whether the work directory is there
    temporary,  \* cleanWorkDir: the work directory was not given
    faults      \* kinds of the failures so far, in order

vars == <<build, job, pc, next, deferred, err, mounted, scripted, program, resolv,
          backup, workDir, temporary, faults>>

chroot == <<mounted, scripted, program, resolv, backup>>
unchangedBuild == UNCHANGED <<build, job, workDir, temporary>>

Kind == IF job <= Len(build) THEN build[job] ELSE "populate"

mountPoints == CASE Kind = "packages" -> PackagesMounts
                 [] Kind = "preseed"  -> PreseedMounts
                 [] OTHER -> <<>>

Unmounted == [m \in MountPoints |-> 0]
MountedPoints == {m \in MountPoints : mounted[m] > 0}

Init ==
    /\ build \in Builds /\ job = 1 /\ pc = "start" /\ next = 1
    /\ deferred = {} /\ err = FALSE
    /\ mounted = Unmounted /\ scripted = {}
    /\ program \in [Range(Diversions) -> {"absent", "real"}]
    /\ resolv \in Originals /\ backup = "missing"
    /\ workDir = TRUE /\ temporary \in BOOLEAN
    /\ faults = <<>>

Fault(kind) ==
    /\ kind \in Faults /\ Len(faults) < MaxFaults
    /\ faults' = Append(faults, kind)

-----------------------------------------------------------------------------
(***************************************************************************)
(* BackupAndCopyResolvConf.  A failure here returns before anything is     *)
(* deferred.                                                               *)
(***************************************************************************)
NextPc == IF Kind = "manual" THEN "commands" ELSE "mount"

backupAgain == resolv # "missing" /\ backup' = resolv /\ resolv' = "host"
backupOnce ==
    IF FileExists(backup) THEN UNCHANGED <<backup, resolv>>
    ELSE resolv # "missing" /\ backup' = resolv /\ resolv' = "host"

Backup ==
    /\ pc = "start" /\ Kind \in {"packages", "manual"} /\ workDir
    /\ \/ backupOnce /\ pc' = NextPc /\ UNCHANGED <<err, faults>>
       \/ /\ ~FileExists(backup) /\ resolv = "missing"
          /\ pc' = "return" /\ err' = TRUE
          /\ UNCHANGED <<backup, resolv, faults>>
       \/ /\ ~FileExists(backup) /\ resolv # "missing"
          /\ Fault("copy")
          /\ backup' = resolv /\ resolv' = "missing"
          /\ pc' = "return" /\ err' = TRUE
    /\ next' = 1
    /\ UNCHANGED <<deferred, mounted, scripted, program>> /\ unchangedBuild

\* preseedClassicImage does not touch resolv.conf.
Enter ==
    /\ pc = "start" /\ Kind = "preseed" /\ workDir
    /\ pc' = "mount" /\ next' = 1
    /\ UNCHANGED <<deferred, err, faults, chroot>> /\ unchangedBuild

\* Every error from here on is followed by the teardown.
teardownSkipped == "return"
afterMountError == "teardown"

\* RunCmds on the mount commands: it stops at the first that fails.
Mount ==
    /\ pc = "mount" /\ next <= Len(mountPoints)
    /\ \/ /\ mounted' = [mounted EXCEPT ![mountPoints[next]] = @ + 1]
          /\ next' = next + 1
          /\ UNCHANGED <<pc, err, faults>>
       \/ /\ Fault("mount")
          /\ pc' = afterMountError /\ err' = TRUE
          /\ UNCHANGED <<mounted, next>>
    /\ UNCHANGED <<deferred, scripted, program, resolv, backup>> /\ unchangedBuild

Mounted ==
    /\ pc = "mount" /\ next > Len(mountPoints)
    /\ pc' = IF Kind = "packages" THEN "divert" ELSE "commands"
    /\ next' = 1
    /\ UNCHANGED <<deferred, err, faults, chroot>> /\ unchangedBuild

\* dpkg-divert renames the program, when there is one; renaming what is
\* already diverted does nothing.
Divert ==
    /\ pc = "divert" /\ next <= Len(Diversions)
    /\ LET p == Diversions[next] IN
       \/ /\ program[p] \in {"absent", "moved"}
          /\ next' = next + 1
          /\ UNCHANGED <<pc, program, err, faults>>
       \/ /\ program[p] \in {"real", "fake"}
          /\ program' = [program EXCEPT ![p] = IF @ = "real" THEN "moved" ELSE @]
          /\ pc' = "fake"
          /\ UNCHANGED <<next, err, faults>>
       \/ /\ program[p] \in {"real", "fake"}
          /\ Fault("divert")
          /\ pc' = "undivert" /\ err' = TRUE
          /\ UNCHANGED <<next, program>>
    /\ UNCHANGED <<deferred, mounted, scripted, resolv, backup>> /\ unchangedBuild

\* The fake is written; only then is the undivert function deferred.
WriteFake ==
    /\ pc = "fake"
    /\ \/ /\ program' = [program EXCEPT ![Diversions[next]] = "fake"]
          /\ deferred' = deferred \cup {next}
          /\ pc' = "divert" /\ next' = next + 1
          /\ UNCHANGED <<err, faults>>
       \/ /\ Fault("divert")
          /\ pc' = "undivert" /\ err' = TRUE
          /\ UNCHANGED <<program, deferred, next>>
    /\ UNCHANGED <<mounted, scripted, resolv, backup>> /\ unchangedBuild

Diverted ==
    /\ pc = "divert" /\ next > Len(Diversions)
    /\ pc' = "commands"
    /\ UNCHANGED <<next, deferred, err, faults, chroot>> /\ unchangedBuild

undivertForgotten == IF Kind = "manual" THEN "return" ELSE "teardown"
afterCommands == CASE Kind = "packages" -> "undivert"
                   [] Kind = "preseed"  -> "teardown"
                   [] Kind = "manual"   -> "return"

(***************************************************************************)
(* The commands of the state.  Packages may turn resolv.conf into a link,  *)
(* mount something in the chroot, and install a program; dpkg puts the     *)
(* program where it was diverted to.  Manual customization runs scripts of *)
(* the definition and copies files of its own: they may do all that, write *)
(* resolv.conf and remove programs, and nothing takes down what they       *)
(* mount.  They are taken to leave resolv.conf.tmp alone.                  *)
(***************************************************************************)
resolvLeft == CASE Kind = "packages" -> {resolv, "link"}
                [] Kind = "manual"   -> {resolv, "link", "custom", "missing"}
                [] OTHER -> {resolv}

Commands ==
    /\ pc = "commands"
    /\ \/ UNCHANGED <<err, faults>>
       \/ Fault("command") /\ err' = TRUE
    /\ resolv' \in resolvLeft
    /\ program' \in [Range(Diversions) -> {"absent", "real", "fake", "moved"}]
    /\ \A p \in Range(Diversions) :
         \/ program'[p] = program[p]
         \/ Kind # "preseed" /\ program[p] = "absent" /\ program'[p] = "real"
         \/ Kind = "manual" /\ program[p] = "real" /\ program'[p] = "absent"
    /\ \E new \in SUBSET OtherMounts :
         /\ mounted' = [m \in MountPoints |-> mounted[m] + IF m \in new THEN 1 ELSE 0]
         /\ scripted' = scripted \cup IF Kind = "manual" THEN new ELSE {}
    /\ pc' = afterCommands
    /\ UNCHANGED <<next, deferred, backup>> /\ unchangedBuild

\* Deferred functions run last in, first out: remove the fake and, if that
\* works, have dpkg-divert put the program back.
LastDeferred(i) == i \in deferred /\ \A j \in deferred : j <= i

RemoveFake ==
    /\ pc = "undivert"
    /\ \E i \in deferred :
         /\ LastDeferred(i)
         /\ next' = i /\ deferred' = deferred \ {i}
         /\ \/ /\ program' = [program EXCEPT ![Diversions[i]] = "moved"]
               /\ pc' = "undiverting"
               /\ UNCHANGED <<err, faults>>
            \/ /\ Fault("undivert")
               /\ err' = TRUE
               /\ UNCHANGED <<pc, program>>
    /\ UNCHANGED <<mounted, scripted, resolv, backup>> /\ unchangedBuild

Undivert ==
    /\ pc = "undiverting"
    /\ \/ /\ program' = [program EXCEPT ![Diversions[next]] = "real"]
          /\ UNCHANGED <<err, faults>>
       \/ Fault("undivert") /\ err' = TRUE /\ UNCHANGED program
    /\ pc' = "undivert"
    /\ UNCHANGED <<next, deferred, mounted, scripted, resolv, backup>> /\ unchangedBuild

(***************************************************************************)
(* teardownMount: one umount of each declared mount point, and one for     *)
(* each mount found in the chroot that the declared ones do not account    *)
(* for.  Unmounting what is not mounted fails; so may any umount.          *)
(***************************************************************************)
declaredOnly(m) == IF m \in Range(mountPoints) /\ mounted[m] > 0 THEN 1 ELSE 0
umounts(m) == mounted[m]

Teardown ==
    /\ \/ pc = "undivert" /\ deferred = {}
       \/ pc = "teardown"
    /\ \/ /\ mounted' = [m \in MountPoints |-> mounted[m] - umounts(m)]
          /\ err' = (err \/ \E m \in Range(mountPoints) : mounted[m] = 0)
          /\ UNCHANGED faults
       \/ /\ Fault("umount")
          /\ \E busy \in {m \in MountPoints : mounted[m] > 0} :
               mounted' = [m \in MountPoints |->
                             IF m = busy THEN mounted[m] ELSE mounted[m] - umounts(m)]
          /\ err' = TRUE
    /\ scripted' = {m \in scripted : mounted'[m] > 0}
    /\ pc' = "return"
    /\ UNCHANGED <<next, deferred, program, resolv, backup>> /\ unchangedBuild

-----------------------------------------------------------------------------
\* The state function returns.  After an error Run cleans up: a temporary work
\* directory is removed, with all that it contains.
Return ==
    /\ pc = "return"
    /\ IF err
       THEN /\ pc' = "failed"
            /\ workDir' = ~temporary
            /\ UNCHANGED job
       ELSE /\ pc' = "start"
            /\ job' = job + 1
            /\ UNCHANGED workDir
    /\ UNCHANGED <<build, next, deferred, err, temporary, faults, chroot>>

\* RestoreResolvConf, then the copy of the chroot to the image.
RestoreResolvConf ==
    IF ~FileExists(backup) /\ backup \notin Links
    THEN UNCHANGED <<resolv, backup>>
    ELSE /\ backup' = "missing"
         /\ resolv' = IF resolv \in Links THEN resolv ELSE backup

Populate ==
    /\ pc = "start" /\ Kind = "populate" /\ workDir
    /\ RestoreResolvConf
    /\ pc' = "done"
    /\ UNCHANGED <<next, deferred, err, mounted, scripted, program, faults>> /\ unchangedBuild

Kill ==
    /\ pc \notin {"done", "failed", "killed"}
    /\ Fault("kill")
    /\ pc' = "killed"
    /\ UNCHANGED <<next, deferred, err, chroot>> /\ unchangedBuild

\* Another process resumes the build at the state that did not succeed.
Resume ==
    /\ pc \in {"failed", "killed"} /\ workDir /\ ~temporary
    /\ pc' = "start" /\ next' = 1 /\ deferred' = {} /\ err' = FALSE
    /\ UNCHANGED <<faults, chroot>> /\ unchangedBuild

Next ==
    \/ Backup \/ Enter \/ Mount \/ Mounted \/ Divert \/ WriteFake \/ Diverted
    \/ Commands \/ RemoveFake \/ Undivert \/ Teardown \/ Return \/ Populate
    \/ Kill \/ Resume

Spec == Init /\ [][Next]_vars

-----------------------------------------------------------------------------
\* Types; undivert functions are pending only while they can still be called.
TypeOK ==
    /\ build \in Builds /\ job \in 1..Len(build) + 1
    /\ pc \in {"start", "mount", "divert", "fake", "commands", "undivert", "undiverting",
              "teardown", "return", "failed", "killed", "done"}
    /\ deferred \subseteq DOMAIN Diversions
    /\ deferred # {} =>
         pc \in {"divert", "fake", "commands", "undivert", "undiverting", "killed"}
    /\ mounted \in [MountPoints -> Nat] /\ scripted \subseteq OtherMounts
    /\ program \in [Range(Diversions) -> {"absent", "real", "fake", "moved"}]
    /\ {resolv, backup} \subseteq Links \cup {"file", "host", "custom", "missing"}
    /\ {err, workDir, temporary} \subseteq BOOLEAN
    /\ faults \in Seq(Faults) /\ Len(faults) <= MaxFaults

\* A state function that returns without error leaves nothing mounted in the
\* chroot: not what it mounted, not what its commands mounted, and not what a
\* killed process or an earlier script left there.  Manual customization takes
\* down nothing: it leaves what its scripts mounted, and nothing else.
SuccessLeavesNoMount ==
    [][ job' # job =>
          IF Kind = "manual" THEN MountedPoints' \subseteq scripted'
          ELSE MountedPoints' = {} ]_vars

\* A state function that returns without error leaves the programs of the
\* chroot as they were, no fake and none moved away, whatever failed before it
\* in this or in an earlier process, as long as dpkg-divert itself and the
\* writing and removing of fakes work and no process was killed.
SuccessLeavesNoFake ==
    [][ /\ job' # job
        /\ Range(faults) \cap {"divert", "undivert", "kill"} = {}
        => \A p \in Range(Diversions) : program'[p] \in {"absent", "real"} ]_vars

\* The resolv.conf of the image is the one of the rootfs, or the link that a
\* package or a script made of it; it is never the host's, nor a file that a
\* script wrote, since the backup replaces it.
ImageHasItsResolvConf ==
    pc = "done" => resolv \in Originals \cup {"link"} /\ backup = "missing"

\* A temporary work directory is removed after an error only when nothing, such
\* as the device files of the host, is still mounted in it but what scripts of
\* the definition mounted, unless an umount failed.
RemovedWhenUnmounted ==
    [][ workDir /\ ~workDir' /\ "umount" \notin Range(faults)
        => MountedPoints \subseteq scripted ]_vars

=============================================================================
