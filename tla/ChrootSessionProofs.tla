------------------------- MODULE ChrootSessionProofs -------------------------
(***************************************************************************)
(* Proofs about ChrootSession, for any states to perform, mount points and *)
(* diverted programs, any combination of failures and kills and any number *)
(* of processes.                                                           *)
(***************************************************************************)
EXTENDS ChrootSession, TLAPS

LEMMA DiversionTypes ==
    /\ Len(Diversions) \in Nat /\ DOMAIN Diversions = 1..Len(Diversions)
    /\ \A i \in DOMAIN Diversions : Diversions[i] \in Range(Diversions)
    /\ \A i, j \in DOMAIN Diversions : Diversions[i] = Diversions[j] => i = j
    /\ \A p \in Range(Diversions) : \E i \in DOMAIN Diversions : Diversions[i] = p
<1>1. Diversions \in Seq(Range(Diversions)) /\ IsInjective(Diversions)
  BY Assumptions
<1>2. Len(Diversions) \in Nat /\ DOMAIN Diversions = 1..Len(Diversions)
  BY <1>1
<1>3. QED
  BY <1>1, <1>2 DEF Range, IsInjective

LEMMA MountPointTypes ==
    /\ Len(mountPoints) \in Nat /\ DOMAIN mountPoints = 1..Len(mountPoints)
    /\ \A i \in 1..Len(mountPoints) : mountPoints[i] \in MountPoints
    /\ Range(mountPoints) \subseteq MountPoints
<1>1. mountPoints \in Seq(MountPoints)
  BY Assumptions DEF mountPoints
<1>2. QED
  BY <1>1 DEF Range

-----------------------------------------------------------------------------
(***************************************************************************)
(* Types, in groups, with where a state function of each kind can be and   *)
(* the diversion it is at.                                                 *)
(***************************************************************************)
StepInv ==
    /\ next \in Nat \ {0}
    /\ pc \in {"mount", "teardown"} => Kind \in {"packages", "preseed"}
    /\ pc \in {"divert", "fake", "undivert", "undiverting"} => Kind = "packages"
    /\ pc \in {"commands", "return"} => Kind \in Jobs
    /\ pc = "commands" /\ deferred # {} => Kind = "packages"
    /\ pc \in {"fake", "undiverting"} => next \in DOMAIN Diversions

Control ==
    /\ build \in Builds /\ job \in 1..Len(build) + 1
    /\ pc \in {"start", "mount", "divert", "fake", "commands", "undivert", "undiverting",
              "teardown", "return", "failed", "killed", "done"}
    /\ deferred \subseteq DOMAIN Diversions
    /\ deferred # {} =>
         pc \in {"divert", "fake", "commands", "undivert", "undiverting", "killed"}
    /\ StepInv

ChrootTypes ==
    /\ mounted \in [MountPoints -> Nat] /\ scripted \subseteq OtherMounts
    /\ program \in [Range(Diversions) -> {"absent", "real", "fake", "moved"}]
    /\ resolv \in Links \cup {"file", "host", "custom", "missing"}
    /\ backup \in Links \cup {"file", "host", "custom", "missing"}

Flags == err \in BOOLEAN /\ workDir \in BOOLEAN /\ temporary \in BOOLEAN
FaultsOK == faults \in Seq(Faults) /\ Len(faults) <= MaxFaults

Types == Control /\ ChrootTypes /\ Flags /\ FaultsOK

LEMMA TypesAreTypeOK == Types => TypeOK
  BY DEF Types, Control, ChrootTypes, Flags, FaultsOK, TypeOK

LEMMA FaultStep ==
    ASSUME FaultsOK, NEW k, Fault(k)
    PROVE  FaultsOK' /\ k \in Range(faults') /\ Range(faults) \subseteq Range(faults')
<1>1. k \in Faults /\ Len(faults) < MaxFaults /\ faults' = Append(faults, k)
  BY DEF Fault
<1>2. Len(faults) \in Nat /\ MaxFaults \in Nat /\ faults \in Seq(Faults)
  BY Assumptions DEF FaultsOK
<1>3. /\ faults' \in Seq(Faults) /\ Len(faults') = Len(faults) + 1
      /\ DOMAIN faults = 1..Len(faults) /\ DOMAIN faults' = 1..(Len(faults) + 1)
      /\ faults'[Len(faults) + 1] = k
      /\ \A i \in 1..Len(faults) : faults'[i] = faults[i]
  BY <1>1, <1>2
<1>4. QED
  BY <1>1, <1>2, <1>3 DEF Range, FaultsOK

LEMMA AppendedInRange ==
    ASSUME FaultsOK, NEW k, faults' = Append(faults, k) PROVE k \in Range(faults')
<1>1. faults \in Seq(Faults)
  BY DEF FaultsOK
<1>2. /\ DOMAIN faults' = 1..(Len(faults) + 1) /\ Len(faults) \in Nat
      /\ faults'[Len(faults) + 1] = k
  BY <1>1
<1>3. QED
  BY <1>2 DEF Range

LEMMA KindTypes ==
    ASSUME Control
    PROVE  /\ Kind \in Jobs \cup {"populate"}
           /\ (Kind \in Jobs) <=> (job <= Len(build))
           /\ job \in Nat /\ Len(build) \in Nat
<1>1. build \in Seq(Jobs)
  BY Assumptions DEF Control
<1>2. Len(build) \in Nat /\ job \in 1..(Len(build) + 1)
  BY <1>1 DEF Control
<1>3. job <= Len(build) => build[job] \in Jobs
  BY <1>1, <1>2
<1>4. QED
  BY <1>2, <1>3 DEF Kind, Jobs

LEMMA KindKept == unchangedBuild => Kind' = Kind
  BY DEF unchangedBuild, Kind

LEMMA AfterCommands ==
    /\ Kind = "packages" => afterCommands = "undivert"
    /\ Kind = "preseed" => afterCommands = "teardown"
    /\ Kind = "manual" => afterCommands = "return"
<1>1. ASSUME Kind = "packages" PROVE afterCommands = "undivert"
  BY <1>1 DEF afterCommands
<1>2. ASSUME Kind = "preseed" PROVE afterCommands = "teardown"
  BY <1>2 DEF afterCommands
<1>3. ASSUME Kind = "manual" PROVE afterCommands = "return"
  BY <1>3 DEF afterCommands
<1>4. QED
  BY <1>1, <1>2, <1>3

LEMMA ControlStep == ASSUME Control, [Next]_vars PROVE Control'
<1> USE KindKept, KindTypes DEF Control, StepInv, Jobs
<1>1. CASE Backup
  BY <1>1 DEF Backup, unchangedBuild, NextPc
<1>2. CASE Enter
  BY <1>2 DEF Enter, unchangedBuild
<1>3. CASE Mount
  BY <1>3 DEF Mount, unchangedBuild, afterMountError
<1>4. CASE Mounted
  BY <1>4 DEF Mounted, unchangedBuild
<1>5. CASE Divert
  BY <1>5, DiversionTypes DEF Divert, unchangedBuild
<1>6. CASE WriteFake
  BY <1>6 DEF WriteFake, unchangedBuild
<1>7. CASE Diverted
  BY <1>7 DEF Diverted, unchangedBuild
<1>8. CASE Commands
  <2>1. /\ pc = "commands" /\ pc' = afterCommands /\ Kind' = Kind
        /\ Kind \in {"packages", "preseed", "manual"}
        /\ UNCHANGED <<next, deferred, build, job>>
    BY <1>8 DEF Commands, unchangedBuild
  <2>2. /\ Kind = "packages" => pc' = "undivert"
        /\ Kind = "preseed" => pc' = "teardown"
        /\ Kind = "manual" => pc' = "return"
    BY <2>1, AfterCommands
  <2>3. deferred # {} => Kind = "packages"
    BY <2>1
  <2>4. QED
    BY <2>1, <2>2, <2>3
<1>9. CASE RemoveFake
  BY <1>9, DiversionTypes DEF RemoveFake, unchangedBuild
<1>10. CASE Undivert
  BY <1>10 DEF Undivert, unchangedBuild
<1>11. CASE Teardown
  BY <1>11 DEF Teardown, unchangedBuild
<1>12. CASE Return
  BY <1>12 DEF Return
<1>13. CASE Populate
  BY <1>13 DEF Populate, unchangedBuild
<1>14. CASE Kill
  BY <1>14 DEF Kill, unchangedBuild
<1>15. CASE Resume
  BY <1>15 DEF Resume, unchangedBuild
<1>16. CASE UNCHANGED vars
  BY <1>16 DEF vars, Kind
<1>17. QED
  BY <1>1, <1>2, <1>3, <1>4, <1>5, <1>6, <1>7, <1>8, <1>9, <1>10, <1>11, <1>12,
     <1>13, <1>14, <1>15, <1>16 DEF Next

LEMMA ChrootStep == ASSUME Control, ChrootTypes, [Next]_vars PROVE ChrootTypes'
<1> USE DEF ChrootTypes
<1>1. CASE Backup
  BY <1>1 DEF Backup, Links, backupOnce
<1>2. CASE Mount
  <2>1. pc = "mount" /\ next \in 1..Len(mountPoints)
    BY <1>2, MountPointTypes DEF Mount, Control, StepInv
  <2>2. mountPoints[next] \in MountPoints
    BY <2>1, MountPointTypes
  <2>3. QED
    BY <1>2, <2>2 DEF Mount
<1>3. CASE Divert \/ WriteFake \/ RemoveFake \/ Undivert
  BY <1>3 DEF Divert, WriteFake, RemoveFake, Undivert
<1>4. CASE Commands
  <2>1. mounted' \in [MountPoints -> Nat]
    BY <1>4 DEF Commands
  <2>2. scripted' \subseteq OtherMounts
    BY <1>4 DEF Commands
  <2>3. resolv' \in Links \cup {"file", "host", "custom", "missing"}
    BY <1>4 DEF Commands, resolvLeft, Links
  <2>4. QED
    BY <1>4, <2>1, <2>2, <2>3 DEF Commands
<1>5. CASE Teardown
  <2>1. mounted' \in [MountPoints -> Nat]
    BY <1>5 DEF Teardown, umounts
  <2>2. QED
    BY <1>5, <2>1 DEF Teardown
<1>6. CASE Populate
  BY <1>6 DEF Populate, RestoreResolvConf, Links
<1>7. CASE Enter \/ Mounted \/ Diverted \/ Return \/ Kill \/ Resume \/ UNCHANGED vars
  BY <1>7 DEF Enter, Mounted, Diverted, Return, Kill, Resume, vars, chroot
<1>8. QED
  BY <1>1, <1>2, <1>3, <1>4, <1>5, <1>6, <1>7 DEF Next

LEMMA FlagsStep == ASSUME Flags, [Next]_vars PROVE Flags'
<1> USE DEF Flags, unchangedBuild
<1>1. CASE Backup \/ Enter \/ Mount \/ Mounted \/ Divert \/ WriteFake \/ Diverted
  BY <1>1 DEF Backup, Enter, Mount, Mounted, Divert, WriteFake, Diverted
<1>2. CASE Commands \/ RemoveFake \/ Undivert \/ Teardown
  BY <1>2 DEF Commands, RemoveFake, Undivert, Teardown
<1>3. CASE Return \/ Populate \/ Kill \/ Resume \/ UNCHANGED vars
  BY <1>3 DEF Return, Populate, Kill, Resume, vars
<1>4. QED
  BY <1>1, <1>2, <1>3 DEF Next

LEMMA FaultsStep == ASSUME FaultsOK, [Next]_vars PROVE FaultsOK'
<1>1. (\E k : Fault(k)) \/ UNCHANGED faults
  BY DEF Next, Backup, Enter, Mount, Mounted, Divert, WriteFake, Diverted, Commands,
         RemoveFake, Undivert, Teardown, Return, Populate, Kill, Resume, vars
<1>2. QED
  BY <1>1, FaultStep DEF FaultsOK

LEMMA FaultsGrow ==
    ASSUME FaultsOK, [Next]_vars PROVE Range(faults) \subseteq Range(faults')
<1>1. (\E k : Fault(k)) \/ UNCHANGED faults
  BY DEF Next, Backup, Enter, Mount, Mounted, Divert, WriteFake, Diverted, Commands,
         RemoveFake, Undivert, Teardown, Return, Populate, Kill, Resume, vars
<1>2. QED
  BY <1>1, FaultStep

LEMMA TypesInit == Init => Types
<1>1. SUFFICES ASSUME Init PROVE Types
  OBVIOUS
<1>2. build \in Seq(Jobs) /\ MaxFaults \in Nat
  BY <1>1, Assumptions DEF Init
<1>3. Control
  BY <1>1, <1>2 DEF Init, Control, StepInv
<1>4. ChrootTypes
  BY <1>1, Assumptions DEF Init, ChrootTypes, Unmounted, Links
<1>5. FaultsOK
  BY <1>1, <1>2 DEF Init, FaultsOK
<1>6. QED
  BY <1>1, <1>3, <1>4, <1>5 DEF Types, Flags, Init

LEMMA TypesInvariant == Spec => []Types
<1>1. Types /\ [Next]_vars => Types'
  BY ControlStep, ChrootStep, FlagsStep, FaultsStep DEF Types
<1>2. QED
  BY <1>1, TypesInit, PTL DEF Spec

\* The types of the variables; undivert functions are pending only while they
\* can still be called.
THEOREM TypeCorrect == Spec => []TypeOK
  BY TypesInvariant, TypesAreTypeOK, PTL

-----------------------------------------------------------------------------
(***************************************************************************)
(* Mounts.  A state that succeeds leaves none but those of scripts, which  *)
(* is what those that set up none find; a build in a temporary directory   *)
(* is not resumed, and its states begin with no others either.             *)
(***************************************************************************)
MountInv ==
    /\ Kind \in {"manual", "populate"} => MountedPoints \subseteq scripted
    /\ pc = "return" /\ ~err =>
         /\ MountedPoints \subseteq scripted
         /\ Kind # "manual" => MountedPoints = {}
    /\ /\ temporary /\ "umount" \notin Range(faults)
       /\ pc \in {"start", "return"}
       => MountedPoints \subseteq scripted

\* What is mounted, if nothing mounts or unmounts.
LEMMA MountsKept ==
    /\ mounted' = mounted => MountedPoints' = MountedPoints
    /\ MountedPoints' = {m \in MountPoints : mounted'[m] > 0}
  BY DEF MountedPoints, MountPoints

LEMMA TeardownUnmounts ==
    ASSUME ChrootTypes, FaultsOK, Teardown
    PROVE  /\ ~err' => MountedPoints' = {}
           /\ "umount" \notin Range(faults') => MountedPoints' = {}
           /\ MountedPoints \subseteq scripted => MountedPoints' \subseteq scripted'
<1>1. \A m \in MountPoints : mounted[m] \in Nat /\ mounted[m] - mounted[m] = 0
  BY DEF ChrootTypes
<1>2. scripted' = {m \in scripted : mounted'[m] > 0}
  BY DEF Teardown
<1>3. CASE mounted' = [m \in MountPoints |-> mounted[m] - umounts(m)]
  <2>1. \A m \in MountPoints : ~(mounted'[m] > 0)
    BY <1>1, <1>3 DEF umounts
  <2>2. QED
    BY <2>1, MountsKept
<1>4. CASE /\ Fault("umount") /\ err' = TRUE
           /\ \E busy \in {m \in MountPoints : mounted[m] > 0} :
               mounted' = [m \in MountPoints |->
                             IF m = busy THEN mounted[m] ELSE mounted[m] - umounts(m)]
  <2>1. faults' = Append(faults, "umount")
    BY <1>4 DEF Fault
  <2>2. "umount" \in Range(faults')
    BY <2>1, AppendedInRange
  <2>3. \A m \in MountPoints : mounted'[m] > 0 => mounted[m] > 0
    BY <1>1, <1>4 DEF umounts
  <2>4. MountedPoints' \subseteq MountedPoints
    BY <2>3, MountsKept DEF MountedPoints
  <2>5. \A m \in MountedPoints' : mounted'[m] > 0
    BY MountsKept
  <2>6. MountedPoints \subseteq scripted => MountedPoints' \subseteq scripted'
    BY <1>2, <2>4, <2>5
  <2>7. QED
    BY <1>4, <2>2, <2>6
<1>5. QED
  BY <1>3, <1>4 DEF Teardown

LEMMA MountStep ==
    ASSUME Types, MountInv, [Next]_vars
    PROVE  /\ MountInv'
           /\ job' # job => IF Kind = "manual" THEN MountedPoints' \subseteq scripted'
                            ELSE MountedPoints' = {}
<1> USE KindKept, KindTypes, FaultsGrow, MountsKept DEF MountInv, Types, unchangedBuild
<1>1. CASE Backup \/ Enter
  BY <1>1 DEF Backup, Enter, chroot, NextPc
<1>2. CASE Mount
  <2>1. Kind \in {"packages", "preseed"} /\ pc' \in {"mount", "teardown"}
    BY <1>2 DEF Mount, Control, StepInv, afterMountError
  <2>2. QED
    BY <1>2, <2>1 DEF Mount
<1>3. CASE Mounted \/ Divert \/ WriteFake \/ Diverted \/ RemoveFake \/ Undivert
  BY <1>3 DEF Mounted, Divert, WriteFake, Diverted, RemoveFake, Undivert, chroot
<1>4. CASE Commands
  <2>1. /\ pc = "commands" /\ pc' = afterCommands /\ Kind' = Kind
        /\ Kind \in {"packages", "preseed", "manual"} /\ job' = job
    BY <1>4 DEF Commands, Control, StepInv, Jobs
  <2>2. CASE Kind = "manual"
    <3>1. PICK new \in SUBSET OtherMounts :
            /\ mounted' = [m \in MountPoints |-> mounted[m] + IF m \in new THEN 1 ELSE 0]
            /\ scripted' = scripted \cup new
      BY <1>4, <2>2 DEF Commands
    <3>2. \A m \in MountPoints : mounted'[m] > 0 => mounted[m] > 0 \/ m \in new
      BY <3>1 DEF ChrootTypes
    <3>3. MountedPoints \subseteq scripted
      BY <2>2
    <3>4. MountedPoints' \subseteq scripted'
      BY <3>1, <3>2, <3>3, MountsKept DEF MountedPoints
    <3>5. QED
      BY <2>1, <2>2, <3>4, AfterCommands
  <2>3. CASE Kind # "manual"
    BY <2>1, <2>3, AfterCommands
  <2>4. QED
    BY <2>2, <2>3
<1>5. CASE Teardown
  BY <1>5, TeardownUnmounts DEF Teardown
<1>6. CASE Return
  <2>1. CASE err
    <3>1. pc' = "failed" /\ UNCHANGED <<mounted, scripted, job, build>>
      BY <1>6, <2>1 DEF Return, chroot
    <3>2. Kind' = Kind
      BY <3>1 DEF Kind
    <3>3. QED
      BY <3>1, <3>2
  <2>2. CASE ~err
    BY <1>6, <2>2 DEF Return, chroot
  <2>3. QED
    BY <2>1, <2>2
<1>7. CASE Populate \/ Kill \/ Resume
  BY <1>7 DEF Populate, Kill, Resume, chroot
<1>8. CASE UNCHANGED vars
  BY <1>8 DEF vars, Kind
<1>9. QED
  BY <1>1, <1>2, <1>3, <1>4, <1>5, <1>6, <1>7, <1>8 DEF Next

LEMMA MountInvariant == Spec => [](Types /\ MountInv)
<1>1. Init => MountInv
  BY DEF Init, MountInv, MountedPoints, Unmounted
<1>2. QED
  BY <1>1, MountStep, TypesInvariant, PTL DEF Spec

\* A state function that returns without error leaves nothing mounted in the
\* chroot, whatever its commands, killed processes and scripts mounted there;
\* manual customization leaves what its scripts mounted, and nothing else.
THEOREM NoMountCorrect == Spec => SuccessLeavesNoMount
<1>1. Types /\ MountInv /\ [Next]_vars
        => [ job' # job =>
               IF Kind = "manual" THEN MountedPoints' \subseteq scripted'
               ELSE MountedPoints' = {} ]_vars
  BY MountStep
<1>2. QED
  BY <1>1, MountInvariant, PTL DEF Spec, SuccessLeavesNoMount

\* Run removes the temporary work directory after an error only when nothing
\* is mounted in it but what scripts mounted, unless an umount failed.
THEOREM RemovalCorrect == Spec => RemovedWhenUnmounted
<1>1. ASSUME Types, MountInv, Next, workDir, ~workDir', "umount" \notin Range(faults)
      PROVE  MountedPoints \subseteq scripted
  <2>1. Return
    BY <1>1 DEF Next, Backup, Enter, Mount, Mounted, Divert, WriteFake, Diverted,
       Commands, RemoveFake, Undivert, Teardown, Populate, Kill, Resume, unchangedBuild
  <2>2. temporary /\ pc = "return"
    BY <1>1, <2>1 DEF Return, Types, Flags
  <2>3. QED
    BY <1>1, <2>2 DEF MountInv
<1>2. Types /\ MountInv /\ [Next]_vars
        => [workDir /\ ~workDir' /\ "umount" \notin Range(faults)
              => MountedPoints \subseteq scripted]_vars
  BY <1>1
<1>3. QED
  BY <1>2, MountInvariant, PTL DEF Spec, RemovedWhenUnmounted

-----------------------------------------------------------------------------
(***************************************************************************)
(* resolv.conf.  As long as the rootfs came without a dangling link, the   *)
(* backup is seen by the next session: there is one, of the original file, *)
(* or resolv.conf has not been touched.                                    *)
(***************************************************************************)
ResolvInv ==
    /\ \/ backup = "missing" /\ resolv \in {"file", "missing"} \cap Originals
       \/ backup = "file" /\ "file" \in Originals /\ resolv \in {"host", "missing", "link", "custom"}
       \/ pc = "done" /\ backup = "missing" /\ resolv \in Originals \cup {"link"}
    /\ Kind \in {"packages", "manual"} /\ pc \in {"mount", "divert", "fake", "commands"}
         => backup = "file"
    /\ pc = "done" => ImageHasItsResolvConf

LEMMA ResolvStep == ASSUME Types, ResolvInv, [Next]_vars PROVE ResolvInv'
<1> USE KindKept, KindTypes DEF ResolvInv, Types, unchangedBuild, ImageHasItsResolvConf
<1>1. CASE Backup
  BY <1>1 DEF Backup, backupOnce, FileExists, Links, NextPc
<1>2. CASE Enter
  BY <1>2 DEF Enter, chroot
<1>3. CASE Mount \/ Mounted
  BY <1>3 DEF Mount, Mounted, chroot, afterMountError
<1>4. CASE Divert \/ WriteFake \/ Diverted
  BY <1>4 DEF Divert, WriteFake, Diverted, chroot
<1>5. CASE Commands
  <2>1. pc' # "done" /\ pc' \notin {"mount", "divert", "fake", "commands"}
    <3>1. pc' = afterCommands /\ Kind \in {"packages", "preseed", "manual"}
      BY <1>5 DEF Commands, Control, StepInv, Jobs
    <3>2. QED
      BY <3>1, AfterCommands
  <2>2. /\ backup' = backup /\ pc = "commands" /\ Kind \in Jobs
        /\ resolv' \in {resolv, "link", "custom", "missing"}
        /\ Kind = "preseed" => resolv' = resolv
    BY <1>5 DEF Commands, resolvLeft, Control, StepInv
  <2>3. Kind \in {"packages", "manual"} => backup = "file"
    BY <2>2
  <2>4. QED
    BY <1>5, <2>1, <2>2, <2>3 DEF Commands, Jobs
<1>6. CASE RemoveFake \/ Undivert \/ Teardown
  BY <1>6 DEF RemoveFake, Undivert, Teardown
<1>7. CASE Return
  BY <1>7 DEF Return, chroot
<1>8. CASE Populate
  BY <1>8 DEF Populate, RestoreResolvConf, FileExists, Links
<1>9. CASE Kill \/ Resume
  BY <1>9 DEF Kill, Resume, chroot
<1>10. CASE UNCHANGED vars
  BY <1>10 DEF vars, Kind
<1>11. QED
  BY <1>1, <1>2, <1>3, <1>4, <1>5, <1>6, <1>7, <1>8, <1>9, <1>10 DEF Next

\* The image has the resolv.conf of the rootfs, or the link a package or a
\* script made of it, whatever failed or was killed, if that of the rootfs is not a dangling
\* link.
THEOREM ResolvConfCorrect ==
    ASSUME "dangling" \notin Originals PROVE Spec => []ImageHasItsResolvConf
<1>1. Init => ResolvInv
  BY Assumptions DEF Init, ResolvInv
<1>2. Types /\ ResolvInv => ImageHasItsResolvConf
  BY DEF ResolvInv, ImageHasItsResolvConf
<1>3. QED
  BY <1>1, <1>2, ResolvStep, TypesInvariant, PTL DEF Spec

-----------------------------------------------------------------------------
(***************************************************************************)
(* Diversions.  Without a failure of dpkg-divert or of the fakes and       *)
(* without a kill, the fakes there are are those whose undivert functions  *)
(* are deferred, and the only program away is the one being handled.       *)
(***************************************************************************)
Clean == Range(faults) \cap {"divert", "undivert", "kill"} = {}

DivertInv ==
    Clean =>
      /\ pc # "killed"
      /\ \A i \in DOMAIN Diversions :
           /\ program[Diversions[i]] = "fake" <=> i \in deferred
           /\ program[Diversions[i]] = "moved" <=> pc \in {"fake", "undiverting"} /\ i = next
      /\ pc \in {"divert", "fake"} => \A i \in deferred : i < next

LEMMA DivertStep == ASSUME Types, DivertInv, [Next]_vars PROVE DivertInv'
<1> SUFFICES ASSUME Clean' PROVE DivertInv'
  BY DEF DivertInv
<1> USE DiversionTypes DEF DivertInv
<1>a. Clean
  BY FaultsGrow DEF Clean, Types
<1>b. ~Fault("divert") /\ ~Fault("undivert") /\ ~Fault("kill")
  BY AppendedInRange DEF Fault, Clean, Types
<1>c. program \in [Range(Diversions) -> {"absent", "real", "fake", "moved"}]
  BY DEF Types, ChrootTypes
<1>d. deferred \subseteq DOMAIN Diversions /\ next \in Nat \ {0}
  BY DEF Types, Control, StepInv
<1>1. CASE Backup \/ Enter \/ Mount \/ Mounted
  BY <1>1, <1>a DEF Backup, Enter, Mount, Mounted, chroot, NextPc, afterMountError,
     Types, Control
<1>2. CASE Divert
  <2>1. next \in DOMAIN Diversions /\ pc = "divert" /\ deferred' = deferred
    BY <1>2, <1>d DEF Divert
  <2>2. CASE /\ program[Diversions[next]] \in {"absent", "moved"}
             /\ next' = next + 1 /\ UNCHANGED <<pc, program>>
    BY <2>1, <2>2, <1>a, <1>d
  <2>3. CASE /\ program[Diversions[next]] = "real"
             /\ program' = [program EXCEPT ![Diversions[next]] = "moved"]
             /\ pc' = "fake" /\ UNCHANGED next
    BY <2>1, <2>3, <1>a, <1>c, <1>d
  <2>4. program[Diversions[next]] # "fake"
    BY <2>1, <1>a
  <2>5. QED
    BY <1>2, <2>2, <2>3, <2>4, <1>b DEF Divert
<1>3. CASE WriteFake
  <2>1. /\ next \in DOMAIN Diversions /\ pc = "fake"
        /\ program' = [program EXCEPT ![Diversions[next]] = "fake"]
        /\ deferred' = deferred \cup {next} /\ pc' = "divert" /\ next' = next + 1
    BY <1>3, <1>b DEF WriteFake, Types, Control, StepInv
  <2>2. \A i \in DOMAIN Diversions :
          program'[Diversions[i]] = IF i = next THEN "fake" ELSE program[Diversions[i]]
    BY <2>1, <1>c
  <2>3. QED
    BY <2>1, <2>2, <1>a, <1>d
<1>4. CASE Diverted
  BY <1>4, <1>a DEF Diverted, chroot
<1>5. CASE Commands
  <2>1. pc' \notin {"divert", "fake", "undiverting", "killed"} /\ pc = "commands"
    <3>1. pc' = afterCommands /\ Kind \in {"packages", "preseed", "manual"}
      BY <1>5 DEF Commands, Types, Control, StepInv, Jobs
    <3>2. QED
      BY <1>5, <3>1, AfterCommands DEF Commands
  <2>2. \A p \in Range(Diversions) :
          \/ program'[p] = program[p]
          \/ program[p] \in {"absent", "real"} /\ program'[p] \in {"absent", "real"}
    BY <1>5 DEF Commands
  <2>3. UNCHANGED <<next, deferred>>
    BY <1>5 DEF Commands
  <2>4. QED
    BY <2>1, <2>2, <2>3, <1>a
<1>6. CASE RemoveFake
  <2>1. PICK i \in deferred :
          /\ next' = i /\ deferred' = deferred \ {i}
          /\ program' = [program EXCEPT ![Diversions[i]] = "moved"]
          /\ pc' = "undiverting" /\ pc = "undivert"
    BY <1>6, <1>b DEF RemoveFake
  <2>2. \A j \in DOMAIN Diversions :
          program'[Diversions[j]] = IF j = i THEN "moved" ELSE program[Diversions[j]]
    BY <2>1, <1>c, <1>d
  <2>3. QED
    BY <2>1, <2>2, <1>a, <1>d
<1>7. CASE Undivert
  <2>1. /\ next \in DOMAIN Diversions /\ pc = "undiverting"
        /\ program' = [program EXCEPT ![Diversions[next]] = "real"]
        /\ pc' = "undivert" /\ UNCHANGED <<next, deferred>>
    BY <1>7, <1>b DEF Undivert, Types, Control, StepInv
  <2>2. \A i \in DOMAIN Diversions :
          program'[Diversions[i]] = IF i = next THEN "real" ELSE program[Diversions[i]]
    BY <2>1, <1>c
  <2>3. QED
    BY <2>1, <2>2, <1>a, <1>d
<1>8. CASE Teardown \/ Return \/ Populate \/ Resume
  BY <1>8, <1>a DEF Teardown, Return, Populate, Resume, chroot, Types, Control
<1>9. CASE Kill
  BY <1>9, <1>b DEF Kill
<1>10. CASE UNCHANGED vars
  BY <1>10, <1>a DEF vars
<1>11. QED
  BY <1>1, <1>2, <1>3, <1>4, <1>5, <1>6, <1>7, <1>8, <1>9, <1>10 DEF Next

LEMMA DivertInvariant == Spec => [](Types /\ DivertInv)
<1>1. Init => DivertInv
  BY DiversionTypes DEF Init, DivertInv
<1>2. QED
  BY <1>1, DivertStep, TypesInvariant, PTL DEF Spec

\* A state function that returns without error leaves no fake in the chroot and
\* no program moved away, if dpkg-divert and the writing and removing of fakes
\* did not fail and no process was killed.
THEOREM NoFakeCorrect == Spec => SuccessLeavesNoFake
<1>1. ASSUME Types, DivertInv, Next, job' # job, Clean, NEW p \in Range(Diversions)
      PROVE  program'[p] \in {"absent", "real"}
  <2>1. Return
    BY <1>1 DEF Next, Backup, Enter, Mount, Mounted, Divert, WriteFake, Diverted,
       Commands, RemoveFake, Undivert, Teardown, Populate, Kill, Resume, unchangedBuild
  <2>2. pc = "return" /\ deferred = {} /\ program' = program
    BY <1>1, <2>1 DEF Return, Types, Control, chroot
  <2>3. PICK i \in DOMAIN Diversions : Diversions[i] = p
    BY DiversionTypes
  <2>4. program[p] \notin {"fake", "moved"}
    BY <1>1, <2>2, <2>3 DEF DivertInv
  <2>5. program[p] \in {"absent", "real", "fake", "moved"}
    BY <1>1 DEF Types, ChrootTypes
  <2>6. QED
    BY <2>2, <2>4, <2>5
<1>2. Types /\ DivertInv /\ [Next]_vars
        => [ /\ job' # job
             /\ Range(faults) \cap {"divert", "undivert", "kill"} = {}
             => \A p \in Range(Diversions) : program'[p] \in {"absent", "real"} ]_vars
  BY <1>1 DEF Clean
<1>3. QED
  BY <1>2, DivertInvariant, PTL DEF Spec, SuccessLeavesNoFake

=============================================================================
