-------------------------- MODULE GrubSessionProofs --------------------------
(***************************************************************************)
(* Proofs about GrubSession, for any mount points in the image, any number *)
(* of failures and kills and as many processes.                            *)
(***************************************************************************)
EXTENDS GrubSession, TLAPS

LEMMA MountPointFacts ==
    /\ Len(MountPoints) \in Nat /\ DOMAIN MountPoints = 1..Len(MountPoints)
    /\ \A i \in DOMAIN MountPoints : MountPoints[i] \in Inner
    /\ \A m \in Inner : \E i \in DOMAIN MountPoints : MountPoints[i] = m
    /\ \A m \in Inner : m \notin {"image", "root", "boot"} /\ m \in Inside[m]
    /\ MaxFaults \in Nat
<1>1. MountPoints \in Seq(Range(MountPoints))
  BY GrubAssumptions
<1>2. Len(MountPoints) \in Nat /\ DOMAIN MountPoints = 1..Len(MountPoints)
  BY <1>1
<1>3. /\ \A i \in DOMAIN MountPoints : MountPoints[i] \in Inner
      /\ \A m \in Inner : \E i \in DOMAIN MountPoints : MountPoints[i] = m
  BY DEF Range, Inner
<1>4. \A m \in Inner : m \notin {"image", "root", "boot"} /\ m \in Inside[m]
  BY GrubAssumptions DEF Inner
<1>5. QED
  BY <1>2, <1>3, <1>4, GrubAssumptions

LEMMA CommandTypes ==
    /\ \A name \in {"settle", "detach", "divert", "undivert", "udev", "grub-install",
                    "update-grub"} : Cmd(name) \in Commands
    /\ \A m \in Inner \cup {"root", "boot"} :
         MountCmd(m) \in Commands /\ UmountCmd(m) \in Commands
  BY DEF Cmd, MountCmd, UmountCmd, Commands

LEMMA MountCmdsTypes ==
    /\ mountCmds \in Seq(Commands)
    /\ \A i \in DOMAIN mountCmds : mountCmds[i].cmd = "mount" /\ mountCmds[i].at \in Inner
<1>1. /\ DOMAIN mountCmds = 1..Len(MountPoints)
      /\ \A i \in 1..Len(MountPoints) : mountCmds[i] = MountCmd(MountPoints[i])
  BY MountPointFacts DEF mountCmds
<1>2. \A i \in 1..Len(MountPoints) : mountCmds[i] \in Commands
  BY <1>1, MountPointFacts, CommandTypes
<1>3. mountCmds = [i \in 1..Len(MountPoints) |-> mountCmds[i]]
  BY MountPointFacts DEF mountCmds
<1>4. mountCmds \in Seq(Commands)
  BY <1>2, <1>3, MountPointFacts
<1>5. QED
  BY <1>1, <1>4, MountPointFacts DEF MountCmd

\* The teardown of the mounts in the image names each of them.
LEMMA UmountCmdsTypes ==
    /\ umountCmds \in Seq(Commands)
    /\ \A m \in Inner : \E i \in DOMAIN umountCmds : umountCmds[i] = UmountCmd(m)
    /\ \A i \in DOMAIN umountCmds : umountCmds[i] # UmountCmd("root")
<1> DEFINE inOrder == [i \in DOMAIN MountPoints |-> UmountCmd(MountPoints[i])]
           n == Len(MountPoints)
           back == Reversed(inOrder)
<1>1. n \in Nat /\ DOMAIN MountPoints = 1..n
  BY MountPointFacts
<1>2. inOrder \in Seq(Commands) /\ Len(inOrder) = n
  BY <1>1, MountPointFacts, CommandTypes
<1>3. /\ back = [i \in 1..n |-> inOrder[n + 1 - i]]
      /\ \A i \in 1..n : n + 1 - i \in 1..n
  BY <1>1, <1>2 DEF Reversed
<1>4. /\ back \in Seq(Commands) /\ Len(back) = n
      /\ \A i \in 1..n : back[i] = UmountCmd(MountPoints[n + 1 - i])
  <2>1. \A i \in 1..n : inOrder[n + 1 - i] = UmountCmd(MountPoints[n + 1 - i])
    BY <1>1, <1>3
  <2>2. \A i \in 1..n : inOrder[n + 1 - i] \in Commands
    BY <1>2, <1>3
  <2>3. QED
    BY <1>1, <1>3, <2>1, <2>2
<1>5. /\ umountCmds = <<Cmd("settle")>> \o back
      /\ <<Cmd("settle")>> \in Seq(Commands) /\ Len(<<Cmd("settle")>>) = 1
  BY CommandTypes DEF umountCmds
<1>6. /\ umountCmds \in Seq(Commands)
      /\ DOMAIN umountCmds = 1..(n + 1)
      /\ umountCmds[1] = Cmd("settle")
      /\ \A i \in 2..(n + 1) : umountCmds[i] = back[i - 1]
  <2> HIDE DEF back
  <2>1. QED
    BY <1>1, <1>4, <1>5
<1>7. ASSUME NEW m \in Inner PROVE \E i \in DOMAIN umountCmds : umountCmds[i] = UmountCmd(m)
  <2>1. PICK j \in 1..n : MountPoints[j] = m
    BY <1>1, MountPointFacts
  <2>2. n + 2 - j \in 2..(n + 1) /\ n + 1 - (n + 2 - j - 1) = j
    BY <1>1
  <2>3. umountCmds[n + 2 - j] = UmountCmd(m)
    <3> HIDE DEF back, n
    <3>1. umountCmds[n + 2 - j] = back[n + 2 - j - 1] /\ n + 2 - j - 1 \in 1..n
      BY <1>1, <1>6, <2>2
    <3>2. back[n + 2 - j - 1] = UmountCmd(MountPoints[j])
      BY <1>4, <2>2, <3>1
    <3>3. QED
      BY <2>1, <3>1, <3>2
  <2>4. QED
    BY <1>1, <1>6, <2>2, <2>3
<1>8. ASSUME NEW i \in DOMAIN umountCmds PROVE umountCmds[i] # UmountCmd("root")
  <2>1. CASE i = 1
    BY <1>6, <2>1 DEF Cmd, UmountCmd
  <2>2. CASE i \in 2..(n + 1)
    <3>1. i - 1 \in 1..n /\ n + 1 - (i - 1) \in 1..n
      BY <1>1, <2>2
    <3>2. umountCmds[i] = UmountCmd(MountPoints[n + 1 - (i - 1)])
      BY <1>4, <1>6, <2>2, <3>1
    <3>3. QED
      BY <1>1, <3>1, <3>2, MountPointFacts DEF UmountCmd
  <2>3. QED
    BY <1>1, <1>6, <2>1, <2>2
<1>9. QED
  BY <1>6, <1>7, <1>8

LEMMA TailFacts ==
    ASSUME NEW S, NEW s \in Seq(S), s # <<>>
    PROVE  /\ Tail(s) \in Seq(S) /\ Head(s) = s[1] /\ Head(s) \in S
           /\ Len(s) \in Nat /\ Len(s) > 0 /\ Len(Tail(s)) = Len(s) - 1
           /\ DOMAIN s = 1..Len(s) /\ DOMAIN Tail(s) = 1..(Len(s) - 1)
           /\ \A i \in DOMAIN Tail(s) : Tail(s)[i] = s[i + 1]
           /\ \A i \in DOMAIN s : i # 1 => i - 1 \in DOMAIN Tail(s) /\ Tail(s)[i - 1] = s[i]
  OBVIOUS

LEMMA ConcatFacts ==
    ASSUME NEW S, NEW s \in Seq(S), NEW t \in Seq(S)
    PROVE  /\ s \o t \in Seq(S) /\ DOMAIN s = 1..Len(s) /\ DOMAIN t = 1..Len(t)
           /\ Len(s) \in Nat /\ Len(t) \in Nat
           /\ DOMAIN (s \o t) = 1..(Len(s) + Len(t))
           /\ \A i \in 1..Len(s) : (s \o t)[i] = s[i]
           /\ \A i \in 1..Len(t) : (s \o t)[Len(s) + i] = t[i]
           /\ \A i \in 1..(Len(s) + Len(t)) :
                i \notin 1..Len(s) => i - Len(s) \in 1..Len(t) /\ (s \o t)[i] = t[i - Len(s)]
  OBVIOUS

-----------------------------------------------------------------------------
(***************************************************************************)
(* Types, in groups.  Those of the layers need to know that a command that *)
(* mounts something in the image finds it mounted; they come later.        *)
(***************************************************************************)
Control ==
    /\ pc \in {"losetup", "prepare", "preparing", "prepared", "running", "restore",
              "teardown", "done", "failed", "killed"}
    /\ teardown # <<>> => pc \notin {"losetup", "done", "failed", "killed"}
    /\ restore \in BOOLEAN
    /\ pc \in {"prepared", "running", "restore"} <=> restore

Inputs == hasBoot \in BOOLEAN /\ bios \in BOOLEAN /\ original \in {"file", "link"}
Lists == setup \in Seq(Commands) /\ teardown \in Seq(Commands)
Flags == err \in BOOLEAN /\ scanned \in BOOLEAN
FaultsOK == faults \in Seq(Faults) /\ Len(faults) <= MaxFaults
ImageTypes ==
    /\ resolv \in {"file", "link", "host", "missing"}
    /\ backup \in {"file", "link", "host", "missing"}
    /\ prober \in {"real", "diverted"}

Types == Control /\ Inputs /\ Lists /\ Flags /\ FaultsOK /\ ImageTypes

LEMMA FaultStep ==
    ASSUME FaultsOK, NEW k, Fault(k)
    PROVE  FaultsOK' /\ k \in Range(faults') /\ Range(faults) \subseteq Range(faults')
<1>1. k \in Faults /\ Len(faults) < MaxFaults /\ faults' = Append(faults, k)
  BY DEF Fault
<1>2. Len(faults) \in Nat /\ MaxFaults \in Nat /\ faults \in Seq(Faults)
  BY GrubAssumptions DEF FaultsOK
<1>3. /\ faults' \in Seq(Faults) /\ Len(faults') = Len(faults) + 1
      /\ DOMAIN faults = 1..Len(faults) /\ DOMAIN faults' = 1..(Len(faults) + 1)
      /\ faults'[Len(faults) + 1] = k
      /\ \A i \in 1..Len(faults) : faults'[i] = faults[i]
  BY <1>1, <1>2
<1>4. QED
  BY <1>1, <1>2, <1>3 DEF Range, FaultsOK

LEMMA FaultsGrow ==
    ASSUME FaultsOK, [Next]_vars PROVE FaultsOK' /\ Range(faults) \subseteq Range(faults')
<1>1. (\E k : Fault(k)) \/ UNCHANGED faults
  BY DEF Next, AssociateLoopDevice, Prepare, RunCmd, Backup, ListCommands, Finished,
         RestoreResolvConf, TeardownCmd, Return, Kill, Retry, vars
<1>2. QED
  BY <1>1, FaultStep DEF FaultsOK

LEMMA ControlStep == ASSUME Control, [Next]_vars PROVE Control'
<1> USE DEF Control
<1>1. CASE AssociateLoopDevice \/ Prepare
  BY <1>1 DEF AssociateLoopDevice, Prepare
<1>b. CASE Backup
  <2>1. /\ pc = "preparing" /\ UNCHANGED teardown
        /\ \/ pc' = "prepared" /\ restore' = TRUE
           \/ pc' = "teardown" /\ restore' = restore
    BY <1>b DEF Backup
  <2>2. restore = FALSE
    BY <2>1
  <2>3. QED
    BY <2>1, <2>2
<1>2. CASE RunCmd
  BY <1>2 DEF RunCmd, afterError
<1>3. CASE ListCommands \/ Finished \/ RestoreResolvConf
  BY <1>3 DEF ListCommands, Finished, RestoreResolvConf, control
<1>4. CASE TeardownCmd \/ Return
  BY <1>4 DEF TeardownCmd, Return
<1>k. CASE Kill
  BY <1>k DEF Kill
<1>r. CASE Retry
  BY <1>r DEF Retry, control
<1>5. CASE UNCHANGED vars
  BY <1>5 DEF control, vars
<1>6. QED
  BY <1>1, <1>2, <1>3, <1>4, <1>5, <1>b, <1>k, <1>r DEF Next

LEMMA InputsStep == ASSUME Inputs, [Next]_vars PROVE Inputs'
  BY DEF Inputs, Next, AssociateLoopDevice, Prepare, RunCmd, Backup, ListCommands, Finished,
         RestoreResolvConf, TeardownCmd, Return, Kill, Retry, vars, inputs

LEMMA GrubCmdsTypes ==
    ASSUME bios \in BOOLEAN
    PROVE  /\ grubCmds \in Seq(Commands)
           /\ \A i \in DOMAIN grubCmds : grubCmds[i].cmd # "mount"
           /\ \A i \in DOMAIN grubCmds : grubCmds[i].cmd = "update-grub" =>
                \E j \in DOMAIN grubCmds : j < i /\ grubCmds[j].cmd = "divert"
<1> DEFINE again == IF bios THEN <<Cmd("grub-install")>> ELSE <<>>
           installs == <<Cmd("grub-install")>> \o again
           last == <<Cmd("divert"), Cmd("update-grub")>>
<1>1. /\ <<Cmd("grub-install")>> \in Seq(Commands) /\ again \in Seq(Commands)
      /\ \A i \in DOMAIN again : again[i].cmd = "grub-install"
      /\ \A i \in DOMAIN <<Cmd("grub-install")>> :
           <<Cmd("grub-install")>>[i].cmd = "grub-install"
  BY CommandTypes DEF Cmd
<1>2. /\ installs \in Seq(Commands)
      /\ \A i \in DOMAIN installs : installs[i].cmd = "grub-install"
  <2> HIDE DEF again
  <2>1. QED
    BY <1>1, ConcatFacts
<1>3. /\ last \in Seq(Commands) /\ DOMAIN last = 1..2 /\ Len(last) = 2
      /\ last[1].cmd = "divert" /\ last[2].cmd = "update-grub"
  BY CommandTypes DEF Cmd
<1>4. grubCmds = installs \o last
  BY DEF grubCmds
<1> HIDE DEF installs, last
<1>5. /\ grubCmds \in Seq(Commands) /\ Len(installs) \in Nat
      /\ DOMAIN installs = 1..Len(installs)
      /\ DOMAIN grubCmds = 1..(Len(installs) + 2)
      /\ \A i \in 1..Len(installs) : grubCmds[i] = installs[i]
      /\ grubCmds[Len(installs) + 1] = last[1] /\ grubCmds[Len(installs) + 2] = last[2]
  <2>1. 1 \in 1..Len(last) /\ 2 \in 1..Len(last)
    BY <1>3
  <2>0. installs \in Seq(Commands) /\ last \in Seq(Commands) /\ grubCmds = installs \o last
    BY <1>2, <1>3, <1>4
  <2>2. /\ grubCmds \in Seq(Commands) /\ Len(installs) \in Nat
        /\ DOMAIN installs = 1..Len(installs)
        /\ DOMAIN grubCmds = 1..(Len(installs) + Len(last))
        /\ \A i \in 1..Len(installs) : grubCmds[i] = installs[i]
        /\ \A i \in 1..Len(last) : grubCmds[Len(installs) + i] = last[i]
    BY <2>0, ConcatFacts
  <2>3. QED
    BY <1>3, <2>1, <2>2
<1>6. \A i \in DOMAIN grubCmds : \/ i \in 1..Len(installs)
                               \/ i = Len(installs) + 1
                               \/ i = Len(installs) + 2
  BY <1>5
<1>7. /\ Len(installs) + 1 \in DOMAIN grubCmds
      /\ Len(installs) + 1 < Len(installs) + 2
  BY <1>5
<1>8. \A i \in DOMAIN grubCmds : grubCmds[i].cmd \in {"grub-install", "divert", "update-grub"}
  BY <1>2, <1>3, <1>5, <1>6
<1>9. \A i \in DOMAIN grubCmds : grubCmds[i].cmd = "update-grub" => i = Len(installs) + 2
  BY <1>2, <1>3, <1>5, <1>6
<1>10. QED
  BY <1>3, <1>5, <1>7, <1>8, <1>9

\* The commands of setupGrub: whatever is mounted is in the image, and update-grub
\* comes after the diversion of os-prober.
setupGrubCmds == mountCmds \o (IF series = "jammy" THEN <<Cmd("udev")>> ELSE <<>>) \o grubCmds

LEMMA SetupTypes ==
    ASSUME bios \in BOOLEAN
    PROVE  /\ setupGrubCmds \in Seq(Commands)
           /\ \A i \in DOMAIN setupGrubCmds :
                setupGrubCmds[i].cmd = "mount" => setupGrubCmds[i].at \in Inner
           /\ \A i \in DOMAIN setupGrubCmds : setupGrubCmds[i].cmd = "update-grub" =>
                \E j \in DOMAIN setupGrubCmds : j < i /\ setupGrubCmds[j].cmd = "divert"
<1> DEFINE udev == IF series = "jammy" THEN <<Cmd("udev")>> ELSE <<>>
           first == mountCmds \o udev
<1>1. /\ udev \in Seq(Commands)
      /\ \A i \in DOMAIN udev : udev[i].cmd = "udev"
  BY CommandTypes DEF Cmd
<1>2. /\ first \in Seq(Commands)
      /\ \A i \in DOMAIN first :
           /\ first[i].cmd \in {"mount", "udev"}
           /\ first[i].cmd = "mount" => first[i].at \in Inner
  <2> HIDE DEF udev
  <2>1. QED
    BY <1>1, MountCmdsTypes, ConcatFacts
<1>3. setupGrubCmds = first \o grubCmds
  BY DEF setupGrubCmds
<1>4. QED
  <2> HIDE DEF first
  <2>1. /\ setupGrubCmds \in Seq(Commands)
        /\ DOMAIN setupGrubCmds = 1..(Len(first) + Len(grubCmds))
        /\ Len(first) \in Nat /\ Len(grubCmds) \in Nat
        /\ DOMAIN first = 1..Len(first) /\ DOMAIN grubCmds = 1..Len(grubCmds)
        /\ \A i \in 1..Len(first) : setupGrubCmds[i] = first[i]
        /\ \A i \in 1..Len(grubCmds) : setupGrubCmds[Len(first) + i] = grubCmds[i]
        /\ \A i \in DOMAIN setupGrubCmds : i \notin 1..Len(first) =>
             /\ i - Len(first) \in 1..Len(grubCmds)
             /\ setupGrubCmds[i] = grubCmds[i - Len(first)]
    BY <1>2, <1>3, GrubCmdsTypes, ConcatFacts
  <2>2. ASSUME NEW i \in DOMAIN setupGrubCmds, setupGrubCmds[i].cmd = "update-grub"
        PROVE  \E j \in DOMAIN setupGrubCmds : j < i /\ setupGrubCmds[j].cmd = "divert"
    <3>1. i \notin 1..Len(first)
      BY <1>2, <2>1, <2>2
    <3>2. i - Len(first) \in DOMAIN grubCmds /\ grubCmds[i - Len(first)].cmd = "update-grub"
      BY <2>1, <2>2, <3>1
    <3>3. PICK j \in DOMAIN grubCmds : j < i - Len(first) /\ grubCmds[j].cmd = "divert"
      BY <3>2, GrubCmdsTypes
    <3>4. Len(first) + j \in DOMAIN setupGrubCmds /\ Len(first) + j < i
      BY <2>1, <3>2, <3>3
    <3>5. setupGrubCmds[Len(first) + j].cmd = "divert"
      BY <2>1, <3>3
    <3>6. QED
      BY <3>4, <3>5
  <2>3. QED
    BY <1>2, <2>1, <2>2, GrubCmdsTypes

LEMMA PrepareTypes ==
    ASSUME Prepare, Lists
    PROVE  setup' \in Seq(Commands) /\ teardown' \in Seq(Commands)
<1>1. <<Cmd("settle"), MountCmd("root"), MountCmd("boot")>> \in Seq(Commands)
  BY CommandTypes
<1>2. <<Cmd("settle"), MountCmd("root")>> \in Seq(Commands)
  BY CommandTypes
<1>3. prepareTeardown \in Seq(Commands)
  BY CommandTypes DEF prepareTeardown
<1>4. prepareTeardown \o teardown \in Seq(Commands)
  BY <1>3 DEF Lists
<1>5. QED
  BY <1>1, <1>2, <1>4 DEF Prepare

LEMMA ListsStep == ASSUME Inputs, Lists, [Next]_vars PROVE Lists'
<1> USE DEF Lists
<1>1. CASE AssociateLoopDevice
  <2>1. <<Cmd("detach")>> \in Seq(Commands)
    BY CommandTypes
  <2>2. QED
    BY <1>1, <2>1 DEF AssociateLoopDevice
<1>2. CASE Prepare
  BY <1>2, PrepareTypes
<1>3. CASE RunCmd
  BY <1>3, TailFacts DEF RunCmd
<1>4. CASE Backup \/ Finished \/ RestoreResolvConf
  <2>1. UNCHANGED <<setup, teardown>>
    BY <1>4 DEF Backup, Finished, RestoreResolvConf, control
  <2>2. QED
    BY <2>1
<1>5. CASE ListCommands
  <2>1. umountCmds \o teardown \in Seq(Commands)
    BY UmountCmdsTypes
  <2>2. <<Cmd("undivert")>> \o (umountCmds \o teardown) \in Seq(Commands)
    BY <2>1, CommandTypes
  <2>3. \/ teardown' = teardown
        \/ teardown' = umountCmds \o teardown
        \/ teardown' = <<Cmd("undivert")>> \o (umountCmds \o teardown)
    BY <1>5 DEF ListCommands, stack
  <2>4. setup' = setup \/ setup' = setupGrubCmds
    BY <1>5 DEF ListCommands, setupGrubCmds
  <2>5. QED
    BY <2>1, <2>2, <2>3, <2>4, SetupTypes DEF Inputs
<1>6. CASE TeardownCmd
  BY <1>6, TailFacts DEF TeardownCmd
<1>7. CASE Return \/ Kill \/ Retry \/ UNCHANGED vars
  <2>1. /\ setup' = setup \/ setup' = <<>>
        /\ teardown' = teardown \/ teardown' = <<>>
    BY <1>7 DEF Return, Kill, Retry, control, vars
  <2>2. <<>> \in Seq(Commands)
    OBVIOUS
  <2>3. QED
    BY <2>1, <2>2
<1>8. QED
  BY <1>1, <1>2, <1>3, <1>4, <1>5, <1>6, <1>7 DEF Next

LEMMA FlagsStep == ASSUME Flags, [Next]_vars PROVE Flags'
<1> USE DEF Flags
<1>1. CASE AssociateLoopDevice \/ Prepare \/ RunCmd \/ Backup
  BY <1>1 DEF AssociateLoopDevice, Prepare, RunCmd, Backup, runs
<1>2. CASE ListCommands \/ Finished \/ RestoreResolvConf \/ TeardownCmd
  BY <1>2 DEF ListCommands, Finished, RestoreResolvConf, TeardownCmd
<1>3. CASE Return \/ Kill \/ Retry \/ UNCHANGED vars
  BY <1>3 DEF Return, Kill, Retry, vars
<1>4. QED
  BY <1>1, <1>2, <1>3 DEF Next

LEMMA ImageStep == ASSUME Inputs, ImageTypes, [Next]_vars PROVE ImageTypes'
<1> USE DEF ImageTypes
<1>1. CASE AssociateLoopDevice \/ Prepare \/ RunCmd \/ Backup
  BY <1>1 DEF AssociateLoopDevice, Prepare, RunCmd, Backup, runs, image
<1>2. CASE ListCommands \/ Finished \/ RestoreResolvConf \/ TeardownCmd
  BY <1>2 DEF ListCommands, Finished, RestoreResolvConf, TeardownCmd, undoes, image
<1>3. CASE Return \/ Kill \/ Retry \/ UNCHANGED vars
  BY <1>3 DEF Return, Kill, Retry, vars, image, Inputs
<1>4. QED
  BY <1>1, <1>2, <1>3 DEF Next

LEMMA TypesInvariant == Spec => []Types
<1>1. ASSUME Init PROVE Types
  <2>1. setup \in Seq(Commands) /\ teardown \in Seq(Commands) /\ faults \in Seq(Faults)
    BY <1>1 DEF Init
  <2>2. Control /\ Inputs /\ Lists /\ Flags
    BY <1>1, <2>1, GrubAssumptions DEF Init, Control, Inputs, Lists, Flags
  <2>3. FaultsOK
    BY <1>1, <2>1, GrubAssumptions DEF Init, FaultsOK
  <2>4. ImageTypes
    BY <1>1, GrubAssumptions DEF Init, ImageTypes
  <2>5. QED
    BY <2>2, <2>3, <2>4 DEF Types
<1>2. Types /\ [Next]_vars => Types'
  BY ControlStep, InputsStep, ListsStep, FlagsStep, FaultsGrow, ImageStep DEF Types
<1>3. QED
  BY <1>1, <1>2, PTL DEF Spec

-----------------------------------------------------------------------------
(***************************************************************************)
(* os-prober is diverted before update-grub runs.                          *)
(***************************************************************************)
Diverts ==
    \A i \in DOMAIN setup : setup[i].cmd = "update-grub" =>
      prober = "diverted" \/ \E j \in DOMAIN setup : j < i /\ setup[j].cmd = "divert"

ScanInv == ~scanned /\ (pc \in {"preparing", "running"} => Diverts)

LEMMA ScanTail ==
    ASSUME Lists, setup # <<>>, Diverts, Head(setup).cmd # "divert"
    PROVE  /\ Head(setup).cmd = "update-grub" => prober = "diverted"
           /\ \A i \in DOMAIN Tail(setup) : Tail(setup)[i].cmd = "update-grub" =>
                \/ prober = "diverted"
                \/ \E j \in DOMAIN Tail(setup) : j < i /\ Tail(setup)[j].cmd = "divert"
<1>1. /\ Head(setup) = setup[1] /\ Len(setup) \in Nat /\ Len(setup) > 0
      /\ DOMAIN setup = 1..Len(setup) /\ DOMAIN Tail(setup) = 1..(Len(setup) - 1)
      /\ \A i \in DOMAIN Tail(setup) : Tail(setup)[i] = setup[i + 1]
  BY TailFacts DEF Lists
<1>2. ASSUME NEW i \in DOMAIN Tail(setup), Tail(setup)[i].cmd = "update-grub",
             prober # "diverted"
      PROVE  \E j \in DOMAIN Tail(setup) : j < i /\ Tail(setup)[j].cmd = "divert"
  <2>1. i + 1 \in DOMAIN setup /\ setup[i + 1].cmd = "update-grub"
    BY <1>1, <1>2
  <2>2. PICK j \in DOMAIN setup : j < i + 1 /\ setup[j].cmd = "divert"
    BY <1>2, <2>1 DEF Diverts
  <2>3. j # 1
    BY <1>1, <2>2
  <2>4. j - 1 \in DOMAIN Tail(setup) /\ j - 1 < i /\ Tail(setup)[j - 1] = setup[j]
    BY <1>1, <1>2, <2>2, <2>3
  <2>5. QED
    BY <2>2, <2>4
<1>3. ASSUME Head(setup).cmd = "update-grub" PROVE prober = "diverted"
  BY <1>1, <1>3 DEF Diverts
<1>4. QED
  BY <1>2, <1>3

LEMMA ScanStep == ASSUME Types, ScanInv, [Next]_vars PROVE ScanInv'
<1> USE DEF ScanInv
<1>1. CASE AssociateLoopDevice \/ Backup \/ Finished \/ RestoreResolvConf \/ TeardownCmd
  BY <1>1 DEF AssociateLoopDevice, Backup, Finished, RestoreResolvConf, TeardownCmd,
     Types, Control
<1>2. CASE Prepare
  <2>1. \A i \in DOMAIN setup' : setup'[i].cmd \in {"settle", "mount"}
    BY <1>2 DEF Prepare, Cmd, MountCmd
  <2>2. QED
    BY <1>2, <2>1 DEF Prepare, Diverts
<1>3. CASE RunCmd
  <2>1. Diverts
    BY <1>3 DEF RunCmd
  <2>2. CASE pc' = afterError /\ scanned' = scanned
    BY <2>2 DEF afterError
  <2>3. CASE /\ setup # <<>> /\ setup' = Tail(setup) /\ Head(setup).cmd = "divert"
             /\ prober' = "diverted" /\ ~scanned'
    BY <2>3 DEF Diverts
  <2>4. CASE /\ setup # <<>> /\ setup' = Tail(setup) /\ Head(setup).cmd # "divert"
             /\ prober' = prober
             /\ scanned' = (scanned \/ (Head(setup).cmd = "update-grub" /\ prober = "real"))
    BY <2>1, <2>4, ScanTail DEF Diverts, Types
  <2>5. QED
    BY <1>3, <2>2, <2>3, <2>4 DEF RunCmd, runs
<1>4. CASE ListCommands
  <2>1. scanned' = scanned /\ (pc' = "running" => setup' = setupGrubCmds)
        /\ pc' # "preparing"
    BY <1>4 DEF ListCommands, image, setupGrubCmds
  <2>2. QED
    BY <2>1, SetupTypes DEF Types, Inputs, Diverts
<1>6. CASE Return \/ Kill \/ Retry
  BY <1>6 DEF Return, Kill, Retry
<1>7. CASE UNCHANGED vars
  BY <1>7 DEF vars, control, image, Diverts
<1>8. QED
  BY <1>1, <1>2, <1>3, <1>4, <1>6, <1>7 DEF Next

\* update-grub never runs os-prober, whatever failed and in whatever state an
\* earlier process left the image.
THEOREM NotScannedCorrect == Spec => []HostNotScanned
<1>1. Init => ScanInv
  BY DEF Init, ScanInv
<1>2. ScanInv => HostNotScanned
  BY DEF ScanInv, HostNotScanned
<1>3. QED
  BY <1>1, <1>2, ScanStep, TypesInvariant, PTL DEF Spec

-----------------------------------------------------------------------------
(***************************************************************************)
(* The host.  What a process mounts is on top of what earlier ones left,   *)
(* and from the mount of the rootfs partition to the teardown it is there. *)
(***************************************************************************)
Mine == layers # <<>> /\ Top.device = attempt
Before(n) == \A i \in DOMAIN layers : i <= n => layers[i].device < attempt

\* The commands of prepareGrubMountDir that are left, before and after the mount
\* of the rootfs partition.
ToMount == {<<Cmd("settle"), MountCmd("root"), MountCmd("boot")>>,
            <<MountCmd("root"), MountCmd("boot")>>,
            <<Cmd("settle"), MountCmd("root")>>, <<MountCmd("root")>>}
Mounted == {<<MountCmd("boot")>>, <<>>}

HostInv ==
    /\ attempt \in 1..MaxFaults + 1 /\ attached \subseteq 1..attempt
    /\ layers \in Seq(Layers)
    /\ Before(Len(layers) - 1) /\ (layers # <<>> => Top.device <= attempt)
    /\ pc \in {"losetup", "prepare"} => ~Mine
    /\ pc = "losetup" => attempt \notin attached
    /\ pc = "preparing" => (setup \in ToMount /\ ~Mine) \/ (setup \in Mounted /\ Mine)
    /\ pc \in {"prepared", "running"} => Mine
    /\ pc = "running" =>
         \A i \in DOMAIN setup : setup[i].cmd = "mount" => setup[i].at \in Inner

LEMMA TopFacts ==
    ASSUME layers \in Seq(Layers), layers # <<>>
    PROVE  /\ Len(layers) \in Nat /\ Len(layers) > 0 /\ DOMAIN layers = 1..Len(layers)
           /\ Top \in Layers /\ Top = layers[Len(layers)]
  BY DEF Top

LEMMA OnTopFacts ==
    ASSUME layers \in Seq(Layers), layers # <<>>, NEW layer \in Layers,
           layers' = OnTop(layer)
    PROVE  /\ layers' \in Seq(Layers) /\ layers' # <<>> /\ Len(layers') = Len(layers)
           /\ Top' = layer
           /\ \A i \in 1..(Len(layers) - 1) : layers'[i] = layers[i]
  BY DEF OnTop, Top

LEMMA PoppedFacts ==
    ASSUME layers \in Seq(Layers), layers # <<>>,
           layers' = SubSeq(layers, 1, Len(layers) - 1)
    PROVE  /\ layers' \in Seq(Layers) /\ Len(layers') = Len(layers) - 1
           /\ DOMAIN layers' = 1..(Len(layers) - 1)
           /\ \A i \in DOMAIN layers' : layers'[i] = layers[i]
<1>1. /\ layers' = [i \in 1..(Len(layers) - 1) |-> layers[i]]
      /\ Len(layers) - 1 \in Nat
      /\ \A i \in 1..(Len(layers) - 1) : layers[i] \in Layers
  OBVIOUS
<1>2. ASSUME NEW n \in Nat, layers' = [i \in 1..n |-> layers[i]],
             \A i \in 1..n : layers[i] \in Layers
      PROVE  /\ layers' \in Seq(Layers) /\ Len(layers') = n /\ DOMAIN layers' = 1..n
             /\ \A i \in DOMAIN layers' : layers'[i] = layers[i]
  BY <1>2
<1>3. QED
  BY <1>1, <1>2

\* A change of what is mounted in the top layer leaves the rest as it is.
LEMMA ChangedTop ==
    ASSUME HostInv, layers # <<>>, NEW layer \in Layers, layer.device = Top.device,
           layers' = OnTop(layer), UNCHANGED attempt
    PROVE  /\ layers' \in Seq(Layers) /\ layers' # <<>> /\ Top' = layer /\ Mine' = Mine
           /\ Before(Len(layers) - 1)' /\ Top'.device <= attempt'
<1>1. /\ layers' \in Seq(Layers) /\ layers' # <<>> /\ Len(layers') = Len(layers)
      /\ Top' = layer
      /\ \A i \in 1..(Len(layers) - 1) : layers'[i] = layers[i]
  BY OnTopFacts DEF HostInv
<1>2. DOMAIN layers' = 1..Len(layers) /\ DOMAIN layers = 1..Len(layers)
      /\ Len(layers) \in Nat
  BY <1>1 DEF HostInv
<1>3. Before(Len(layers) - 1)'
  BY <1>1, <1>2 DEF Before, HostInv
<1>4. QED
  BY <1>1, <1>3 DEF Mine, HostInv

LEMMA Changed ==
    ASSUME NEW layer \in Layers
    PROVE  /\ [layer EXCEPT !.boot = TRUE] \in Layers
           /\ [layer EXCEPT !.boot = TRUE].device = layer.device
           /\ [layer EXCEPT !.boot = FALSE] \in Layers
           /\ [layer EXCEPT !.boot = FALSE].device = layer.device
           /\ [layer EXCEPT !.other = TRUE] \in Layers
           /\ [layer EXCEPT !.other = TRUE].device = layer.device
           /\ \A m \in Inner : /\ [layer EXCEPT !.inner = @ \cup {m}] \in Layers
                               /\ [layer EXCEPT !.inner = @ \cup {m}].device = layer.device
           /\ \A T : /\ [layer EXCEPT !.inner = @ \ T] \in Layers
                     /\ [layer EXCEPT !.inner = @ \ T].device = layer.device
  BY DEF Layers

LEMMA NewLayer ==
    ASSUME HostInv, ~Mine, layers' = Append(layers, Layer), UNCHANGED attempt
    PROVE  /\ layers' \in Seq(Layers) /\ layers' # <<>> /\ Top' = Layer /\ Mine'
           /\ Before(Len(layers) - 1)' /\ Top'.device <= attempt'
<1>1. Layer \in Layers /\ Layer.device = attempt /\ attempt \in Nat
  BY MountPointFacts DEF Layer, Layers, HostInv
<1>2. /\ layers' \in Seq(Layers) /\ Len(layers') = Len(layers) + 1 /\ Len(layers) \in Nat
      /\ DOMAIN layers = 1..Len(layers) /\ DOMAIN layers' = 1..(Len(layers) + 1)
      /\ layers'[Len(layers) + 1] = Layer
      /\ \A i \in 1..Len(layers) : layers'[i] = layers[i]
  BY <1>1 DEF HostInv
<1>3. Top' = Layer
  BY <1>2 DEF Top
<1>4. \A i \in 1..Len(layers) : layers[i].device < attempt
  <2>1. SUFFICES ASSUME NEW i \in 1..Len(layers) PROVE layers[i].device < attempt
    OBVIOUS
  <2>2. layers # <<>> /\ Top \in Layers /\ Top = layers[Len(layers)]
    BY <1>2, <2>1, TopFacts DEF HostInv
  <2>3. CASE i = Len(layers)
    BY <1>1, <2>2, <2>3 DEF Mine, HostInv, Layers
  <2>4. CASE i # Len(layers)
    <3>1. Len(layers) \in Nat /\ DOMAIN layers = 1..Len(layers)
      BY <1>2
    <3>2. i \in DOMAIN layers /\ i <= Len(layers) - 1
      <4> DEFINE n == Len(layers)
      <4>1. n \in Nat /\ DOMAIN layers = 1..n /\ i \in 1..n /\ i # n
        BY <3>1, <2>1, <2>4
      <4> HIDE DEF n
      <4>2. i \in DOMAIN layers /\ i <= n - 1
        BY <4>1
      <4>3. QED
        BY <4>2 DEF n
    <3>3. QED
      BY <3>2 DEF HostInv, Before
  <2>5. QED
    BY <2>3, <2>4
<1>5. Before(Len(layers) - 1)'
  BY <1>2, <1>4 DEF Before
<1>6. QED
  BY <1>1, <1>2, <1>3, <1>5 DEF Mine

LEMMA RunsInRunning ==
    ASSUME Types, HostInv, RunCmd, pc = "running"
    PROVE  HostInv'
<1>1. /\ setup # <<>> /\ UNCHANGED <<attempt, attached>> /\ pc' \in {"running", "restore", "teardown"}
      /\ layers # <<>> /\ Top \in Layers /\ Mine /\ Inner = Inner
  BY TopFacts DEF RunCmd, afterError, HostInv, Mine
<1>2. \A i \in DOMAIN Tail(setup) : Tail(setup)[i].cmd = "mount" => Tail(setup)[i].at \in Inner
  <2>1. SUFFICES ASSUME NEW i \in DOMAIN Tail(setup), Tail(setup)[i].cmd = "mount"
                 PROVE  Tail(setup)[i].at \in Inner
    OBVIOUS
  <2>2. i + 1 \in DOMAIN setup /\ Tail(setup)[i] = setup[i + 1]
    BY <1>1, <2>1, TailFacts DEF Types, Lists
  <2>3. QED
    BY <1>1, <2>1, <2>2 DEF HostInv
<1>3. setup' = setup \/ setup' = Tail(setup)
  BY DEF RunCmd
<1>4. Head(setup) \in Commands /\ (Head(setup).cmd = "mount" => Head(setup).at \in Inner)
  BY <1>1, TailFacts DEF HostInv, Types, Lists
<1>5. /\ layers' \in Seq(Layers) /\ Mine'
      /\ Before(Len(layers) - 1)' /\ Top'.device <= attempt'
  <2>1. CASE layers' = layers
    BY <1>1, <2>1 DEF HostInv, Mine, Before, Top
  <2>2. CASE layers' = OnTop([Top EXCEPT !.other = TRUE])
    BY <1>1, <2>2, Changed, ChangedTop
  <2>3. CASE Head(setup).cmd = "mount" /\ runs(Head(setup))
    <3>1. Head(setup).at \in Inner /\ Head(setup).at \notin {"root", "boot"}
      BY <1>4, <2>3, MountPointFacts
    <3>2. layers' = OnTop([Top EXCEPT !.inner = @ \cup {Head(setup).at}])
      BY <2>3, <3>1 DEF runs
    <3>3. QED
      BY <1>1, <3>1, <3>2, Changed, ChangedTop
  <2>4. CASE Head(setup).cmd # "mount" /\ runs(Head(setup))
    <3>1. layers' = layers
      BY <2>4 DEF runs
    <3>2. QED
      BY <2>1, <3>1
  <2>5. QED
    BY <2>1, <2>2, <2>3, <2>4 DEF RunCmd
<1>6. QED
  BY <1>1, <1>2, <1>3, <1>5 DEF HostInv

LEMMA ShortLists ==
    ASSUME NEW a, NEW b, NEW c
    PROVE  /\ Head(<<a>>) = a /\ Head(<<a, b>>) = a /\ Head(<<a, b, c>>) = a
           /\ Tail(<<a>>) = <<>> /\ Tail(<<a, b>>) = <<b>>
           /\ Tail(<<a, b, c>>) = <<b, c>>
  OBVIOUS

LEMMA Distinct ==
    /\ Cmd("settle") # MountCmd("root") /\ Cmd("settle") # MountCmd("boot")
    /\ MountCmd("root") # MountCmd("boot")
  BY DEF Cmd, MountCmd

\* What is left of the commands of prepareGrubMountDir after one of them.
LEMMA ToMountTails ==
    ASSUME setup \in ToMount \cup Mounted, setup # <<>>
    PROVE  /\ Head(setup) \in {Cmd("settle"), MountCmd("root"), MountCmd("boot")}
           /\ Head(setup) = Cmd("settle") => setup \in ToMount /\ Tail(setup) \in ToMount
           /\ Head(setup) = MountCmd("root") => setup \in ToMount /\ Tail(setup) \in Mounted
           /\ Head(setup) = MountCmd("boot") => setup \in Mounted /\ Tail(setup) \in Mounted
           /\ setup \notin ToMount \cap Mounted
<1> DEFINE s == Cmd("settle")
           r == MountCmd("root")
           b == MountCmd("boot")
<1>1. s # r /\ s # b /\ r # b
  BY Distinct
<1> HIDE DEF s, r, b
<1>2. /\ ToMount = {<<s, r, b>>, <<r, b>>, <<s, r>>, <<r>>}
      /\ Mounted = {<<b>>, <<>>}
  BY DEF ToMount, Mounted, s, r, b
<1>3. CASE setup = <<s, r, b>>
  BY <1>1, <1>2, <1>3, ShortLists DEF s, r, b
<1>4. CASE setup = <<r, b>>
  BY <1>1, <1>2, <1>4, ShortLists DEF s, r, b
<1>5. CASE setup = <<s, r>>
  BY <1>1, <1>2, <1>5, ShortLists DEF s, r, b
<1>6. CASE setup = <<r>>
  BY <1>1, <1>2, <1>6, ShortLists DEF s, r, b
<1>7. CASE setup = <<b>>
  BY <1>1, <1>2, <1>7, ShortLists DEF s, r, b
<1>8. QED
  BY <1>2, <1>3, <1>4, <1>5, <1>6, <1>7

LEMMA RunsInPreparing ==
    ASSUME Types, HostInv, RunCmd, pc = "preparing"
    PROVE  HostInv'
<1>1. /\ setup # <<>> /\ UNCHANGED <<attempt, attached>>
      /\ pc' \in {"preparing", "restore", "teardown"}
  BY DEF RunCmd, afterError
<1>2. /\ setup \in ToMount \cup Mounted
      /\ Head(setup) \in {Cmd("settle"), MountCmd("root"), MountCmd("boot")}
  BY <1>1, ToMountTails DEF HostInv
<1>3. Head(setup).cmd \notin {"udev", "grub-install", "update-grub"}
  BY <1>2 DEF Cmd, MountCmd
<1>4. CASE pc' # "preparing" /\ layers' = layers
  BY <1>1, <1>4 DEF HostInv, Mine, Before, Top
<1>5. CASE runs(Head(setup)) /\ setup' = Tail(setup) /\ pc' = pc
  <2>1. CASE Head(setup) = Cmd("settle")
    <3>1. setup \in ToMount /\ ~Mine
      BY <1>1, <1>2, <2>1, ToMountTails DEF HostInv
    <3>2. setup' \in ToMount
      BY <1>1, <1>2, <1>5, <2>1, ToMountTails
    <3>3. layers' = layers
      BY <1>5, <2>1 DEF runs, Cmd
    <3>4. QED
      BY <1>1, <1>5, <3>1, <3>2, <3>3 DEF HostInv, Mine, Before, Top
  <2>2. CASE Head(setup) = MountCmd("root")
    <3>1. setup \in ToMount /\ ~Mine
      BY <1>1, <1>2, <2>2, ToMountTails DEF HostInv
    <3>2. setup' \in Mounted
      BY <1>1, <1>2, <1>5, <2>2, ToMountTails
    <3>3. layers' = Append(layers, Layer)
      BY <1>5, <2>2, MountPointFacts DEF runs, MountCmd
    <3>4. /\ layers' \in Seq(Layers) /\ Mine'
          /\ Before(Len(layers) - 1)' /\ Top'.device <= attempt'
      BY <1>1, <3>1, <3>3, NewLayer
    <3>5. QED
      BY <1>1, <1>5, <3>2, <3>4 DEF HostInv
  <2>3. CASE Head(setup) = MountCmd("boot")
    <3>1. setup \in Mounted /\ Mine
      BY <1>1, <1>2, <2>3, ToMountTails DEF HostInv
    <3>2. setup' \in Mounted
      BY <1>1, <1>2, <1>5, <2>3, ToMountTails
    <3>3. layers' = OnTop([Top EXCEPT !.boot = TRUE])
      BY <1>5, <2>3, MountPointFacts DEF runs, MountCmd
    <3>4. layers # <<>> /\ Top \in Layers
      BY <3>1, TopFacts DEF Mine, HostInv
    <3>5. /\ layers' \in Seq(Layers) /\ Mine'
          /\ Before(Len(layers) - 1)' /\ Top'.device <= attempt'
      BY <1>1, <3>1, <3>3, <3>4, Changed, ChangedTop
    <3>6. QED
      BY <1>1, <1>5, <3>2, <3>5 DEF HostInv
  <2>4. QED
    BY <1>2, <2>1, <2>2, <2>3
<1>6. QED
  BY <1>3, <1>4, <1>5 DEF RunCmd, afterError, Types, Control

LEMMA HostAfterUmount ==
    ASSUME Types, HostInv, TeardownCmd
    PROVE  /\ layers' \in Seq(Layers)
           /\ Before(Len(layers) - 1)' /\ (layers' # <<>> => Top'.device <= attempt')
           /\ Mine' => Mine
<1>1. UNCHANGED attempt
  BY DEF TeardownCmd
<1>2. CASE layers' = layers
  BY <1>1, <1>2 DEF HostInv, Mine, Before, Top
<1>3. CASE layers # <<>> /\ layers' = SubSeq(layers, 1, Len(layers) - 1)
  <2>1. /\ layers' \in Seq(Layers) /\ Len(layers') = Len(layers) - 1
        /\ DOMAIN layers' = 1..(Len(layers) - 1) /\ Len(layers) \in Nat
        /\ \A i \in DOMAIN layers' : layers'[i] = layers[i]
        /\ DOMAIN layers = 1..Len(layers) /\ attempt \in Nat
    BY <1>3, PoppedFacts, MountPointFacts DEF HostInv
  <2>2. \A i \in DOMAIN layers' : layers'[i].device < attempt
    BY <2>1 DEF HostInv, Before
  <2>3. layers' # <<>> => Top'.device < attempt
    <3>1. SUFFICES ASSUME layers' # <<>> PROVE Top'.device < attempt
      OBVIOUS
    <3>2. Len(layers') \in DOMAIN layers' /\ Top' = layers'[Len(layers')]
      BY <2>1, <3>1 DEF Top
    <3>3. QED
      BY <2>2, <3>2
  <2>4. layers' # <<>> => Top'.device \in Nat /\ Top'.device # attempt /\ Top'.device <= attempt
    <3>1. SUFFICES ASSUME layers' # <<>> PROVE Top'.device \in Nat
      BY <2>1, <2>3
    <3>2. Len(layers') \in DOMAIN layers' /\ Top' = layers'[Len(layers')]
      BY <2>1, <3>1 DEF Top
    <3>3. QED
      <4>1. Top' \in Layers
        BY <2>1, <3>2
      <4>2. QED
        BY <4>1, MountPointFacts DEF Layers
  <2>5. QED
    BY <1>1, <2>1, <2>2, <2>4 DEF Before, Mine
<1>4. CASE \E layer \in Layers : layers # <<>> /\ layer.device = Top.device /\ layers' = OnTop(layer)
  BY <1>1, <1>4, ChangedTop
<1>5. CASE \E c \in Commands : possible(c) /\ undoes(c)
  <2>1. PICK c \in Commands : possible(c) /\ undoes(c)
    BY <1>5
  <2>2. CASE c.cmd = "umount" /\ c.at = "root"
    BY <2>1, <2>2, <1>3, MountPointFacts DEF possible, undoes
  <2>3. CASE c.cmd = "umount" /\ c.at = "boot"
    <3>1. layers # <<>> /\ layers' = OnTop([Top EXCEPT !.boot = FALSE])
      BY <2>1, <2>3, MountPointFacts DEF possible, undoes
    <3>2. QED
      BY <3>1, <1>4, Changed, TopFacts DEF HostInv
  <2>4. CASE c.cmd = "umount" /\ c.at \in Inner
    <3>1. layers # <<>> /\ layers' = OnTop([Top EXCEPT !.inner = @ \ Inside[c.at]])
      BY <2>1, <2>4, MountPointFacts DEF possible, undoes
    <3>2. QED
      BY <3>1, <1>4, Changed, TopFacts DEF HostInv
  <2>5. CASE ~(c.cmd = "umount" /\ c.at \in {"root", "boot"} \cup Inner)
    <3>1. layers' = layers
      BY <2>1, <2>5 DEF undoes
    <3>2. QED
      BY <3>1, <1>2
  <2>6. QED
    BY <2>2, <2>3, <2>4, <2>5
<1>6. QED
  BY <1>2, <1>5, TailFacts DEF TeardownCmd, host, Types, Lists

LEMMA HostStep == ASSUME Types, HostInv, [Next]_vars PROVE HostInv'
<1>1. CASE AssociateLoopDevice
  <2>1. /\ pc = "losetup" /\ UNCHANGED <<attempt, layers>> /\ pc' \in {"prepare", "teardown"}
        /\ attached' \in {attached, attached \cup {attempt}}
    BY <1>1 DEF AssociateLoopDevice
  <2>2. attempt \in 1..attempt
    BY DEF HostInv
  <2>3. QED
    BY <2>1, <2>2 DEF HostInv, Mine, Before, Top
<1>2. CASE Prepare
  <2>1. /\ pc = "prepare" /\ UNCHANGED <<attempt, layers, attached>> /\ pc' = "preparing"
        /\ setup' \in ToMount
    BY <1>2 DEF Prepare, ToMount, host
  <2>2. QED
    BY <2>1 DEF HostInv, Mine, Before, Top
<1>3. CASE RunCmd
  BY <1>3, RunsInRunning, RunsInPreparing DEF RunCmd
<1>4. CASE Backup
  <2>1. /\ pc = "preparing" /\ UNCHANGED <<attempt, layers, attached>> /\ setup = <<>>
        /\ pc' \in {"prepared", "teardown"}
    BY <1>4 DEF Backup, host
  <2>2. setup \notin ToMount
    BY <2>1 DEF ToMount
  <2>3. QED
    BY <2>1, <2>2 DEF HostInv, Mine, Before, Top
<1>5. CASE ListCommands
  <2>1. /\ pc = "prepared" /\ UNCHANGED <<attempt, layers, attached>>
        /\ pc' = "restore" \/ (pc' = "running" /\ setup' = setupGrubCmds)
    BY <1>5 DEF ListCommands, host, setupGrubCmds
  <2>2. QED
    BY <2>1, SetupTypes DEF HostInv, Mine, Before, Top, Types, Inputs
<1>6. CASE Finished \/ RestoreResolvConf \/ Return \/ Kill
  <2>1. /\ UNCHANGED <<attempt, layers, attached>>
        /\ pc' \notin {"losetup", "prepare", "preparing", "prepared", "running"}
    BY <1>6 DEF Finished, RestoreResolvConf, Return, Kill, host
  <2>2. QED
    BY <2>1 DEF HostInv, Mine, Before, Top
<1>7. CASE TeardownCmd
  <2>1. /\ pc' = "teardown" /\ UNCHANGED attempt /\ attached' \subseteq attached
    BY <1>7 DEF TeardownCmd, undoes, host
  <2>2. QED
    BY <1>7, <2>1, HostAfterUmount DEF HostInv
<1>8. CASE Retry
  <2>1. /\ attempt' = attempt + 1 /\ pc' = "losetup" /\ UNCHANGED <<layers, attached>>
        /\ attempt <= MaxFaults /\ attempt \in Nat /\ MaxFaults \in Nat
    BY <1>8, MountPointFacts DEF Retry, host, HostInv
  <2>2. attempt' \in 1..MaxFaults + 1 /\ attached' \subseteq 1..attempt' /\ attempt' \notin attached'
    BY <2>1 DEF HostInv
  <2>3. \A i \in DOMAIN layers : layers[i].device \in Nat
    <3>1. \A i \in DOMAIN layers : layers[i] \in Layers
      BY DEF HostInv
    <3>2. QED
      BY <3>1, MountPointFacts DEF Layers
  <2>4. Before(Len(layers) - 1)'
    BY <2>1, <2>3 DEF HostInv, Before
  <2>5. layers # <<>> => Top.device \in Nat
    BY <2>3, TopFacts DEF HostInv
  <2>6. (layers' # <<>> => Top'.device <= attempt') /\ ~Mine'
    BY <2>1, <2>5 DEF HostInv, Mine, Top
  <2>7. QED
    BY <2>1, <2>2, <2>4, <2>6 DEF HostInv
<1>9. CASE UNCHANGED vars
  BY <1>9 DEF vars, host, control, HostInv, Mine, Before, Top
<1>10. QED
  BY <1>1, <1>2, <1>3, <1>4, <1>5, <1>6, <1>7, <1>8, <1>9 DEF Next

LEMMA HostInvariant == Spec => [](Types /\ HostInv)
<1>1. Init => HostInv
  <2>1. <<>> \in Seq(Layers) /\ DOMAIN <<>> = {}
    OBVIOUS
  <2>2. QED
    BY <2>1, MountPointFacts DEF Init, HostInv, Before, Mine
<1>2. QED
  BY <1>1, HostStep, TypesInvariant, PTL DEF Spec

\* The types of the variables; commands to tear down are pending only in a
\* session, and resolv.conf is to be restored from the time it is backed up.
THEOREM TypeCorrect == Spec => []TypeOK
<1>1. Types /\ HostInv => TypeOK
  BY DEF Types, HostInv, TypeOK, Control, Inputs, Lists, Flags, FaultsOK, ImageTypes
<1>2. QED
  BY <1>1, HostInvariant, PTL

-----------------------------------------------------------------------------
(***************************************************************************)
(* What is to be torn down.  The loop device waits to be detached and the  *)
(* layer of this process to be unmounted, after all that is mounted in it, *)
(* unless something could not be released, which is an error.              *)
(***************************************************************************)
Waits(c) == \E i \in DOMAIN teardown : teardown[i] = c
WaitsBefore(c, r) == \E i \in DOMAIN teardown : i < r /\ teardown[i] = c

ReadyFor(boot, inner) ==
    \E r \in DOMAIN teardown :
      /\ teardown[r] = UmountCmd("root") /\ ~WaitsBefore(UmountCmd("root"), r)
      /\ boot => WaitsBefore(UmountCmd("boot"), r)
      /\ \A m \in inner : WaitsBefore(UmountCmd(m), r)

Excused == Range(faults) \cap {"release", "mounted"} # {}

ReleaseInv ==
    /\ /\ attempt \in attached
       /\ pc \in {"prepare", "preparing", "prepared", "running", "restore", "teardown"}
       => Waits(Cmd("detach")) \/ (err /\ Excused)
    /\ pc \in {"preparing", "prepared"} => ReadyFor(hasBoot, {}) /\ (Mine => Top.inner = {})
    /\ pc = "running" => ReadyFor(hasBoot, Inner)
    /\ pc \in {"preparing", "prepared", "running"} /\ Mine /\ Top.boot => hasBoot
    /\ pc = "preparing" => \A i \in DOMAIN setup : setup[i] = MountCmd("boot") => hasBoot
    /\ pc \in {"restore", "teardown"} /\ Mine
         => ReadyFor(Top.boot, Top.inner) \/ (err /\ Excused)
    /\ Mine /\ Top.other => "mounted" \in Range(faults)
    /\ pc = "done" \/ (pc = "failed" /\ ~Excused) => attempt \notin attached /\ ~Mine

LEMMA ReadyForLess ==
    ASSUME NEW b, NEW inner, NEW b2, NEW inner2, ReadyFor(b, inner),
           b2 => b, inner2 \subseteq inner
    PROVE  ReadyFor(b2, inner2)
  BY DEF ReadyFor, WaitsBefore

LEMMA WaitsTail ==
    ASSUME Lists, teardown # <<>>, teardown' = Tail(teardown),
           NEW c, Waits(c), c # Head(teardown)
    PROVE  Waits(c)'
<1>1. /\ Head(teardown) = teardown[1]
      /\ \A i \in DOMAIN teardown : i # 1 =>
           i - 1 \in DOMAIN teardown' /\ teardown'[i - 1] = teardown[i]
  BY TailFacts DEF Lists
<1>2. PICK i \in DOMAIN teardown : teardown[i] = c
  BY DEF Waits
<1>3. i - 1 \in DOMAIN teardown' /\ teardown'[i - 1] = c
  BY <1>1, <1>2
<1>4. QED
  BY <1>3 DEF Waits

LEMMA ReadyForTail ==
    ASSUME Lists, teardown # <<>>, teardown' = Tail(teardown), NEW b, NEW inner,
           ReadyFor(b, inner), Head(teardown) # UmountCmd("root"),
           NEW b2, NEW inner2, inner2 \subseteq inner,
           b2 => b /\ Head(teardown) # UmountCmd("boot"),
           \A m \in inner2 : Head(teardown) # UmountCmd(m)
    PROVE  ReadyFor(b2, inner2)'
<1>1. /\ Head(teardown) = teardown[1] /\ Len(teardown) \in Nat /\ Len(teardown) > 0
      /\ DOMAIN teardown = 1..Len(teardown) /\ DOMAIN teardown' = 1..(Len(teardown) - 1)
      /\ \A i \in DOMAIN teardown : i # 1 =>
           i - 1 \in DOMAIN teardown' /\ teardown'[i - 1] = teardown[i]
  BY TailFacts DEF Lists
<1>2. PICK r \in DOMAIN teardown :
        /\ teardown[r] = UmountCmd("root") /\ ~WaitsBefore(UmountCmd("root"), r)
        /\ b => WaitsBefore(UmountCmd("boot"), r)
        /\ \A m \in inner : WaitsBefore(UmountCmd(m), r)
  BY DEF ReadyFor
<1>3. r # 1 /\ r - 1 \in DOMAIN teardown' /\ teardown'[r - 1] = UmountCmd("root")
  BY <1>1, <1>2
<1>4. ASSUME NEW c, c # Head(teardown), WaitsBefore(c, r)
      PROVE  \E i \in DOMAIN teardown' : i < r - 1 /\ teardown'[i] = c
  <2>1. PICK i \in DOMAIN teardown : i < r /\ teardown[i] = c
    BY <1>4 DEF WaitsBefore
  <2>2. i # 1 /\ i - 1 \in DOMAIN teardown' /\ teardown'[i - 1] = c /\ i - 1 < r - 1
    BY <1>1, <1>2, <1>4, <2>1
  <2>3. QED
    BY <2>2
<1>5. b2 => \E i \in DOMAIN teardown' : i < r - 1 /\ teardown'[i] = UmountCmd("boot")
  BY <1>2, <1>4
<1>6. \A m \in inner2 : \E i \in DOMAIN teardown' : i < r - 1 /\ teardown'[i] = UmountCmd(m)
  BY <1>2, <1>4
<1>8. ASSUME NEW i \in DOMAIN teardown', i < r - 1 PROVE teardown'[i] # UmountCmd("root")
  <2>1. i + 1 \in DOMAIN teardown /\ i + 1 < r /\ teardown'[i] = teardown[i + 1]
    BY <1>1, <1>2, <1>8, TailFacts DEF Lists
  <2>2. QED
    BY <1>2, <2>1 DEF WaitsBefore
<1>7. QED
  BY <1>3, <1>5, <1>6, <1>8 DEF ReadyFor, WaitsBefore

\* Commands put before those that wait.
LEMMA Stacked ==
    ASSUME Lists, NEW s \in Seq(Commands), teardown' = s \o teardown, NEW b, NEW inner,
           \A m \in inner : \E i \in DOMAIN s : s[i] = UmountCmd(m),
           \A i \in DOMAIN s : s[i] # UmountCmd("root")
    PROVE  /\ \A c : Waits(c) => Waits(c)'
           /\ ReadyFor(b, {}) => ReadyFor(b, inner)'
<1>1. /\ DOMAIN s = 1..Len(s) /\ DOMAIN teardown = 1..Len(teardown)
      /\ Len(s) \in Nat /\ Len(teardown) \in Nat
      /\ DOMAIN teardown' = 1..(Len(s) + Len(teardown))
      /\ \A i \in 1..Len(s) : teardown'[i] = s[i]
      /\ \A i \in 1..Len(teardown) : teardown'[Len(s) + i] = teardown[i]
  BY ConcatFacts DEF Lists
<1>2. \A i \in DOMAIN teardown : Len(s) + i \in DOMAIN teardown'
  BY <1>1
<1>3. \A c : Waits(c) => Waits(c)'
  BY <1>1, <1>2 DEF Waits
<1>4. ASSUME ReadyFor(b, {}) PROVE ReadyFor(b, inner)'
  <2>1. PICK r \in DOMAIN teardown :
          /\ teardown[r] = UmountCmd("root")
          /\ \A i \in DOMAIN teardown : i < r => teardown[i] # UmountCmd("root")
          /\ b => \E i \in DOMAIN teardown : i < r /\ teardown[i] = UmountCmd("boot")
    BY <1>4 DEF ReadyFor, WaitsBefore
  <2>2. Len(s) + r \in DOMAIN teardown' /\ teardown'[Len(s) + r] = UmountCmd("root")
    BY <1>1, <2>1
  <2>3. b => \E i \in DOMAIN teardown' : i < Len(s) + r /\ teardown'[i] = UmountCmd("boot")
    <3>1. SUFFICES ASSUME b
                   PROVE  \E i \in DOMAIN teardown' : i < Len(s) + r /\ teardown'[i] = UmountCmd("boot")
      OBVIOUS
    <3>2. PICK i \in DOMAIN teardown : i < r /\ teardown[i] = UmountCmd("boot")
      BY <2>1, <3>1
    <3>3. /\ Len(s) + i \in DOMAIN teardown' /\ Len(s) + i < Len(s) + r
          /\ teardown'[Len(s) + i] = UmountCmd("boot")
      BY <1>1, <2>1, <3>2
    <3>4. QED
      BY <3>3
  <2>4. \A m \in inner : \E i \in DOMAIN teardown' :
          i < Len(s) + r /\ teardown'[i] = UmountCmd(m)
    <3>1. SUFFICES ASSUME NEW m \in inner
                   PROVE  \E i \in DOMAIN teardown' : i < Len(s) + r /\ teardown'[i] = UmountCmd(m)
      OBVIOUS
    <3>2. PICK i \in DOMAIN s : s[i] = UmountCmd(m)
      OBVIOUS
    <3>3. i \in DOMAIN teardown' /\ i < Len(s) + r /\ teardown'[i] = UmountCmd(m)
      BY <1>1, <2>1, <3>2
    <3>4. QED
      BY <3>3
  <2>5. ASSUME NEW i \in DOMAIN teardown', i < Len(s) + r
        PROVE  teardown'[i] # UmountCmd("root")
    <3>1. CASE i \in 1..Len(s)
      BY <1>1, <3>1
    <3>2. CASE i \notin 1..Len(s)
      <4>1. i - Len(s) \in DOMAIN teardown /\ i - Len(s) < r
        BY <1>1, <2>1, <2>5, <3>2
      <4>2. teardown'[i] = teardown[i - Len(s)]
        BY <1>1, <2>5, <4>1
      <4>3. QED
        BY <2>1, <4>1, <4>2
    <3>3. QED
      BY <3>1, <3>2
  <2>6. QED
    BY <2>2, <2>3, <2>4, <2>5 DEF ReadyFor, WaitsBefore
<1>5. QED
  BY <1>3, <1>4

\* When the rootfs partition is the next to be unmounted, nothing is in it that
\* is known.
LEMMA RootIsNext ==
    ASSUME Lists, teardown # <<>>, NEW b, NEW inner, ReadyFor(b, inner),
           Head(teardown) = UmountCmd("root")
    PROVE  ~b /\ inner = {}
<1>1. PICK r \in DOMAIN teardown :
        /\ ~WaitsBefore(UmountCmd("root"), r)
        /\ b => WaitsBefore(UmountCmd("boot"), r)
        /\ \A m \in inner : WaitsBefore(UmountCmd(m), r)
  BY DEF ReadyFor
<1>2. /\ DOMAIN teardown = 1..Len(teardown) /\ Len(teardown) \in Nat
      /\ 1 \in DOMAIN teardown /\ teardown[1] = UmountCmd("root")
  BY TailFacts DEF Lists
<1>3. r = 1
  BY <1>1, <1>2 DEF WaitsBefore
<1>4. \A c : ~WaitsBefore(c, r)
  BY <1>2, <1>3 DEF WaitsBefore
<1>5. QED
  BY <1>1, <1>4

LEMMA ReleaseRunCmd ==
    ASSUME Types, HostInv, HostInv', ReleaseInv, RunCmd PROVE ReleaseInv'
<1> USE DEF ReleaseInv
<1>1. /\ setup # <<>> /\ UNCHANGED <<attempt, attached, teardown, hasBoot>>
      /\ Excused => Excused'
      /\ pc \in {"preparing", "running"}
  BY FaultsGrow DEF RunCmd, inputs, Types, Excused, Next
<1>2. CASE Fault("setup") /\ pc' = afterError /\ err' = TRUE /\ UNCHANGED <<setup, layers>>
  <2>1. Mine' = Mine /\ Top' = Top
    BY <1>1, <1>2 DEF Mine, Top
  <2>2. pc' \in {"restore", "teardown"}
    BY <1>2 DEF afterError
  <2>3. Mine => ReadyFor(Top.boot, Top.inner)'
    <3>1. CASE pc = "preparing"
      <4>1. Mine => ReadyFor(Top.boot, Top.inner)
        BY <1>1, <3>1, ReadyForLess
      <4>2. QED
        BY <1>1, <2>1, <4>1 DEF ReadyFor, WaitsBefore
    <3>2. CASE pc = "running"
      <4>1. Mine => Top.inner \subseteq Inner
        BY TopFacts DEF Mine, HostInv, Layers
      <4>2. QED
        <5>1. Mine => ReadyFor(Top.boot, Top.inner)
          BY <1>1, <3>2, <4>1, ReadyForLess
        <5>2. QED
          BY <1>1, <2>1, <5>1 DEF ReadyFor, WaitsBefore
    <3>3. QED
      BY <1>1, <3>1, <3>2
  <2>4. Waits(Cmd("detach")) => Waits(Cmd("detach"))'
    BY <1>1 DEF Waits
  <2>5. "mounted" \in Range(faults) => "mounted" \in Range(faults')
    BY <1>2, FaultStep DEF Types
  <2>6. QED
    BY <1>1, <1>2, <2>1, <2>2, <2>3, <2>4, <2>5
<1>3. CASE setup' = Tail(setup) /\ UNCHANGED <<pc, err>>
  <2>1. /\ Waits(Cmd("detach")) => Waits(Cmd("detach"))'
        /\ ReadyFor(hasBoot, {}) => ReadyFor(hasBoot, {})'
        /\ ReadyFor(hasBoot, Inner) => ReadyFor(hasBoot, Inner)'
    BY <1>1 DEF Waits, ReadyFor, WaitsBefore
  <2>2. pc = "preparing" => \A i \in DOMAIN setup' : setup'[i] = MountCmd("boot") => hasBoot
    <3>1. \A i \in DOMAIN Tail(setup) : i + 1 \in DOMAIN setup /\ Tail(setup)[i] = setup[i + 1]
      BY <1>1, TailFacts DEF Types, Lists
    <3>2. QED
      BY <1>3, <3>1
  <2>3. /\ Mine' /\ Top'.boot => hasBoot
        /\ pc = "preparing" /\ Mine' => Top'.inner = {}
        /\ Mine' /\ Top'.other => "mounted" \in Range(faults')
    <3>1. "mounted" \in Range(faults) => "mounted" \in Range(faults')
      BY <1>1, FaultsGrow DEF Types, Next
    <3>2. CASE layers' = layers
      BY <1>1, <3>1, <3>2 DEF Mine, Top
    <3>3. CASE runs(Head(setup)) /\ Head(setup) = MountCmd("root") /\ pc = "preparing"
      <4>1. layers' = Append(layers, Layer)
        BY <3>3, MountPointFacts DEF runs, MountCmd
      <4>2. ~Mine
        BY <1>1, <3>3, ToMountTails DEF HostInv
      <4>3. Top' = Layer
        BY <1>1, <4>1, <4>2, NewLayer
      <4>4. QED
        BY <4>3 DEF Layer
    <3>4. CASE runs(Head(setup)) /\ Head(setup) = MountCmd("boot") /\ pc = "preparing"
      <4>1. layers' = OnTop([Top EXCEPT !.boot = TRUE])
        BY <3>4, MountPointFacts DEF runs, MountCmd
      <4>2. Mine
        BY <1>1, <3>4, ToMountTails DEF HostInv
      <4>3. Top \in Layers /\ layers # <<>>
        BY <4>2, TopFacts DEF Mine, HostInv
      <4>4. Top' = [Top EXCEPT !.boot = TRUE]
        BY <1>1, <4>1, <4>3, Changed, ChangedTop
      <4>5. 1 \in DOMAIN setup /\ setup[1] = MountCmd("boot")
        BY <1>1, <3>4, TailFacts DEF Types, Lists
      <4>6. QED
        BY <3>1, <3>4, <4>2, <4>3, <4>4, <4>5 DEF Layers
    <3>5. CASE runs(Head(setup)) /\ Head(setup).cmd = "mount" /\ pc = "running"
      <4>1. Mine /\ Head(setup).at \in Inner
        BY <1>1, <3>5, TailFacts DEF HostInv, Types, Lists
      <4>2. layers' = OnTop([Top EXCEPT !.inner = @ \cup {Head(setup).at}])
        BY <3>5, <4>1, MountPointFacts DEF runs
      <4>3. Top \in Layers /\ layers # <<>>
        BY <4>1, TopFacts DEF Mine, HostInv
      <4>4. Top' = [Top EXCEPT !.inner = @ \cup {Head(setup).at}]
        BY <1>1, <4>1, <4>2, <4>3, Changed, ChangedTop
      <4>5. QED
        BY <3>1, <3>5, <4>1, <4>3, <4>4 DEF Layers
    <3>6. CASE runs(Head(setup)) /\ Head(setup).cmd # "mount"
      BY <3>2, <3>6 DEF runs
    <3>7. CASE runs(Head(setup)) /\ Head(setup).cmd = "mount" /\ pc = "preparing"
      BY <1>1, <3>3, <3>4, <3>7, ToMountTails DEF HostInv, Cmd
    <3>8. CASE /\ Head(setup).cmd \in {"udev", "grub-install", "update-grub"}
               /\ Fault("mounted") /\ layers' = OnTop([Top EXCEPT !.other = TRUE])
      <4>1. pc = "running"
        BY <1>1, <3>8, ToMountTails DEF HostInv, Cmd, MountCmd
      <4>2. Mine /\ Top \in Layers /\ layers # <<>>
        BY <4>1, TopFacts DEF Mine, HostInv
      <4>3. Top' = [Top EXCEPT !.other = TRUE] /\ "mounted" \in Range(faults')
        BY <1>1, <3>8, <4>2, Changed, ChangedTop, FaultStep DEF Types
      <4>4. QED
        BY <4>1, <4>2, <4>3 DEF Layers
    <3>9. QED
      BY <1>1, <1>3, <3>5, <3>6, <3>7, <3>8, <3>2 DEF RunCmd, afterError, Types, Control
  <2>4. QED
    BY <1>1, <1>3, <2>1, <2>2, <2>3
<1>4. QED
  BY <1>2, <1>3 DEF RunCmd

LEMMA ReleaseListCommands ==
    ASSUME Types, HostInv, ReleaseInv, ListCommands PROVE ReleaseInv'
<1> USE DEF ReleaseInv
<1>1. /\ pc = "prepared" /\ Mine /\ UNCHANGED <<attempt, attached, layers, hasBoot>>
      /\ "mounted" \in Range(faults) => "mounted" \in Range(faults')
      /\ Excused => Excused'
  BY FaultsGrow DEF ListCommands, HostInv, inputs, host, Types, Next, Excused
<1>2. Mine' /\ Top' = Top /\ Top.inner = {} /\ (Top.boot => hasBoot)
  BY <1>1 DEF Mine, Top
<1>3. CASE UNCHANGED teardown /\ pc' = "restore" /\ err' = TRUE
  <2>1. ReadyFor(Top.boot, Top.inner)'
    <3>1. ReadyFor(Top.boot, Top.inner)
      BY <1>1, <1>2, <1>3, ReadyForLess
    <3>2. QED
      BY <1>2, <1>3, <3>1 DEF ReadyFor, WaitsBefore
  <2>2. Waits(Cmd("detach")) => Waits(Cmd("detach"))'
    BY <1>3 DEF Waits
  <2>3. QED
    BY <1>1, <1>2, <1>3, <2>1, <2>2
<1>4. CASE teardown' = stack(umountCmds, teardown) /\ pc' = "restore" /\ err' = TRUE
  <2>1. \A c : Waits(c) => Waits(c)'
    BY <1>4, Stacked, UmountCmdsTypes DEF stack, Types
  <2>2. ReadyFor(hasBoot, {})'
    BY <1>1, <1>4, Stacked, UmountCmdsTypes DEF stack, Types
  <2>3. ReadyFor(Top.boot, Top.inner)'
    BY <1>1, <1>2, <2>2 DEF ReadyFor, WaitsBefore
  <2>4. QED
    BY <1>1, <1>2, <1>4, <2>1, <2>3
<1>5. CASE /\ teardown' = <<Cmd("undivert")>> \o stack(umountCmds, teardown)
           /\ pc' = "running" /\ UNCHANGED err
  <2> DEFINE s == <<Cmd("undivert")>> \o umountCmds
  <2>1. /\ s \in Seq(Commands) /\ teardown' = s \o teardown
        /\ \A m \in Inner : \E i \in DOMAIN s : s[i] = UmountCmd(m)
        /\ \A i \in DOMAIN s : s[i] # UmountCmd("root")
    <3>1. /\ <<Cmd("undivert")>> \in Seq(Commands) /\ Len(<<Cmd("undivert")>>) = 1
          /\ \A i \in 1..1 : <<Cmd("undivert")>>[i] # UmountCmd("root")
      BY CommandTypes DEF Cmd, UmountCmd
    <3>2. /\ s \in Seq(Commands)
          /\ \A i \in DOMAIN s : s[i] # UmountCmd("root")
          /\ \A i \in DOMAIN umountCmds : 1 + i \in DOMAIN s /\ s[1 + i] = umountCmds[i]
      BY <3>1, UmountCmdsTypes, ConcatFacts
    <3>3. teardown' = s \o teardown
      BY <1>5, <3>1, UmountCmdsTypes DEF stack, Types, Lists
    <3>4. QED
      BY <3>2, <3>3, UmountCmdsTypes
  <2> HIDE DEF s
  <2>2. \A c : Waits(c) => Waits(c)'
    BY <2>1, Stacked DEF Types
  <2>3. ReadyFor(hasBoot, Inner)'
    <3>1. ReadyFor(hasBoot, {})
      BY <1>1
    <3>2. \A b : ReadyFor(b, {}) => ReadyFor(b, Inner)'
      BY <2>1, Stacked DEF Types
    <3>3. QED
      BY <1>1, <3>1, <3>2
  <2>4. QED
    BY <1>1, <1>2, <1>5, <2>2, <2>3
<1>6. QED
  BY <1>3, <1>4, <1>5 DEF ListCommands

LEMMA FaultIsNew == ASSUME FaultsOK, NEW k, Fault(k) PROVE faults' # faults
<1>1. faults \in Seq(Faults) /\ faults' = Append(faults, k)
  BY DEF FaultsOK, Fault
<1>2. Len(faults') = Len(faults) + 1 /\ Len(faults) \in Nat
  BY <1>1
<1>3. QED
  BY <1>2

\* The layer of this process is unmounted as a whole.
LEMMA PoppedMine ==
    ASSUME HostInv, layers # <<>>, layers' = SubSeq(layers, 1, Len(layers) - 1),
           UNCHANGED attempt
    PROVE  ~Mine'
<1>1. /\ Len(layers') = Len(layers) - 1 /\ Len(layers) \in Nat
      /\ DOMAIN layers' = 1..(Len(layers) - 1) /\ DOMAIN layers = 1..Len(layers)
      /\ \A i \in DOMAIN layers' : layers'[i] = layers[i]
      /\ attempt \in Nat /\ layers' \in Seq(Layers)
  BY PoppedFacts, MountPointFacts DEF HostInv
<1>2. SUFFICES ASSUME layers' # <<>> PROVE Top'.device # attempt
  BY DEF Mine
<1>3. Len(layers') \in DOMAIN layers' /\ Top' = layers'[Len(layers')]
  BY <1>1, <1>2 DEF Top
<1>4. Top'.device < attempt
  BY <1>1, <1>3 DEF HostInv, Before
<1>5. Top' \in Layers
  BY <1>1, <1>3
<1>6. QED
  BY <1>1, <1>4, <1>5, MountPointFacts DEF Layers

LEMMA ReleaseTeardownCmd ==
    ASSUME Types, HostInv, HostInv', ReleaseInv, TeardownCmd PROVE ReleaseInv'
<1> USE DEF ReleaseInv
<1> DEFINE c == Head(teardown)
<1>1. /\ pc = "teardown" /\ pc' = "teardown" /\ teardown # <<>>
      /\ teardown' = Tail(teardown) /\ UNCHANGED <<attempt, hasBoot>>
      /\ err => err'
      /\ Range(faults) \subseteq Range(faults')
  <2>1. Range(faults) \subseteq Range(faults')
    BY FaultsGrow DEF Types, Next
  <2>2. err' = err \/ err' = TRUE
    BY DEF TeardownCmd
  <2>3. QED
    BY <2>1, <2>2 DEF TeardownCmd, inputs
<1>2. Excused => Excused'
  BY <1>1 DEF Excused
<1>3. attempt' \in attached' => Waits(Cmd("detach"))' \/ (err' /\ Excused')
  <2>1. SUFFICES ASSUME attempt' \in attached', Waits(Cmd("detach"))
                 PROVE  Waits(Cmd("detach"))' \/ (err' /\ Excused')
    BY <1>1, <1>2 DEF TeardownCmd, undoes, host
  <2>2. CASE c # Cmd("detach")
    BY <1>1, <2>1, <2>2, WaitsTail DEF Types
  <2>3. CASE c = Cmd("detach")
    <3>1. possible(c) /\ ~undoes(c)
      BY <1>1, <2>1, <2>3 DEF possible, undoes, Cmd
    <3>2. Fault("release") /\ err' = TRUE
      BY <2>3, <3>1 DEF TeardownCmd, Cmd
    <3>3. "release" \in Range(faults')
      BY <3>2, FaultStep DEF Types
    <3>4. QED
      BY <3>2, <3>3 DEF Excused
  <2>4. QED
    BY <2>2, <2>3
<1>4. Mine' => Mine
  BY HostAfterUmount
<1>5. ASSUME Mine'
      PROVE  /\ ReadyFor(Top.boot, Top.inner)' \/ (err' /\ Excused')
             /\ Top'.other => "mounted" \in Range(faults')
  <2>1. /\ Mine /\ Top \in Layers /\ layers # <<>>
        /\ Top.other => "mounted" \in Range(faults')
        /\ ReadyFor(Top.boot, Top.inner) \/ (err /\ Excused)
        /\ c \in Commands
    BY <1>1, <1>4, <1>5, TopFacts, TailFacts DEF Mine, HostInv, Types, Lists
  <2>2. /\ c.cmd = "umount" /\ c.at = "root" <=> c = UmountCmd("root")
        /\ c.cmd = "umount" /\ c.at = "boot" <=> c = UmountCmd("boot")
        /\ \A m : c = UmountCmd(m) => c.cmd = "umount" /\ c.at = m
    BY <2>1 DEF UmountCmd, Commands
  <2>3. CASE err /\ Excused /\ Top'.other = Top.other
    BY <1>1, <1>2, <2>1, <2>3
  <2>4. CASE Fault("release") /\ layers' = layers /\ err' = TRUE
    <3>1. "release" \in Range(faults') /\ Top' = Top
      BY <2>4, FaultStep DEF Types, Top
    <3>2. QED
      BY <2>1, <2>4, <3>1 DEF Excused
  <2>5. CASE c = UmountCmd("root") /\ ReadyFor(Top.boot, Top.inner)
    <3>1. CASE possible(c) /\ undoes(c)
      <4>1. layers' = SubSeq(layers, 1, Len(layers) - 1)
        BY <2>2, <2>5, <3>1, MountPointFacts DEF undoes
      <4>2. QED
        BY <1>1, <1>5, <2>1, <4>1, PoppedMine
    <3>2. CASE ~possible(c) /\ err' = TRUE /\ layers' = layers
      <4>1. ~Empty(Top) /\ Top' = Top
        BY <2>1, <2>2, <2>5, <3>2, MountPointFacts DEF possible, Top
      <4>2. ~Top.boot /\ Top.inner = {}
        BY <1>1, <2>5, RootIsNext DEF Types
      <4>3. Top.other
        BY <4>1, <4>2 DEF Empty
      <4>4. QED
        BY <2>1, <3>2, <4>1, <4>3 DEF Excused
    <3>3. c.cmd # "undivert"
      BY <2>2, <2>5
    <3>4. QED
      BY <2>4, <3>1, <3>2, <3>3 DEF TeardownCmd, host
  <2>6. CASE c # UmountCmd("root") /\ ~(Fault("release") /\ c.cmd # "undivert")
    <3>1. /\ Top'.other = Top.other
          /\ Top'.inner \subseteq Top.inner
          /\ Top'.boot => Top.boot /\ c # UmountCmd("boot")
          /\ \A m \in Top'.inner : c # UmountCmd(m)
      <4>1. CASE possible(c) /\ undoes(c) /\ c = UmountCmd("boot")
        <5>1. layers' = OnTop([Top EXCEPT !.boot = FALSE])
          BY <2>2, <4>1, MountPointFacts DEF undoes
        <5>2. Top' = [Top EXCEPT !.boot = FALSE]
          BY <1>1, <2>1, <5>1, Changed, ChangedTop
        <5>3. QED
          BY <2>1, <2>2, <4>1, <5>2, MountPointFacts DEF Layers
      <4>2. CASE possible(c) /\ undoes(c) /\ \E m \in Inner : c = UmountCmd(m)
        <5>1. PICK m \in Inner : c = UmountCmd(m) /\ c.cmd = "umount" /\ c.at = m
          BY <2>2, <4>2
        <5>2. layers' = OnTop([Top EXCEPT !.inner = @ \ Inside[m]])
          BY <4>2, <5>1, MountPointFacts DEF undoes
        <5>3. Top' = [Top EXCEPT !.inner = @ \ Inside[m]]
          BY <1>1, <2>1, <5>2, Changed, ChangedTop
        <5>4. QED
          BY <2>1, <2>2, <5>1, <5>3, MountPointFacts DEF Layers
      <4>3. CASE /\ layers' = layers
                 /\ Top.boot => c # UmountCmd("boot")
                 /\ \A m \in Top.inner : c # UmountCmd(m)
        BY <4>3 DEF Top
      <4>4. CASE ~possible(c) /\ layers' = layers
        <5>1. Top.boot => c # UmountCmd("boot")
          BY <2>1, <2>2, <4>4, MountPointFacts DEF possible
        <5>2. \A m \in Top.inner : c # UmountCmd(m)
          BY <2>1, <2>2, <4>4, MountPointFacts DEF possible, Layers
        <5>3. QED
          BY <4>3, <4>4, <5>1, <5>2
      <4>5. CASE c.cmd = "undivert" /\ layers' = layers
        BY <2>2, <4>3, <4>5
      <4>6. CASE /\ possible(c) /\ undoes(c) /\ c # UmountCmd("boot")
                 /\ ~\E m \in Inner : c = UmountCmd(m)
        <5>1. ~(c.cmd = "umount" /\ c.at \in {"root", "boot"} \cup Inner)
          BY <2>1, <2>2, <2>6, <4>6 DEF UmountCmd, Commands
        <5>2. layers' = layers
          BY <4>6, <5>1 DEF undoes
        <5>3. \A m \in Top.inner : c # UmountCmd(m)
          BY <2>1, <4>6 DEF Layers
        <5>4. QED
          BY <4>3, <4>6, <5>2, <5>3
      <4>7. QED
        BY <2>6, <4>1, <4>2, <4>4, <4>5, <4>6 DEF TeardownCmd, host
    <3>2. CASE ReadyFor(Top.boot, Top.inner)
      <4>1. PICK b2, inner2 : b2 = Top'.boot /\ inner2 = Top'.inner
        OBVIOUS
      <4>2. ReadyFor(b2, inner2)'
        BY <1>1, <2>6, <3>1, <3>2, <4>1, ReadyForTail DEF Types
      <4>3. ReadyFor(Top.boot, Top.inner)'
        BY <4>1, <4>2 DEF ReadyFor, WaitsBefore
      <4>4. QED
        BY <2>1, <3>1, <4>3
    <3>3. QED
      BY <2>1, <2>3, <3>1, <3>2
  <2>7. CASE Fault("release") /\ c.cmd # "undivert" /\ c # UmountCmd("root")
    <3>1. CASE possible(c) /\ undoes(c) /\ UNCHANGED faults
      BY <2>7, <3>1, FaultIsNew DEF Types
    <3>2. CASE ~possible(c) /\ UNCHANGED faults
      BY <2>7, <3>2, FaultIsNew DEF Types
    <3>3. QED
      BY <2>4, <2>7, <3>1, <3>2 DEF TeardownCmd, host
  <2>8. CASE c = UmountCmd("root") /\ err /\ Excused
    <3>1. CASE layers' = layers
      BY <2>3, <2>8, <3>1 DEF Top
    <3>2. CASE possible(c) /\ undoes(c)
      <4>1. layers' = SubSeq(layers, 1, Len(layers) - 1)
        BY <2>2, <2>8, <3>2, MountPointFacts DEF undoes
      <4>2. QED
        BY <1>1, <1>5, <2>1, <4>1, PoppedMine
    <3>3. QED
      BY <3>1, <3>2 DEF TeardownCmd, host
  <2>9. QED
    BY <2>1, <2>5, <2>6, <2>7, <2>8
<1>6. QED
  BY <1>1, <1>3, <1>5

LEMMA ReleaseStep ==
    ASSUME Types, HostInv, HostInv', ReleaseInv, [Next]_vars PROVE ReleaseInv'
<1> USE DEF ReleaseInv
<1>a. /\ Excused => Excused'
      /\ "mounted" \in Range(faults) => "mounted" \in Range(faults')
  BY FaultsGrow DEF Types, Excused
<1>1. CASE AssociateLoopDevice
  <2>1. /\ pc = "losetup" /\ UNCHANGED <<attempt, layers>>
        /\ \/ teardown' = <<Cmd("detach")>> /\ pc' = "prepare"
           \/ attached' = attached /\ pc' = "teardown"
    BY <1>1 DEF AssociateLoopDevice
  <2>2. ~Mine' /\ attempt \notin attached
    BY <2>1 DEF HostInv, Mine, Top
  <2>3. teardown' = <<Cmd("detach")>> => Waits(Cmd("detach"))'
    BY DEF Waits
  <2>4. QED
    BY <2>1, <2>2, <2>3
<1>2. CASE Prepare
  <2>1. /\ pc = "prepare" /\ pc' = "preparing" /\ UNCHANGED <<attempt, layers, attached, err, hasBoot>>
        /\ teardown' = prepareTeardown \o teardown
    BY <1>2 DEF Prepare, inputs, host
  <2>2. ~Mine'
    BY <2>1 DEF HostInv, Mine, Top
  <2>3. /\ prepareTeardown \in Seq(Commands)
        /\ hasBoot => /\ Len(prepareTeardown) = 2
                      /\ prepareTeardown[1] = UmountCmd("boot")
                      /\ prepareTeardown[2] = UmountCmd("root")
        /\ ~hasBoot => Len(prepareTeardown) = 1 /\ prepareTeardown[1] = UmountCmd("root")
        /\ UmountCmd("boot") # UmountCmd("root")
    BY CommandTypes DEF prepareTeardown, UmountCmd
  <2>4. /\ DOMAIN prepareTeardown = 1..Len(prepareTeardown)
        /\ DOMAIN teardown' = 1..(Len(prepareTeardown) + Len(teardown)) /\ Len(teardown) \in Nat
        /\ \A i \in 1..Len(prepareTeardown) : teardown'[i] = prepareTeardown[i]
        /\ \A i \in 1..Len(teardown) : teardown'[Len(prepareTeardown) + i] = teardown[i]
        /\ DOMAIN teardown = 1..Len(teardown) /\ Len(prepareTeardown) \in Nat
    BY <2>1, <2>3, ConcatFacts DEF Types, Lists
  <2>5. Waits(Cmd("detach")) => Waits(Cmd("detach"))'
    <3>1. \A i \in DOMAIN teardown : Len(prepareTeardown) + i \in DOMAIN teardown'
      BY <2>4
    <3>2. QED
      BY <2>4, <3>1 DEF Waits
  <2>6. ReadyFor(hasBoot, {})'
    <3>1. CASE hasBoot
      <4>1. /\ 1 \in DOMAIN teardown' /\ teardown'[1] = UmountCmd("boot")
            /\ 2 \in DOMAIN teardown' /\ teardown'[2] = UmountCmd("root")
        BY <2>3, <2>4, <3>1
      <4>2. \A i \in DOMAIN teardown' : i < 2 => i = 1
        BY <2>4
      <4>3. QED
        BY <2>3, <4>1, <4>2 DEF ReadyFor, WaitsBefore
    <3>2. CASE ~hasBoot
      <4>1. 1 \in DOMAIN teardown' /\ teardown'[1] = UmountCmd("root")
        BY <2>3, <2>4, <3>2
      <4>2. \A i \in DOMAIN teardown' : ~(i < 1)
        BY <2>4
      <4>3. QED
        BY <2>1, <3>2, <4>1, <4>2 DEF ReadyFor, WaitsBefore
    <3>3. QED
      BY <3>1, <3>2
  <2>7. \A i \in DOMAIN setup' : setup'[i] = MountCmd("boot") => hasBoot
    BY <1>2 DEF Prepare, Cmd, MountCmd
  <2>8. QED
    BY <1>a, <2>1, <2>2, <2>5, <2>6, <2>7
<1>3. CASE RunCmd
  BY <1>3, ReleaseRunCmd
<1>4. CASE Backup
  <2>1. /\ pc = "preparing" /\ UNCHANGED <<teardown, attempt, layers, attached, hasBoot>>
        /\ \/ pc' = "prepared" /\ err' = err
           \/ pc' = "teardown" /\ err' = TRUE
    BY <1>4 DEF Backup, inputs, host
  <2>2. Mine' = Mine /\ Top' = Top
    BY <2>1 DEF Mine, Top
  <2>3. ReadyFor(hasBoot, {})' /\ (Waits(Cmd("detach")) => Waits(Cmd("detach"))')
    BY <2>1 DEF ReadyFor, WaitsBefore, Waits
  <2>4. Mine => ReadyFor(Top.boot, Top.inner)
    BY <2>1, ReadyForLess
  <2>5. Mine => ReadyFor(Top.boot, Top.inner)'
    BY <2>1, <2>2, <2>4 DEF ReadyFor, WaitsBefore
  <2>6. QED
    BY <1>a, <2>1, <2>2, <2>3, <2>5
<1>5. CASE ListCommands
  BY <1>5, ReleaseListCommands
<1>6. CASE Finished \/ RestoreResolvConf
  <2>1. /\ UNCHANGED <<teardown, attempt, layers, attached, hasBoot>>
        /\ \/ pc = "running" /\ pc' = "restore" /\ err' = err
           \/ pc = "restore" /\ pc' = "teardown" /\ (err' = err \/ err' = TRUE)
    BY <1>6 DEF Finished, RestoreResolvConf, inputs, host, control
  <2>2. Mine' = Mine /\ Top' = Top
    BY <2>1 DEF Mine, Top
  <2>3. Waits(Cmd("detach")) => Waits(Cmd("detach"))'
    BY <2>1 DEF Waits
  <2>4. Mine => ReadyFor(Top.boot, Top.inner) \/ (err /\ Excused)
    <3>1. Mine => Top.inner \subseteq Inner
      BY TopFacts DEF Mine, HostInv, Layers
    <3>2. QED
      BY <2>1, <3>1, ReadyForLess
  <2>5. Mine => ReadyFor(Top.boot, Top.inner)' \/ (err /\ Excused)
    BY <2>1, <2>2, <2>4 DEF ReadyFor, WaitsBefore
  <2>6. QED
    BY <1>a, <2>1, <2>2, <2>3, <2>5
<1>7. CASE TeardownCmd
  BY <1>7, ReleaseTeardownCmd
<1>8. CASE Return
  <2>1. /\ pc = "teardown" /\ teardown = <<>> /\ pc' = IF err THEN "failed" ELSE "done"
        /\ UNCHANGED <<attempt, layers, attached, faults>>
    BY <1>8 DEF Return, host
  <2>2. Mine' = Mine /\ Top' = Top /\ Excused' = Excused
    BY <2>1 DEF Mine, Top, Excused
  <2>3. ~Waits(Cmd("detach")) /\ ~ReadyFor(Top.boot, Top.inner)
    BY <2>1 DEF Waits, ReadyFor
  <2>4. QED
    BY <2>1, <2>2, <2>3
<1>9. CASE Kill
  <2>1. pc' = "killed" /\ UNCHANGED <<attempt, layers>>
    BY <1>9 DEF Kill, host
  <2>2. QED
    BY <1>a, <2>1 DEF Mine, Top
<1>10. CASE Retry
  <2>1. pc' = "losetup"
    BY <1>10 DEF Retry
  <2>2. QED
    BY <2>1 DEF HostInv
<1>11. CASE UNCHANGED vars
  BY <1>11 DEF vars, host, control, inputs, Mine, Top, Waits, ReadyFor, WaitsBefore, Excused
<1>12. QED
  BY <1>1, <1>2, <1>3, <1>4, <1>5, <1>6, <1>7, <1>8, <1>9, <1>10, <1>11 DEF Next

\* A setup_bootloader that succeeds has detached its loop device and unmounted
\* all it mounted; so has one that fails, unless what failed is to release them
\* or a command left something mounted that is not on the list.
THEOREM ReleasedCorrect == Spec => []Released
<1>1. Init => ReleaseInv
  BY DEF Init, ReleaseInv, Mine
<1>2. ASSUME HostInv, ReleaseInv PROVE Released
  <2>1. SUFFICES ASSUME pc = "done" \/ (pc = "failed" /\ ~Excused)
                 PROVE  \A layer \in Range(layers) : layer.device # attempt
    BY <1>2 DEF Released, Excused, ReleaseInv
  <2>2. ~Mine
    BY <1>2, <2>1 DEF ReleaseInv
  <2>3. ASSUME NEW i \in DOMAIN layers PROVE layers[i].device # attempt
    <3>1. /\ DOMAIN layers = 1..Len(layers) /\ Len(layers) \in Nat /\ layers # <<>>
          /\ layers[i] \in Layers /\ attempt \in Nat
      BY <1>2, <2>3, MountPointFacts DEF HostInv
    <3>2. layers[i].device \in Nat
      BY <3>1, MountPointFacts DEF Layers
    <3>3. CASE i = Len(layers)
      BY <2>2, <3>1, <3>3 DEF Mine, Top
    <3>4. CASE i <= Len(layers) - 1
      BY <1>2, <3>1, <3>2, <3>4 DEF HostInv, Before
    <3>5. QED
      BY <3>1, <3>3, <3>4
  <2>4. QED
    BY <2>3 DEF Range
<1>3. QED
  BY <1>1, <1>2, ReleaseStep, HostInvariant, PTL DEF Spec

-----------------------------------------------------------------------------
(***************************************************************************)
(* The image.  The command that puts os-prober back is the first to tear   *)
(* down, from before os-prober is diverted; what is to be put back is on   *)
(* top of the layers.                                                      *)
(***************************************************************************)
DivertFault == Range(faults) \cap {"undivert", "kill"} # {}
UndivertFirst == teardown # <<>> /\ Head(teardown) = Cmd("undivert") /\ layers # <<>>

ProberInv ==
    /\ pc = "running" => UndivertFirst
    /\ pc \in {"restore", "teardown"} =>
         UndivertFirst \/ prober = "real" \/ (err /\ DivertFault)
    /\ pc = "done" => prober = "real"
    /\ ~DivertFault =>
         /\ pc # "killed"
         /\ prober = "diverted" => pc \in {"running", "restore", "teardown"} /\ UndivertFirst

\* In the middle of a session no command diverts os-prober before its turn.
PreparingInv == pc = "preparing" => \A i \in DOMAIN setup : setup[i].cmd # "divert"

LEMMA PreparingStep ==
    ASSUME Types, HostInv', [Next]_vars PROVE PreparingInv'
<1>1. SUFFICES ASSUME pc' = "preparing" PROVE \A i \in DOMAIN setup' : setup'[i].cmd # "divert"
  BY DEF PreparingInv
<1>2. setup' \in ToMount \cup Mounted
  BY <1>1 DEF HostInv
<1>3. QED
  BY <1>2 DEF ToMount, Mounted, Cmd, MountCmd

LEMMA ProberStep ==
    ASSUME Types, HostInv, HostInv', PreparingInv, ProberInv, [Next]_vars PROVE ProberInv'
<1> USE DEF ProberInv
<1>a. DivertFault => DivertFault'
  BY FaultsGrow DEF Types, DivertFault
<1>b. err \in BOOLEAN /\ prober \in {"real", "diverted"}
  BY DEF Types, Flags, ImageTypes
<1>1. CASE AssociateLoopDevice
  BY <1>1, <1>a, <1>b DEF AssociateLoopDevice, image
<1>2. CASE Prepare
  BY <1>2, <1>a, <1>b DEF Prepare, image
<1>3. CASE RunCmd
  <2>1. /\ setup # <<>> /\ pc \in {"preparing", "running"} /\ UNCHANGED teardown
        /\ \/ pc' = pc /\ err' = err
           \/ pc' = afterError /\ err' = TRUE /\ prober' = prober /\ layers' = layers
    BY <1>3 DEF RunCmd
  <2>2. pc = "running" => layers' # <<>>
    <3>1. CASE pc' = pc
      BY <2>1, <3>1 DEF HostInv, Mine
    <3>2. CASE layers' = layers
      BY <3>2 DEF HostInv, Mine
    <3>3. QED
      BY <2>1, <3>1, <3>2
  <2>3. pc = "running" => UndivertFirst'
    BY <2>1, <2>2 DEF UndivertFirst
  <2>4. pc = "preparing" => prober' = prober
    <3>1. pc = "preparing" => Head(setup).cmd # "divert"
      BY <2>1, TailFacts DEF PreparingInv, Types, Lists
    <3>2. QED
      BY <1>3, <3>1 DEF RunCmd, runs
  <2>5. pc = "preparing" => ~restore
    BY DEF Types, Control
  <2>6. pc = "running" => restore
    BY DEF Types, Control
  <2>7. QED
    BY <1>a, <1>b, <2>1, <2>3, <2>4, <2>5, <2>6 DEF afterError
<1>4. CASE Backup
  BY <1>4, <1>a, <1>b DEF Backup
<1>5. CASE ListCommands
  <2>1. /\ pc = "prepared" /\ layers # <<>> /\ UNCHANGED <<layers, prober>>
        /\ \/ pc' = "restore" /\ err' = TRUE
           \/ /\ pc' = "running"
              /\ teardown' = <<Cmd("undivert")>> \o stack(umountCmds, teardown)
    BY <1>5 DEF ListCommands, HostInv, Mine, image, host
  <2>2. pc' = "running" => UndivertFirst'
    <3>1. /\ <<Cmd("undivert")>> \in Seq(Commands) /\ umountCmds \o teardown \in Seq(Commands)
          /\ <<Cmd("undivert")>>[1] = Cmd("undivert") /\ Len(<<Cmd("undivert")>>) = 1
      BY CommandTypes, UmountCmdsTypes DEF Types, Lists
    <3>2. pc' = "running" =>
            /\ teardown' \in Seq(Commands) /\ 1 \in DOMAIN teardown'
            /\ teardown'[1] = Cmd("undivert")
      <4> DEFINE u == <<Cmd("undivert")>>
                 t == umountCmds \o teardown
      <4>1. pc' = "running" => teardown' = u \o t
        BY <2>1 DEF stack
      <4>2. u \in Seq(Commands) /\ t \in Seq(Commands) /\ Len(u) = 1 /\ u[1] = Cmd("undivert")
        BY <3>1
      <4> HIDE DEF u, t
      <4>3. /\ u \o t \in Seq(Commands) /\ DOMAIN (u \o t) = 1..(1 + Len(t)) /\ Len(t) \in Nat
            /\ 1 \in 1..Len(u) /\ (u \o t)[1] = u[1]
        BY <4>2, ConcatFacts
      <4>4. QED
        BY <4>1, <4>2, <4>3
    <3>3. pc' = "running" => teardown' # <<>> /\ Head(teardown') = Cmd("undivert")
      BY <3>2
    <3>4. QED
      BY <2>1, <3>3 DEF UndivertFirst
  <2>3. QED
    BY <1>a, <1>b, <2>1, <2>2
<1>6. CASE Finished \/ RestoreResolvConf
  <2>1. /\ UNCHANGED <<teardown, layers, prober>>
        /\ \/ pc = "running" /\ pc' = "restore" /\ err' = err
           \/ pc = "restore" /\ pc' = "teardown" /\ (err' = err \/ err' = TRUE)
    BY <1>6 DEF Finished, RestoreResolvConf, control, host, image
  <2>2. UndivertFirst' = UndivertFirst
    BY <2>1 DEF UndivertFirst
  <2>3. QED
    BY <1>a, <1>b, <2>1, <2>2
<1>7. CASE TeardownCmd
  <2>1. /\ pc = "teardown" /\ pc' = "teardown" /\ teardown # <<>>
        /\ err => err'
    <3>1. err' = err \/ err' = TRUE
      BY <1>7 DEF TeardownCmd
    <3>2. QED
      BY <1>7, <3>1 DEF TeardownCmd
  <2>2. prober' = prober \/ prober' = "real"
    BY <1>7 DEF TeardownCmd, undoes
  <2>3. CASE UndivertFirst
    <3>1. possible(Head(teardown)) /\ Head(teardown).cmd = "undivert"
      BY <2>3 DEF UndivertFirst, possible, Cmd
    <3>2. CASE undoes(Head(teardown))
      <4>1. prober' = "real"
        BY <3>1, <3>2 DEF undoes
      <4>2. QED
        BY <1>a, <2>1, <4>1
    <3>3. CASE Fault("undivert") /\ err' = TRUE
      <4>1. DivertFault'
        BY <3>3, FaultStep DEF DivertFault, Types
      <4>2. QED
        BY <2>1, <3>3, <4>1
    <3>4. QED
      BY <1>7, <3>1, <3>2, <3>3 DEF TeardownCmd
  <2>4. CASE ~UndivertFirst
    BY <1>a, <1>b, <2>1, <2>2, <2>4
  <2>5. QED
    BY <2>3, <2>4
<1>8. CASE Return
  <2>1. /\ pc = "teardown" /\ teardown = <<>> /\ pc' = IF err THEN "failed" ELSE "done"
        /\ UNCHANGED <<faults, prober>>
    BY <1>8 DEF Return, image
  <2>2. ~UndivertFirst /\ DivertFault' = DivertFault
    BY <2>1 DEF UndivertFirst, DivertFault
  <2>3. QED
    BY <1>b, <2>1, <2>2
<1>9. CASE Kill
  <2>1. DivertFault'
    BY <1>9, FaultStep DEF Kill, DivertFault, Types
  <2>2. QED
    BY <1>9, <2>1 DEF Kill
<1>10. CASE Retry
  BY <1>10, <1>a, <1>b DEF Retry, image
<1>11. CASE UNCHANGED vars
  BY <1>11 DEF vars, control, host, image, UndivertFirst, DivertFault
<1>12. QED
  BY <1>1, <1>2, <1>3, <1>4, <1>5, <1>6, <1>7, <1>8, <1>9, <1>10, <1>11 DEF Next

(***************************************************************************)
(* resolv.conf: it has been moved to the backup or is where it was.  A     *)
(* backup that is a link is not seen by the next process, so that nothing  *)
(* is said of a link once a process has left one there.                    *)
(***************************************************************************)
Lost == Range(faults) \cap {"copy", "restore", "kill"} # {}

ResolvInv ==
    original = "file" \/ ~Lost =>
      /\ \/ backup = "missing" /\ resolv = original
         \/ backup = original /\ resolv \in {"host", "missing"}
      /\ pc \in {"prepared", "running"} => backup = original
      /\ pc = "done" \/ (pc = "teardown" /\ ~err) => backup = "missing"
      /\ pc = "losetup" => ~err
      /\ ~Lost => /\ pc # "killed"
                  /\ backup # "missing" => pc \in {"prepared", "running", "restore"}

LEMMA ResolvStep == ASSUME Types, ResolvInv, [Next]_vars PROVE ResolvInv'
<1> USE DEF ResolvInv
<1>a. Lost => Lost'
  BY FaultsGrow DEF Types, Lost
<1>b. original' = original /\ original \in {"file", "link"} /\ err \in BOOLEAN
  BY InputsStep DEF Types, Inputs, Flags, Next, AssociateLoopDevice, Prepare, RunCmd, Backup,
     ListCommands, Finished, RestoreResolvConf, TeardownCmd, Return, Kill, Retry, vars, inputs
<1>1. CASE AssociateLoopDevice
  BY <1>1, <1>a, <1>b DEF AssociateLoopDevice, image
<1>2. CASE Prepare
  BY <1>2, <1>a, <1>b DEF Prepare, image
<1>3. CASE RunCmd
  <2>1. /\ pc \in {"preparing", "running"} /\ UNCHANGED <<resolv, backup>>
        /\ \/ pc' = pc /\ err' = err
           \/ pc' = afterError /\ err' = TRUE
        /\ pc = "running" => restore
    BY <1>3 DEF RunCmd, Types, Control
  <2>2. QED
    BY <1>a, <1>b, <2>1 DEF afterError
<1>4. CASE Backup
  <2>1. CASE Fault("copy")
    <3>1. Lost'
      BY <2>1, FaultStep DEF Lost, Types
    <3>2. CASE ~(original = "file")
      BY <1>b, <3>1, <3>2
    <3>3. CASE original = "file"
      BY <1>4, <1>a, <1>b, <3>1, <3>3 DEF Backup
    <3>4. QED
      BY <3>2, <3>3
  <2>2. CASE UNCHANGED faults
    <3>1. ~Fault("copy")
      BY <2>2, FaultIsNew DEF Types
    <3>2. QED
      BY <1>4, <1>a, <1>b, <2>2, <3>1 DEF Backup, Lost
  <2>3. QED
    BY <1>4, <2>1, <2>2 DEF Backup
<1>5. CASE ListCommands
  BY <1>5, <1>a, <1>b DEF ListCommands, image
<1>6. CASE Finished
  BY <1>6, <1>a, <1>b DEF Finished, image
<1>7. CASE RestoreResolvConf
  <2>1. CASE Fault("restore") /\ err' = TRUE /\ UNCHANGED <<resolv, backup>>
    <3>1. Lost'
      BY <2>1, FaultStep DEF Lost, Types
    <3>2. QED
      BY <1>7, <1>a, <1>b, <2>1, <3>1 DEF RestoreResolvConf
  <2>2. CASE UNCHANGED <<err, faults>>
    <3>1. ~Fault("restore")
      BY <2>2, FaultIsNew DEF Types
    <3>2. QED
      BY <1>7, <1>a, <1>b, <2>2, <3>1 DEF RestoreResolvConf, Lost
  <2>3. QED
    BY <1>7, <2>1, <2>2 DEF RestoreResolvConf
<1>8. CASE TeardownCmd
  <2>1. /\ pc = "teardown" /\ pc' = "teardown" /\ UNCHANGED <<resolv, backup>>
        /\ err' = err \/ err' = TRUE
    BY <1>8 DEF TeardownCmd
  <2>2. QED
    BY <1>a, <1>b, <2>1
<1>9. CASE Return
  BY <1>9, <1>a, <1>b DEF Return, image
<1>10. CASE Kill
  <2>1. Lost'
    BY <1>10, FaultStep DEF Kill, Lost, Types
  <2>2. QED
    BY <1>10, <1>a, <1>b, <2>1 DEF Kill, image
<1>11. CASE Retry
  BY <1>11, <1>a, <1>b DEF Retry, image
<1>12. CASE UNCHANGED vars
  BY <1>12 DEF vars, inputs, image, Lost
<1>13. QED
  BY <1>1, <1>2, <1>3, <1>4, <1>5, <1>6, <1>7, <1>8, <1>9, <1>10, <1>11, <1>12 DEF Next

\* After setup_bootloader the image has its own resolv.conf without a backup, and
\* os-prober in place: after a success, but for a link that an earlier process
\* lost, and after a failure unless the restoring is what failed.
THEOREM RestoredCorrect == Spec => []ImageRestored
<1>1. Init => PreparingInv /\ ProberInv /\ ResolvInv
  BY DEF Init, PreparingInv, ProberInv, ResolvInv
<1>2. ASSUME Types, ProberInv, ResolvInv PROVE ImageRestored
  BY <1>2 DEF ProberInv, ResolvInv, ImageRestored, Types, ImageTypes, Inputs, Lost, DivertFault
<1>3. QED
  BY <1>1, <1>2, PreparingStep, ProberStep, ResolvStep, HostInvariant, PTL DEF Spec

=============================================================================
