------------------------- MODULE StateMachineProofs -------------------------
(***************************************************************************)
(* Proofs about StateMachine, for every list of states, every set of       *)
(* states that refuse to run twice and any number of processes.            *)
(***************************************************************************)
EXTENDS StateMachine, TLAPS

LEMMA StatesFacts ==
    /\ Len(States) \in Nat
    /\ DOMAIN States = 1..Len(States)
    /\ \A k \in 1..Len(States) : States[k] \in Names
    /\ Names \subseteq Steps /\ NoStep \in Steps /\ Unknown \in Steps
  BY StatesAssumption DEF Names, Steps

\* Facts on the functions from work directories to sets of names.
LEMMA Empty == ASSUME NEW S PROVE [d \in Dirs |-> {}] \in [Dirs -> SUBSET S]
  OBVIOUS

LEMMA Emptied ==
    ASSUME NEW S, NEW f \in [Dirs -> SUBSET S], NEW d \in Dirs
    PROVE  [f EXCEPT ![d] = {}] \in [Dirs -> SUBSET S]
  OBVIOUS

LEMMA Added ==
    ASSUME NEW S, NEW f \in [Dirs -> SUBSET S], NEW d \in Dirs,
           NEW T \in SUBSET S
    PROVE  [f EXCEPT ![d] = @ \cup T] \in [Dirs -> SUBSET S]
  OBVIOUS

LEMMA DirIsADir == "temp" \in Dirs /\ "given" \in Dirs /\ Dir \in Dirs
  BY DEF Dir, Dirs

LEMMA ProductIsOnce == \A new \in SUBSET product : new \in SUBSET Once
  BY DEF product

LEMMA CleanupTypes ==
    ASSUME TypeOK, NEW e \in Exits, cleanup(e)
    PROVE  /\ pc' = "idle" /\ exit' \in Exits
           /\ dirs' \subseteq Dirs /\ metadata' \in Files
           /\ done' \in [Dirs -> SUBSET Names]
           /\ made' \in [Dirs -> SUBSET Once]
<1>1. CASE UNCHANGED disk
  BY <1>1 DEF cleanup, Exit, Exits, TypeOK, disk
<1>2. CASE /\ dirs' = dirs \ {Dir}
           /\ metadata' = IF flags.workDir THEN NoFile ELSE metadata
           /\ done' = [done EXCEPT ![Dir] = {}]
           /\ made' = [made EXCEPT ![Dir] = {}]
           /\ Exit(e)
  <2>1. done' \in [Dirs -> SUBSET Names] /\ made' \in [Dirs -> SUBSET Once]
    BY <1>2, Emptied, DirIsADir DEF TypeOK
  <2>2. metadata' \in Files
    BY <1>2, StatesFacts DEF TypeOK, NoFile, Files
  <2>3. QED
    BY <1>2, <2>1, <2>2 DEF TypeOK, Exit, Exits
<1>3. QED
  BY <1>1, <1>2 DEF cleanup

\* The variables have their types in every reachable state.
THEOREM TypeCorrect == Spec => []TypeOK
<1>1. Init => TypeOK
  <2> SUFFICES ASSUME Init PROVE TypeOK
    OBVIOUS
  <2>1. done \in [Dirs -> SUBSET Names] /\ made \in [Dirs -> SUBSET Once]
    BY Empty DEF Init
  <2>2. metadata \in Files
    BY StatesFacts DEF Init, Files, NoFile, Foreign, Meta
  <2>3. flags \in Flags
    BY StatesFacts DEF Init, Flags, NoFlags
  <2>4. /\ next \in 1..(Len(States) + 1) /\ pc # "stateFunc" /\ runs \in 0..MaxRuns
        /\ currentStep \in Steps /\ stepsTaken \in Nat
    BY StatesFacts, BoundsAssumption DEF Init
  <2>5. shown \subseteq DOMAIN States /\ ran \subseteq DOMAIN States /\ dirs \subseteq Dirs
    BY DEF Init
  <2>6. pc \in Pcs /\ exit \in Exits /\ cleanWorkDir \in BOOLEAN
    BY DEF Init, Pcs, Exits
  <2>7. QED
    BY <2>1, <2>2, <2>3, <2>4, <2>5, <2>6 DEF TypeOK
<1>2. TypeOK /\ [Next]_vars => TypeOK'
  <2> SUFFICES ASSUME TypeOK, [Next]_vars PROVE TypeOK'
    OBVIOUS
  <2> USE StatesFacts, BoundsAssumption
  <2>1. ASSUME NEW f \in Flags, Invoke(f) PROVE TypeOK'
    <3>1. done' \in [Dirs -> SUBSET Names] /\ made' \in [Dirs -> SUBSET Once]
      <4>1. /\ done \in [Dirs -> SUBSET Names]
            /\ made \in [Dirs -> SUBSET Once]
        BY DEF TypeOK
      <4>2. /\ done' = [done EXCEPT !["temp"] = {}]
            /\ made' = [made EXCEPT !["temp"] = {}]
        BY <2>1 DEF Invoke
      <4>3. QED
        BY <4>1, <4>2, Emptied, DirIsADir
    <3>2. QED
      <4>1. /\ pc' \in Pcs /\ exit' \in Exits /\ flags' \in Flags
            /\ cleanWorkDir' \in BOOLEAN /\ pc' # "stateFunc"
        BY <2>1 DEF TypeOK, Invoke, Goto, Pcs
      <4>4. /\ stepsTaken' \in Nat /\ next' \in 1..(Len(States) + 1)
            /\ currentStep' \in Steps
        BY <2>1 DEF Invoke
      <4>5. runs' \in 0..MaxRuns
        BY <2>1 DEF TypeOK, Invoke
      <4>2. /\ shown' \subseteq DOMAIN States /\ ran' \subseteq DOMAIN States
            /\ dirs' \subseteq Dirs /\ metadata' \in Files
        BY <2>1 DEF TypeOK, Invoke
      <4>3. QED
        BY <3>1, <4>1, <4>2, <4>4, <4>5 DEF TypeOK
  <2>2. CASE validateInput
    BY <2>2 DEF TypeOK, validateInput, Goto, Exit, Pcs, Exits, disk
  <2>3. CASE validateUntilThru
    BY <2>3 DEF TypeOK, validateUntilThru, Goto, Exit, Pcs, Exits, disk
  <2>4. CASE readMetadata
    BY <2>4 DEF TypeOK, readMetadata, loadState, afterTaken, Goto, Exit, Pcs,
                Exits, disk, Files
  <2>5. CASE SetSeries
    BY <2>5 DEF TypeOK, SetSeries, afterDisplay, displayStates, Goto, Exit, Pcs,
                Exits, disk
  <2>6. CASE makeTemporaryDirectories
    BY <2>6 DEF TypeOK, makeTemporaryDirectories, markWorkDir, Goto, Exit,
                Pcs, Exits, Dir, Dirs, Flags
  <2>7. CASE determineOutputDirectory
    BY <2>7 DEF TypeOK, determineOutputDirectory, Goto, Exit, Pcs, Exits, disk
  <2>8. CASE Run
    BY <2>8 DEF TypeOK, Run, enterRun, loop, atUntil, Goto, Pcs, disk
  <2>9. CASE stateOk
    <3>1. made' \in [Dirs -> SUBSET Once]
      BY <2>9, Added, DirIsADir, ProductIsOnce DEF stateOk, TypeOK
    <3>2. {States[next]} \in SUBSET Names
      BY <2>9 DEF stateOk, TypeOK
    <3>3. done' \in [Dirs -> SUBSET Names]
      <4>1. done' = [done EXCEPT ![Dir] = @ \cup {States[next]}]
        BY <2>9 DEF stateOk
      <4>2. QED
        BY <4>1, <3>2, Added, DirIsADir DEF TypeOK
    <3>4. QED
      BY <2>9, <3>1, <3>3 DEF TypeOK, stateOk, taken, Goto, Pcs
  <2>10. CASE stateError
    <3>1. made' \in [Dirs -> SUBSET Once]
      BY <2>10, Added, DirIsADir, ProductIsOnce DEF stateError, TypeOK
    <3>2. QED
      BY <2>10, <3>1 DEF TypeOK, stateError, Goto, Pcs
  <2>11. CASE cleanupAfterError
    BY <2>11, CleanupTypes DEF cleanupAfterError, TypeOK, Pcs, Exits
  <2>12. CASE Teardown
    <3>1. CASE cleanWorkDir /\ cleanup("ok")
      BY <2>12, <3>1, CleanupTypes DEF Teardown, TypeOK, Exits, Pcs
    <3>2. CASE ~(cleanWorkDir /\ cleanup("ok"))
      BY <2>12, <3>2 DEF TypeOK, Teardown, leave, finish, Goto, Exit, Pcs, Exits,
                         disk, Torn, Files
    <3>3. QED
      BY <3>1, <3>2
  <2>13. CASE writeMetadata
    BY <2>13 DEF TypeOK, writeMetadata, encoded, Meta, Exit, Pcs, Exits, Files
  <2>14. CASE Kill
    <3>1. made' \in [Dirs -> SUBSET Once]
      <4>1. CASE UNCHANGED made
        BY <4>1 DEF TypeOK
      <4>2. CASE \E new \in SUBSET product :
                   made' = [made EXCEPT ![Dir] = @ \cup new]
        BY <4>2, Added, DirIsADir, ProductIsOnce DEF TypeOK
      <4>3. QED
        BY <2>14, <4>1, <4>2 DEF Kill
    <3>2. QED
      BY <2>14, <3>1 DEF TypeOK, Kill, Exit, Pcs, Exits
  <2>15. CASE UNCHANGED vars
    BY <2>15 DEF TypeOK, vars, process, disk
  <2>16. QED
    BY <2>1, <2>2, <2>3, <2>4, <2>5, <2>6, <2>7, <2>8, <2>9, <2>10, <2>11,
       <2>12, <2>13, <2>14, <2>15 DEF Next, Step, Setup
<1>3. QED
  BY <1>1, <1>2, PTL DEF Spec

-----------------------------------------------------------------------------
(***************************************************************************)
(* CheckpointSound is not inductive: it needs what holds inside a process, *)
(* where StepsTaken and the position of the Run loop agree, every state    *)
(* before that position has completed in the process's directory, a        *)
(* process that resumes has one, and only a process without one removes    *)
(* its directory.  A dry run reaches Run and Teardown having made nothing. *)
(***************************************************************************)
PastMkdir == {"determineOutputDirectory", "Run", "stateFunc", "cleanup",
              "Teardown", "truncated"}

\* Where a process writes.
Writing == {"makeTemporaryDirectories", "determineOutputDirectory",
            "stateFunc", "cleanup", "truncated"}

ProcessInv ==
    /\ pc # "idle" => stepsTaken = next - 1 /\ Prefix(Dir, next - 1)
    /\ pc \notin {"idle", "validateInput"} /\ flags.resume => flags.workDir
    /\ cleanWorkDir => ~flags.workDir /\ ~flags.dryRun
    /\ pc \in PastMkdir /\ ~flags.dryRun /\ ~cleanWorkDir => flags.workDir
    /\ pc = "truncated" => flags.workDir
    /\ pc \notin {"idle"} \cup PastMkdir => "temp" \notin dirs
    /\ pc # "idle" /\ "temp" \in dirs => cleanWorkDir
    /\ flags.dryRun => pc \notin Writing

CheckpointInv == ProcessInv /\ CheckpointSound /\ TempDirRemoved

\* The actions that leave the disk, the flags and the position alone.
LEMMA QuietStep ==
    ASSUME TypeOK, CheckpointInv,
           validateInput \/ validateUntilThru \/ SetSeries
             \/ determineOutputDirectory \/ Run
    PROVE  CheckpointInv'
<1>1. /\ UNCHANGED <<flags, stepsTaken, next, cleanWorkDir, disk>>
      /\ pc # "idle"
  BY DEF validateInput, validateUntilThru, SetSeries,
         determineOutputDirectory, Run, disk
<1>2. UNCHANGED <<dirs, metadata, done>>
  BY <1>1 DEF disk
<1>3. /\ pc' # "truncated"
      /\ pc' \notin {"idle", "validateInput"} /\ flags.resume => flags.workDir
      /\ pc' \in PastMkdir /\ ~flags.dryRun => pc \in PastMkdir
      /\ pc' = "idle" /\ exit' \in {"ok", "stateError"} => pc \notin PastMkdir
      /\ pc' \notin {"idle"} \cup PastMkdir => pc \notin {"idle"} \cup PastMkdir
      /\ flags.dryRun => pc' \notin Writing
  BY DEF validateInput, validateUntilThru, SetSeries, afterDisplay,
         determineOutputDirectory, Run, enterRun, loop, Goto, Exit, PastMkdir,
         Writing, CheckpointInv, ProcessInv
<1>4. Prefix(Dir, next - 1)' <=> Prefix(Dir, next - 1)
  BY <1>1, <1>2 DEF Prefix, Dir
<1>5. CheckpointSound'
  BY <1>2 DEF CheckpointInv, CheckpointSound, Usable, Prefix
<1>6. TempDirRemoved'
  BY <1>1, <1>2, <1>3 DEF CheckpointInv, ProcessInv, TempDirRemoved
<1>7. ProcessInv'
  BY <1>1, <1>2, <1>3, <1>4 DEF CheckpointInv, ProcessInv
<1>8. QED
  BY <1>5, <1>6, <1>7 DEF CheckpointInv

\* Removing the work directory touches the temporary one only.
LEMMA CleanupRemovesTemp ==
    ASSUME TypeOK, CheckpointInv, pc \in PastMkdir, NEW e \in {"ok", "stateError"},
           cleanup(e), UNCHANGED flags
    PROVE  /\ pc' = "idle"
           /\ UNCHANGED metadata /\ done'["given"] = done["given"]
           /\ exit' \in {"ok", "stateError"} => "temp" \notin dirs'
           /\ "given" \in dirs => "given" \in dirs'
<1>1. CASE cleanWorkDir
  <2>1. Dir = "temp" /\ ~flags.workDir
    BY <1>1 DEF CheckpointInv, ProcessInv, Dir
  <2>2. CASE Exit("cleanupError") /\ UNCHANGED disk
    BY <2>2 DEF Exit, disk
  <2>3. CASE /\ Exit(e) /\ dirs' = dirs \ {Dir}
             /\ metadata' = IF flags.workDir THEN NoFile ELSE metadata
             /\ done' = [done EXCEPT ![Dir] = {}]
    BY <2>1, <2>3 DEF Exit, TypeOK, Dirs
  <2>4. QED
    BY <1>1, <2>2, <2>3 DEF cleanup
<1>2. CASE ~cleanWorkDir
  BY <1>2 DEF cleanup, Exit, disk, CheckpointInv, ProcessInv, PastMkdir
<1>3. QED
  BY <1>1, <1>2

LEMMA CheckpointInductive == TypeOK /\ CheckpointInv /\ [Next]_vars => CheckpointInv'
<1> SUFFICES ASSUME TypeOK, CheckpointInv, [Next]_vars PROVE CheckpointInv'
  OBVIOUS
<1> USE StatesFacts
<1>1. ASSUME NEW f \in Flags, Invoke(f) PROVE CheckpointInv'
  <2>1. /\ pc' = "validateInput" /\ next' = 1 /\ stepsTaken' = 0
        /\ cleanWorkDir' = FALSE /\ "temp" \notin dirs'
        /\ metadata' = metadata /\ done'["given"] = done["given"]
    BY <1>1 DEF Invoke, Goto, TypeOK, Dirs
  <2>2. ProcessInv'
    BY <2>1 DEF ProcessInv, Prefix, PastMkdir, Writing
  <2>3. QED
    BY <2>1, <2>2 DEF CheckpointInv, CheckpointSound, Usable, Prefix,
                      TempDirRemoved
<1>2. CASE validateInput \/ validateUntilThru \/ SetSeries
             \/ determineOutputDirectory \/ Run
  BY <1>2, QuietStep
<1>3. CASE readMetadata
  <2>1. /\ UNCHANGED <<flags, cleanWorkDir, dirs, metadata, done>>
        /\ pc = "readMetadata" /\ pc' \in {"idle", "SetSeries"}
        /\ pc' = "idle" => exit' = "setupError"
    BY <1>3 DEF readMetadata, loadState, Goto, Exit, disk
  <2>2. pc' = "SetSeries" => stepsTaken' = next' - 1 /\ Prefix(Dir, next - 1)'
    <3>1. CASE ~flags.resume
      BY <1>3, <2>1, <3>1 DEF readMetadata, CheckpointInv, ProcessInv, Prefix, Dir
    <3>2. CASE flags.resume /\ pc' = "SetSeries"
      <4>1. /\ Usable /\ stepsTaken' = metadata.stepsTaken
            /\ next' = metadata.stepsTaken + 1
        BY <1>3, <3>2 DEF readMetadata, loadState, afterTaken, Goto, Exit,
                          Usable, TypeOK, Files
      <4>2. Dir' = "given"
        BY <2>1, <3>2 DEF CheckpointInv, ProcessInv, Dir
      <4>3. metadata.stepsTaken \in Nat
        BY DEF TypeOK, Files
      <4>4. Prefix("given", metadata.stepsTaken)
        BY <4>1 DEF CheckpointInv, CheckpointSound
      <4>5. QED
        BY <2>1, <4>1, <4>2, <4>3, <4>4 DEF Prefix
    <3>3. QED
      BY <3>1, <3>2
  <2>3. ProcessInv'
    BY <2>1, <2>2 DEF CheckpointInv, ProcessInv, PastMkdir, Writing
  <2>4. QED
    BY <2>1, <2>3 DEF CheckpointInv, CheckpointSound, Usable, Prefix,
                      TempDirRemoved
<1>4. CASE makeTemporaryDirectories
  <2>1. /\ UNCHANGED <<flags, stepsTaken, next, metadata, done>>
        /\ pc = "makeTemporaryDirectories"
        /\ pc' \in {"idle", "determineOutputDirectory"}
        /\ pc' = "idle" => exit' = "setupError"
    BY <1>4 DEF makeTemporaryDirectories, Goto, Exit
  <2>2. /\ cleanWorkDir' => ~flags.workDir /\ ~flags.dryRun
        /\ pc' = "determineOutputDirectory" =>
              /\ ~cleanWorkDir' => flags.workDir
              /\ "temp" \in dirs' => cleanWorkDir'
    <3>1. /\ "temp" \notin dirs /\ (cleanWorkDir => ~flags.workDir)
          /\ ~flags.dryRun
      BY <2>1 DEF CheckpointInv, ProcessInv, PastMkdir, Writing, TypeOK, Flags
    <3>2. CASE UNCHANGED <<cleanWorkDir, dirs>> /\ pc' = "idle"
      BY <3>1, <3>2
    <3>3. CASE dirs' = dirs \cup {Dir} /\ cleanWorkDir' = ~flags.workDir
      <4>1. CASE flags.workDir
        BY <3>1, <3>3, <4>1 DEF Dir
      <4>2. CASE ~flags.workDir
        BY <3>1, <3>3, <4>2 DEF Dir
      <4>3. QED
        BY <4>1, <4>2
    <3>4. QED
      BY <1>4, <3>2, <3>3 DEF makeTemporaryDirectories, markWorkDir, Exit
  <2>3. Prefix(Dir, next - 1)' /\ stepsTaken' = next' - 1
    BY <2>1 DEF CheckpointInv, ProcessInv, Prefix, Dir
  <2>5. (flags.resume => flags.workDir) /\ ~flags.dryRun
    BY <2>1 DEF CheckpointInv, ProcessInv, Writing, TypeOK, Flags
  <2>6. ProcessInv'
    BY <2>1, <2>2, <2>3, <2>5 DEF ProcessInv, PastMkdir
  <2>4. QED
    BY <2>1, <2>6 DEF CheckpointInv, CheckpointSound, Usable, Prefix,
                      TempDirRemoved
<1>5. CASE stateOk
  <2>1. /\ UNCHANGED <<flags, cleanWorkDir, dirs, metadata>>
        /\ pc = "stateFunc" /\ pc' \in {"Run", "Teardown"}
        /\ stepsTaken' = stepsTaken + 1 /\ next' = next + 1
        /\ done' = [done EXCEPT ![Dir] = @ \cup {States[next]}]
    BY <1>5 DEF stateOk, taken, Goto
  <2>2. Prefix(Dir, next - 1) /\ stepsTaken = next - 1 /\ next \in 1..Len(States)
    BY <2>1 DEF CheckpointInv, ProcessInv, TypeOK
  <2>3. /\ Dir' = Dir
        /\ done'[Dir] = done[Dir] \cup {States[next]}
        /\ done["given"] \subseteq done'["given"]
    BY <2>1, DirIsADir DEF Dir, TypeOK
  <2>4. Prefix(Dir, next - 1)'
    <3>1. SUFFICES ASSUME NEW k \in 1..next PROVE States[k] \in done'[Dir]
      BY <2>1, <2>2, <2>3 DEF Prefix
    <3>2. k \in 1..(next - 1) \/ k = next
      BY <2>2
    <3>3. QED
      BY <2>2, <2>3, <3>2 DEF Prefix
  <2>5. ProcessInv'
    BY <2>1, <2>2, <2>4 DEF CheckpointInv, ProcessInv, PastMkdir, Writing
  <2>6. QED
    BY <2>1, <2>3, <2>5 DEF CheckpointInv, CheckpointSound, Usable, Prefix,
                            TempDirRemoved
<1>6. CASE stateError
  <2>1. /\ UNCHANGED <<flags, stepsTaken, next, cleanWorkDir, dirs, metadata, done>>
        /\ pc = "stateFunc" /\ pc' = "cleanup"
    BY <1>6 DEF stateError, Goto
  <2>2. QED
    BY <2>1 DEF CheckpointInv, ProcessInv, PastMkdir, Writing, Prefix, Dir,
                CheckpointSound, Usable, TempDirRemoved
<1>7. CASE cleanupAfterError
  <2>1. /\ UNCHANGED <<flags, cleanWorkDir>> /\ pc \in PastMkdir
        /\ cleanup("stateError")
    BY <1>7 DEF cleanupAfterError, PastMkdir
  <2>2. QED
    BY <2>1, CleanupRemovesTemp DEF CheckpointInv, ProcessInv, CheckpointSound,
             Usable, Prefix, TempDirRemoved, Writing
<1>8. CASE Teardown
  <2>1. UNCHANGED <<flags, stepsTaken, next, cleanWorkDir>> /\ pc = "Teardown"
    BY <1>8 DEF Teardown
  <2>2. CASE cleanWorkDir /\ cleanup("ok")
    BY <2>1, <2>2, CleanupRemovesTemp DEF CheckpointInv, ProcessInv,
             CheckpointSound, Usable, Prefix, TempDirRemoved, PastMkdir, Writing
  <2>3. CASE ~cleanWorkDir /\ Exit("metadataError") /\ UNCHANGED disk
    <3>1. /\ UNCHANGED <<dirs, metadata, done>> /\ pc' = "idle"
          /\ exit' = "metadataError"
      BY <2>3 DEF Exit, disk
    <3>2. CheckpointSound'
      BY <3>1 DEF CheckpointInv, CheckpointSound, Usable, Prefix
    <3>3. QED
      BY <2>1, <3>1, <3>2 DEF CheckpointInv, ProcessInv, TempDirRemoved, PastMkdir,
             Writing
  <2>4. CASE /\ ~flags.dryRun /\ ~cleanWorkDir /\ Goto("truncated")
             /\ metadata' = Torn /\ UNCHANGED <<dirs, done, made>>
    BY <2>1, <2>4 DEF Goto, Torn, CheckpointInv, ProcessInv, CheckpointSound,
             Usable, Prefix, Dir, TempDirRemoved, PastMkdir
  <2>5. CASE flags.dryRun /\ Exit("ok") /\ UNCHANGED disk
    <3>1. /\ UNCHANGED <<dirs, metadata, done>> /\ pc' = "idle" /\ ~cleanWorkDir
      BY <2>5 DEF Exit, disk, CheckpointInv, ProcessInv
    <3>2. "temp" \notin dirs
      BY <2>1, <3>1 DEF CheckpointInv, ProcessInv
    <3>3. CheckpointSound'
      BY <3>1 DEF CheckpointInv, CheckpointSound, Usable, Prefix
    <3>4. QED
      BY <2>1, <3>1, <3>2, <3>3 DEF CheckpointInv, ProcessInv, TempDirRemoved, PastMkdir,
             Writing
  <2>6. QED
    BY <1>8, <2>2, <2>3, <2>4, <2>5 DEF Teardown, leave, finish
<1>9. CASE writeMetadata
  <2>1. /\ UNCHANGED <<flags, cleanWorkDir, dirs, done>>
        /\ pc = "truncated" /\ pc' = "idle"
        /\ metadata' \in {metadata, Meta(stepsTaken, currentStep)}
    BY <1>9 DEF writeMetadata, encoded, Exit
  <2>2. Dir = "given" /\ stepsTaken = next - 1 /\ Prefix("given", stepsTaken)
    BY <2>1 DEF CheckpointInv, ProcessInv, Dir
  <2>3. "temp" \notin dirs'
    BY <2>1 DEF CheckpointInv, ProcessInv
  <2>4. CheckpointSound'
    BY <2>1, <2>2 DEF CheckpointInv, CheckpointSound, Usable, Meta, Prefix
  <2>5. QED
    BY <2>1, <2>3, <2>4 DEF CheckpointInv, ProcessInv, TempDirRemoved, Writing
<1>10. CASE Kill
  <2>1. /\ UNCHANGED <<flags, cleanWorkDir, metadata, done>>
        /\ pc' = "idle" /\ exit' = "killed"
    BY <1>10 DEF Kill, Exit
  <2>2. CheckpointSound'
    BY <2>1 DEF CheckpointInv, CheckpointSound, Usable, Prefix
  <2>3. QED
    BY <2>1, <2>2 DEF CheckpointInv, ProcessInv, TempDirRemoved, PastMkdir, Writing
<1>11. CASE UNCHANGED vars
  BY <1>11 DEF vars, process, disk, CheckpointInv, ProcessInv, CheckpointSound,
               Usable, Prefix, Dir, TempDirRemoved
<1>12. QED
  BY <1>1, <1>2, <1>3, <1>4, <1>5, <1>6, <1>7, <1>8, <1>9, <1>10, <1>11
     DEF Next, Step, Setup

LEMMA CheckpointInvariant == Spec => [](TypeOK /\ CheckpointInv)
<1>1. Init => CheckpointInv
  BY StatesFacts DEF Init, CheckpointInv, ProcessInv, CheckpointSound, Usable,
     NoFile, NoFlags, Foreign, Meta, TempDirRemoved, PastMkdir
<1>2. QED
  BY <1>1, CheckpointInductive, TypeCorrect, PTL DEF Spec

\* No metadata file that can be loaded counts a state that has not completed
\* in that directory, whatever failed or was killed before.
THEOREM CheckpointCorrect == Spec => []CheckpointSound
<1>1. CheckpointInv => CheckpointSound
  BY DEF CheckpointInv
<1>2. QED
  BY <1>1, CheckpointInvariant, PTL

\* A state function is called only where all the states before it completed.
THEOREM OrderCorrect == Spec => []InOrder
<1>1. CheckpointInv => InOrder
  BY DEF CheckpointInv, ProcessInv, InOrder
<1>2. QED
  BY <1>1, CheckpointInvariant, PTL

\* A process that got through Setup and removed its directory, after success
\* or after an error, leaves none behind.
THEOREM TempDirCorrect == Spec => []TempDirRemoved
<1>1. CheckpointInv => TempDirRemoved
  BY DEF CheckpointInv
<1>2. QED
  BY <1>1, CheckpointInvariant, PTL

\* The directory given with --workdir is never removed.
THEOREM WorkDirCorrect == Spec => WorkDirKept
<1>1. TypeOK /\ CheckpointInv /\ [Next]_vars
        => ["given" \in dirs => "given" \in dirs']_vars
  <2> SUFFICES ASSUME TypeOK, CheckpointInv, Next, "given" \in dirs
               PROVE  "given" \in dirs'
    OBVIOUS
  <2>1. CASE \E f \in Flags : Invoke(f)
    BY <2>1 DEF Invoke
  <2>2. CASE cleanupAfterError
    BY <2>2, CleanupRemovesTemp DEF cleanupAfterError, PastMkdir
  <2>3. CASE Teardown
    BY <2>3, CleanupRemovesTemp DEF Teardown, leave, finish, PastMkdir, disk
  <2>4. CASE Setup \/ Run \/ stateOk \/ stateError \/ writeMetadata \/ Kill
    BY <2>4 DEF Setup, validateInput, validateUntilThru, readMetadata,
       SetSeries, makeTemporaryDirectories, determineOutputDirectory, Run,
       stateOk, stateError, writeMetadata, Kill, disk
  <2>5. QED
    BY <2>1, <2>2, <2>3, <2>4 DEF Next, Step
<1>2. QED
  BY <1>1, CheckpointInvariant, PTL DEF Spec, WorkDirKept

-----------------------------------------------------------------------------
(***************************************************************************)
(* The chain of processes implements BuildProgress in the given directory. *)
(***************************************************************************)
savedCount == IF Usable THEN metadata.stepsTaken ELSE -1

LEMMA ProgressInit == Init => Progress!Init
  BY StatesFacts DEF Init, Progress!Init, Usable, NoFile, Foreign, Meta, Dirs

LEMMA ProgressStep ==
    TypeOK /\ CheckpointInv /\ [Next]_vars
      => [Progress!Next]_<<done["given"], savedCount>>
<1> SUFFICES ASSUME TypeOK, CheckpointInv, [Next]_vars,
                    ~UNCHANGED <<done["given"], savedCount>>
             PROVE  Progress!Next
  OBVIOUS
<1> USE StatesFacts
<1>1. ASSUME NEW f \in Flags, Invoke(f) PROVE FALSE
  BY <1>1 DEF Invoke, TypeOK, Dirs, savedCount, Usable
<1>2. CASE Setup \/ Run \/ stateError \/ Kill \/ UNCHANGED vars
  BY <1>2 DEF Setup, validateInput, validateUntilThru, readMetadata,
     SetSeries, makeTemporaryDirectories, determineOutputDirectory, Run,
     stateError, Kill, disk, vars, savedCount, Usable
<1>3. CASE stateOk
  <2>1. /\ next \in DOMAIN States /\ UNCHANGED metadata
        /\ done' = [done EXCEPT ![Dir] = @ \cup {States[next]}]
        /\ Prefix(Dir, next - 1)
    BY <1>3 DEF stateOk, TypeOK, CheckpointInv, ProcessInv
  <2>2. CASE Dir = "temp"
    BY <2>1, <2>2 DEF TypeOK, Dirs, savedCount, Usable
  <2>3. CASE Dir = "given"
    <3>1. Progress!Complete(next)
      BY <2>1, <2>3, DirIsADir DEF Progress!Complete, Progress!Completed, Prefix,
         TypeOK, savedCount, Usable
    <3>2. QED
      BY <2>1, <3>1 DEF Progress!Next
  <2>4. QED
    BY <2>2, <2>3 DEF Dir
<1>4. CASE cleanupAfterError
  BY <1>4, CleanupRemovesTemp DEF cleanupAfterError, PastMkdir, savedCount, Usable
<1>5. CASE Teardown
  <2>1. CASE cleanup("ok")
    BY <1>5, <2>1, CleanupRemovesTemp DEF Teardown, PastMkdir, savedCount, Usable
  <2>2. CASE UNCHANGED disk
    BY <2>2 DEF disk, savedCount, Usable
  <2>3. CASE metadata' = Torn /\ UNCHANGED done
    <3>1. Progress!Lose
      BY <2>3 DEF Progress!Lose, Torn, Usable
    <3>2. QED
      BY <3>1 DEF Progress!Next
  <2>4. QED
    BY <1>5, <2>1, <2>2, <2>3 DEF Teardown, leave, finish
<1>6. CASE writeMetadata
  <2>1. CASE metadata' = metadata
    BY <1>6, <2>1 DEF writeMetadata, savedCount, Usable
  <2>2. CASE metadata' = Meta(stepsTaken, currentStep)
    <3>1. /\ Dir = "given" /\ stepsTaken \in 0..Len(States)
          /\ Prefix("given", stepsTaken) /\ UNCHANGED done
      BY <1>6 DEF writeMetadata, CheckpointInv, ProcessInv, Dir, TypeOK
    <3>2. Progress!Save(stepsTaken)
      BY <2>2, <3>1 DEF Progress!Save, Progress!Completed, Prefix, Usable, Meta
    <3>3. QED
      BY <3>1, <3>2 DEF Progress!Next
  <2>3. QED
    BY <1>6, <2>1, <2>2 DEF writeMetadata, encoded
<1>7. QED
  BY <1>1, <1>2, <1>3, <1>4, <1>5, <1>6 DEF Next, Step

\* Seen from the given directory, the engine is an ordered build whose
\* checkpoint is never ahead of what has completed.
THEOREM ProgressCorrect == Spec => ImplementsProgress
<1>1. QED
  BY ProgressInit, ProgressStep, CheckpointInvariant, PTL
     DEF Spec, ImplementsProgress, Progress!Spec, savedCount

-----------------------------------------------------------------------------
(***************************************************************************)
(* displayStates and Run agree: at the head of the loop, what was shown is *)
(* what has run and what displayStates would show from there.              *)
(***************************************************************************)
InLoop == {"makeTemporaryDirectories", "determineOutputDirectory", "Run",
           "stateFunc"}

ShownInv ==
    /\ pc \notin InLoop \cup {"idle", "cleanup", "Teardown", "truncated"} => ran = {}
    /\ pc \in InLoop => shown = ran \cup displayStates
    /\ pc = "stateFunc" => ~atUntil
    /\ pc = "Teardown" /\ ~flags.dryRun => ran = shown

\* What displayStates lists from a state on: nothing at --until or past the
\* end, that state alone at --thru, or that state and what follows it.
LEMMA DisplayFrom ==
    ASSUME TypeOK
    PROVE  /\ next > Len(States) => displayStates = {}
           /\ next <= Len(States) /\ atUntil => displayStates = {}
           /\ next <= Len(States) /\ ~atUntil /\ States[next] = flags.thru
                => displayStates = {next}
           /\ next <= Len(States) /\ ~atUntil /\ States[next] # flags.thru
                => displayStates = {next} \cup
                     {k \in (next + 1)..Len(States) :
                        \A j \in (next + 1)..k :
                           /\ States[j] # flags.until
                           /\ j < k => States[j] # flags.thru}
<1> USE StatesFacts DEF TypeOK
<1>1. ASSUME NEW k \in next..Len(States)
      PROVE  k = next \/ (k \in (next + 1)..Len(States)
                           /\ next..k = {next} \cup ((next + 1)..k)
                           /\ next < k)
  OBVIOUS
<1>2. next > Len(States) => displayStates = {}
  BY DEF displayStates
<1>3. next <= Len(States) /\ atUntil => displayStates = {}
  BY DEF displayStates, atUntil
<1>4. next <= Len(States) /\ ~atUntil => next \in displayStates
  BY DEF displayStates, atUntil
<1>5. next <= Len(States) /\ States[next] = flags.thru
        => displayStates \subseteq {next}
  BY <1>1 DEF displayStates
<1>6. ASSUME next <= Len(States), ~atUntil, States[next] # flags.thru,
             NEW k \in (next + 1)..Len(States)
      PROVE  k \in displayStates <=>
               \A j \in (next + 1)..k : /\ States[j] # flags.until
                                        /\ j < k => States[j] # flags.thru
  BY <1>1, <1>6 DEF displayStates, atUntil
<1>7. displayStates \subseteq next..Len(States)
  BY DEF displayStates
<1>8. QED
  BY <1>1, <1>2, <1>3, <1>4, <1>5, <1>6, <1>7

LEMMA ShownInductive == TypeOK /\ ShownInv /\ [Next]_vars => ShownInv'
<1> SUFFICES ASSUME TypeOK, ShownInv, [Next]_vars PROVE ShownInv'
  OBVIOUS
<1> USE StatesFacts
<1>1. ASSUME NEW f \in Flags, Invoke(f) PROVE ShownInv'
  BY <1>1 DEF Invoke, Goto, ShownInv, InLoop
<1>2. CASE validateInput \/ validateUntilThru \/ readMetadata
  BY <1>2 DEF validateInput, validateUntilThru, readMetadata, loadState, Goto,
     Exit, ShownInv, InLoop
<1>3. CASE SetSeries
  BY <1>3 DEF SetSeries, afterDisplay, Goto, Exit, ShownInv, InLoop, displayStates
<1>4. CASE makeTemporaryDirectories \/ determineOutputDirectory
  BY <1>4 DEF makeTemporaryDirectories, determineOutputDirectory, Goto, Exit,
     ShownInv, InLoop, displayStates
<1>5. CASE Run
  <2>1. /\ pc = "Run" /\ UNCHANGED <<flags, next, shown, ran>>
        /\ shown = ran \cup displayStates
        /\ next \in 1..(Len(States) + 1)
    BY <1>5 DEF Run, ShownInv, InLoop, TypeOK
  <2>2. CASE pc' = "Teardown" /\ (next > Len(States) \/ atUntil \/ flags.dryRun)
    BY <2>1, <2>2, DisplayFrom DEF ShownInv, InLoop
  <2>3. CASE pc' = "stateFunc" /\ ~atUntil
    BY <2>1, <2>3 DEF ShownInv, InLoop, displayStates, atUntil
  <2>4. QED
    BY <1>5, <2>2, <2>3 DEF Run, enterRun, loop, Goto
<1>6. CASE stateOk
  <2>1. /\ next <= Len(States) /\ ~atUntil /\ shown = ran \cup displayStates
        /\ UNCHANGED <<flags, shown>> /\ next' = next + 1
        /\ ran' = ran \cup {next}
    BY <1>6 DEF stateOk, ShownInv, InLoop, TypeOK
  <2>2. CASE States[next] = flags.thru
    BY <1>6, <2>1, <2>2, DisplayFrom DEF stateOk, Goto, ShownInv, InLoop
  <2>3. CASE States[next] # flags.thru
    <3>1. displayStates = {next} \cup displayStates'
      BY <2>1, <2>3, DisplayFrom DEF displayStates
    <3>2. QED
      BY <1>6, <2>1, <2>3, <3>1 DEF stateOk, Goto, ShownInv, InLoop
  <2>4. QED
    BY <2>2, <2>3
<1>7. CASE stateError \/ cleanupAfterError \/ Teardown \/ writeMetadata \/ Kill
  <2>1. pc' \in {"idle", "cleanup", "truncated"}
    BY <1>7 DEF stateError, cleanupAfterError, Teardown, leave, finish,
       writeMetadata, Kill, cleanup, Goto, Exit
  <2>2. QED
    BY <2>1 DEF ShownInv, InLoop
<1>8. CASE UNCHANGED vars
  BY <1>8 DEF vars, process, ShownInv, displayStates, atUntil
<1>9. QED
  BY <1>1, <1>2, <1>3, <1>4, <1>5, <1>6, <1>7, <1>8 DEF Next, Step, Setup

LEMMA ShownInvariant == Spec => [](TypeOK /\ ShownInv)
<1>1. Init => ShownInv
  BY DEF Init, ShownInv, InLoop
<1>2. QED
  BY <1>1, ShownInductive, TypeCorrect, PTL DEF Spec

\* A process that completes its run has executed exactly the states that
\* displayStates announced.
THEOREM ShownCorrect == Spec => []RunsWhatIsShown
<1>1. ShownInv => RunsWhatIsShown
  BY DEF ShownInv, RunsWhatIsShown
<1>2. QED
  BY <1>1, ShownInvariant, PTL

-----------------------------------------------------------------------------
(***************************************************************************)
(* A process that ends well has saved all that it completed: the position  *)
(* of the loop is past every state it has run, and the file that is        *)
(* written last counts the states before that position.                    *)
(***************************************************************************)
CompleteInv ==
    /\ pc # "idle" => \A k \in ran : k < next
    /\ CheckpointComplete

LEMMA CompleteInductive ==
    TypeOK /\ CheckpointInv /\ ShownInv /\ CompleteInv /\ [Next]_vars => CompleteInv'
<1> SUFFICES ASSUME TypeOK, CheckpointInv, ShownInv, CompleteInv, [Next]_vars
             PROVE  CompleteInv'
  OBVIOUS
<1>1. ASSUME NEW f \in Flags, Invoke(f) PROVE CompleteInv'
  BY <1>1 DEF Invoke, Goto, CompleteInv, CheckpointComplete
<1>2. CASE validateInput \/ validateUntilThru \/ makeTemporaryDirectories
             \/ determineOutputDirectory \/ Run \/ stateError
  <2>1. UNCHANGED <<ran, next>> /\ pc # "idle" /\ (pc' = "idle" => exit' = "setupError")
    BY <1>2 DEF validateInput, validateUntilThru, makeTemporaryDirectories,
       determineOutputDirectory, Run, enterRun, loop, stateError, Goto, Exit
  <2>2. QED
    BY <2>1 DEF CompleteInv, CheckpointComplete
<1>3. CASE readMetadata
  <2>1. ran' = {} /\ (pc' = "idle" => exit' = "setupError")
    BY <1>3 DEF readMetadata, loadState, ShownInv, InLoop, Goto, Exit
  <2>2. QED
    BY <2>1 DEF CompleteInv, CheckpointComplete
<1>4. CASE SetSeries
  <2>1. /\ UNCHANGED <<ran, next, flags>> /\ pc # "idle"
        /\ pc' = "idle" => exit' = "setupError"
    BY <1>4 DEF SetSeries, afterDisplay, Goto, Exit
  <2>2. QED
    BY <2>1 DEF CompleteInv, CheckpointComplete
<1>5. CASE stateOk
  <2>1. pc' # "idle" /\ pc # "idle" /\ next' = next + 1 /\ ran' = ran \cup {next}
    BY <1>5 DEF stateOk, Goto
  <2>2. QED
    BY <2>1, StatesFacts DEF CompleteInv, CheckpointComplete, TypeOK
<1>6. CASE cleanupAfterError \/ Kill
  BY <1>6 DEF cleanupAfterError, cleanup, Kill, Exit, CompleteInv, CheckpointComplete
<1>7. CASE Teardown
  <2>1. UNCHANGED <<ran, next, flags>> /\ pc # "idle"
    BY <1>7 DEF Teardown
  <2>2. pc' = "idle" /\ exit' = "ok" => ~flags.workDir \/ flags.dryRun
    BY <1>7 DEF Teardown, leave, finish, cleanup, Goto, Exit, CheckpointInv, ProcessInv
  <2>3. QED
    BY <2>1, <2>2 DEF CompleteInv, CheckpointComplete
<1>8. CASE writeMetadata
  <2>1. /\ UNCHANGED <<ran, next>> /\ pc # "idle" /\ pc' = "idle"
        /\ stepsTaken = next - 1
    BY <1>8 DEF writeMetadata, Exit, CheckpointInv, ProcessInv
  <2>2. exit' = "ok" => metadata' = Meta(stepsTaken, currentStep)
    BY <1>8 DEF writeMetadata, encoded, Exit
  <2>3. next \in 1..(Len(States) + 1) /\ Len(States) \in Nat /\ ran \subseteq 1..Len(States)
    BY StatesFacts DEF TypeOK
  <2>4. exit' = "ok" => Usable' /\ \A k \in ran : k <= metadata'.stepsTaken
    BY <2>1, <2>2, <2>3 DEF CompleteInv, Usable, Meta
  <2>5. QED
    BY <2>1, <2>4 DEF CompleteInv, CheckpointComplete
<1>9. CASE UNCHANGED vars
  BY <1>9 DEF vars, process, disk, CompleteInv, CheckpointComplete, Usable
<1>10. QED
  BY <1>1, <1>2, <1>3, <1>4, <1>5, <1>6, <1>7, <1>8, <1>9 DEF Next, Step, Setup

\* After a process that ended without an error, the metadata in its directory
\* counts every state that it has completed.
THEOREM CompleteCorrect == Spec => []CheckpointComplete
<1>1. Init => CompleteInv
  BY DEF Init, CompleteInv, CheckpointComplete
<1>2. CompleteInv => CheckpointComplete
  BY DEF CompleteInv
<1>3. QED
  BY <1>1, <1>2, CompleteInductive, CheckpointInvariant, ShownInvariant, PTL DEF Spec

\* With --dry-run, no step of the process touches the disk.
\* Setup goes on to Run and Run to Teardown without having made anything.
THEOREM DryRunCorrect == Spec => DryRunPure
<1>1. CheckpointInv /\ [Next]_vars
        => [pc # "idle" /\ flags.dryRun => UNCHANGED disk]_vars
  <2> SUFFICES ASSUME CheckpointInv, Next, pc # "idle", flags.dryRun
               PROVE  UNCHANGED disk
    OBVIOUS
  <2>1. pc \notin Writing
    BY DEF CheckpointInv, ProcessInv
  <2>2. CASE validateInput \/ validateUntilThru \/ readMetadata \/ SetSeries \/ Run
    BY <2>2 DEF validateInput, validateUntilThru, readMetadata, SetSeries, Run
  <2>3. CASE Kill
    BY <2>1, <2>3 DEF Kill, Writing, disk
  <2>4. CASE Teardown
    BY <2>4 DEF Teardown, leave
  <2>5. QED
    BY <2>1, <2>2, <2>3, <2>4 DEF Next, Step, Setup, Invoke, makeTemporaryDirectories,
       determineOutputDirectory, stateOk, stateError, cleanupAfterError, writeMetadata,
       Writing
<1>2. QED
  BY <1>1, CheckpointInvariant, PTL DEF Spec, DryRunPure

-----------------------------------------------------------------------------
(***************************************************************************)
(* What a process started from scratch announces, and so executes: it      *)
(* knows that --until and --thru name states, and one of them at most.     *)
(***************************************************************************)
Validated ==
    /\ flags.until = NoStep \/ flags.thru = NoStep
    /\ {flags.until, flags.thru} \subseteq Names \cup {NoStep}

FromScratch ==
    {k \in 1..Len(States) :
        \A j \in 1..k : /\ States[j] # flags.until
                        /\ j < k => States[j] # flags.thru}

ScratchInv ==
    /\ pc = "validateUntilThru" => flags.until = NoStep \/ flags.thru = NoStep
    /\ pc \in {"readMetadata", "SetSeries", "Teardown"} \cup InLoop => Validated
    /\ pc \in {"validateInput", "validateUntilThru", "readMetadata"} => next = 1
    /\ pc = "SetSeries" /\ ~flags.resume => next = 1
    /\ pc \in InLoop \cup {"Teardown"} /\ ~flags.resume => shown = FromScratch

LEMMA ScratchInductive == TypeOK /\ ScratchInv /\ [Next]_vars => ScratchInv'
<1> SUFFICES ASSUME TypeOK, ScratchInv, [Next]_vars PROVE ScratchInv'
  OBVIOUS
<1>1. ASSUME NEW f \in Flags, Invoke(f) PROVE ScratchInv'
  BY <1>1 DEF Invoke, Goto, ScratchInv, InLoop
<1>2. CASE validateInput
  BY <1>2 DEF validateInput, Goto, Exit, ScratchInv, InLoop
<1>3. CASE validateUntilThru
  <2>1. /\ UNCHANGED <<flags, next>> /\ pc = "validateUntilThru"
        /\ pc' = "idle" \/ (pc' = "readMetadata" /\ Validated)
    BY <1>3 DEF validateUntilThru, Goto, Exit, ScratchInv, Validated
  <2>2. QED
    BY <2>1 DEF ScratchInv, InLoop, Validated
<1>4. CASE readMetadata
  <2>1. /\ UNCHANGED flags /\ pc = "readMetadata" /\ pc' \in {"idle", "SetSeries"}
        /\ pc' = "SetSeries" /\ ~flags.resume => next' = next
    BY <1>4 DEF readMetadata, loadState, Goto, Exit
  <2>2. QED
    BY <2>1 DEF ScratchInv, InLoop, Validated
<1>5. CASE SetSeries
  <2>1. /\ UNCHANGED <<flags, next>> /\ pc = "SetSeries"
        /\ pc' \in {"idle", "makeTemporaryDirectories", "Run"}
        /\ pc' # "idle" => shown' = displayStates
    BY <1>5 DEF SetSeries, afterDisplay, Goto, Exit
  <2>2. QED
    BY <2>1 DEF ScratchInv, InLoop, Validated, FromScratch, displayStates
<1>6. CASE makeTemporaryDirectories \/ determineOutputDirectory \/ Run \/ stateOk
  <2>1. /\ UNCHANGED <<flags, shown>> /\ pc \in InLoop
        /\ pc' \in InLoop \cup {"idle", "Teardown"}
    BY <1>6 DEF makeTemporaryDirectories, determineOutputDirectory, Run, enterRun, loop,
       stateOk, Goto, Exit, InLoop
  <2>2. QED
    BY <2>1 DEF ScratchInv, InLoop, Validated, FromScratch
<1>7. CASE stateError \/ cleanupAfterError \/ Teardown \/ writeMetadata \/ Kill
  <2>1. pc' \in {"idle", "cleanup", "truncated"}
    BY <1>7 DEF stateError, cleanupAfterError, Teardown, leave, finish,
       writeMetadata, Kill, cleanup, Goto, Exit
  <2>2. QED
    BY <2>1 DEF ScratchInv, InLoop
<1>8. CASE UNCHANGED vars
  BY <1>8 DEF vars, process, ScratchInv, Validated, FromScratch
<1>9. QED
  BY <1>1, <1>2, <1>3, <1>4, <1>5, <1>6, <1>7, <1>8 DEF Next, Step, Setup

\* Names are not repeated in the list: the first state that is called for and
\* the one that is named are the same.
LEMMA FromScratchIsAsked ==
    ASSUME Validated, NEW k \in DOMAIN States
    PROVE  k \in FromScratch <=>
             /\ flags.until # NoStep =>
                    \E j \in DOMAIN States : States[j] = flags.until /\ k < j
             /\ flags.thru # NoStep =>
                    \E j \in DOMAIN States : States[j] = flags.thru /\ k <= j
<1> USE StatesFacts
<1>1. \A i, j \in DOMAIN States : States[i] = States[j] => i = j
  BY StatesAssumption
<1>2. \A j \in DOMAIN States : States[j] # NoStep
  BY StatesAssumption
<1>3. CASE flags.until # NoStep
  <2>1. flags.thru = NoStep
    BY <1>3 DEF Validated
  <2>2. PICK u \in DOMAIN States : States[u] = flags.until
    BY <1>3 DEF Validated, Names
  <2>3. k \in FromScratch <=> \A j \in 1..k : States[j] # flags.until
    BY <1>2, <2>1 DEF FromScratch
  <2>4. (\A j \in 1..k : States[j] # flags.until) <=> k < u
    BY <1>1, <2>2
  <2>5. QED
    BY <1>1, <1>3, <2>1, <2>2, <2>3, <2>4
<1>4. CASE flags.until = NoStep /\ flags.thru # NoStep
  <2>1. PICK t \in DOMAIN States : States[t] = flags.thru
    BY <1>4 DEF Validated, Names
  <2>2. k \in FromScratch <=> \A j \in 1..k : j < k => States[j] # flags.thru
    BY <1>2, <1>4 DEF FromScratch
  <2>3. (\A j \in 1..k : j < k => States[j] # flags.thru) <=> k <= t
    BY <1>1, <2>1
  <2>4. QED
    BY <1>1, <1>4, <2>1, <2>2, <2>3
<1>5. CASE flags.until = NoStep /\ flags.thru = NoStep
  BY <1>2, <1>5 DEF FromScratch
<1>6. QED
  BY <1>3, <1>4, <1>5

\* A process started from scratch executes the states before --until, up to
\* and including --thru, or all of them.
THEOREM StopCorrect == Spec => []StopsWhereAsked
<1>1. Init => ScratchInv
  BY DEF Init, ScratchInv, InLoop
<1>2. TypeOK /\ ShownInv /\ ScratchInv => StopsWhereAsked
  <2> SUFFICES ASSUME ShownInv, ScratchInv, pc = "Teardown", ~flags.resume,
                      ~flags.dryRun, NEW k \in DOMAIN States
               PROVE  k \in ran <=>
                        /\ flags.until # NoStep =>
                             \E j \in DOMAIN States : States[j] = flags.until /\ k < j
                        /\ flags.thru # NoStep =>
                             \E j \in DOMAIN States : States[j] = flags.thru /\ k <= j
    BY DEF StopsWhereAsked
  <2>1. ran = FromScratch /\ Validated
    BY DEF ShownInv, ScratchInv, InLoop
  <2>2. QED
    BY <2>1, FromScratchIsAsked
<1>3. QED
  BY <1>1, <1>2, ScratchInductive, ShownInvariant, PTL DEF Spec
=============================================================================
