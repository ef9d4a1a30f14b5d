---------------------------- MODULE StateMachine ----------------------------
(***************************************************************************)
(* The engine every ubuntu-image build runs on: the life of one process    *)
(* (Setup, Run, Teardown, driven by executeStateMachine) and what a chain  *)
(* of processes leaves in the directory given with --workdir, where a      *)
(* later process may continue with --resume.                               *)
(*                                                                         *)
(* A state function is a name.  It succeeds or returns an error, and the   *)
(* process may be killed (or panic) at any point; what the function does   *)
(* to the image is not represented here, only that it completed, and, for  *)
(* the functions in Once, that the directory it refuses to recreate        *)
(* exists.                                                                 *)
(***************************************************************************)
EXTENDS Integers, Sequences

CONSTANTS
    States,   \* names of the state functions, in order: stateMachine.states
    NoStep,   \* the empty --until or --thru, the empty CurrentStep
    Unknown,  \* a name that is not one of the states
    Once,     \* names whose function fails when its product already exists
    MaxRuns   \* bound: processes started one after the other

Names == {States[k] : k \in DOMAIN States}

ASSUME StatesAssumption ==
    /\ States \in Seq(Names)
    /\ \A j, k \in DOMAIN States : States[j] = States[k] => j = k
    /\ NoStep \notin Names /\ Unknown \notin Names /\ NoStep # Unknown

ASSUME BoundsAssumption ==
    /\ MaxRuns \in Nat
    /\ Once \subseteq Names

(***************************************************************************)
(* The options that steer the engine.  workDir says whether --workdir was  *)
(* given; without it the work directory is a fresh one under /var/tmp.     *)
(***************************************************************************)
Steps == Names \cup {NoStep, Unknown}
Flags == [until : Steps, thru : Steps,
          resume : BOOLEAN, workDir : BOOLEAN, dryRun : BOOLEAN]

NoFlags == [until |-> NoStep, thru |-> NoStep,
            resume |-> FALSE, workDir |-> FALSE, dryRun |-> FALSE]

Dirs == {"given", "temp"}

\* The metadata file ubuntu-image.json: absent, cut short, or readable.
NoFile == [kind |-> "none", stepsTaken |-> 0, currentStep |-> NoStep]
Torn   == [kind |-> "torn", stepsTaken |-> 0, currentStep |-> NoStep]
Meta(n, s) == [kind |-> "json", stepsTaken |-> n, currentStep |-> s]

\* Left in the given directory by a build with more states than this one.
Foreign == Meta(Len(States) + 1, Unknown)

VARIABLES
    pc,             \* where the process is
    flags,          \* commonFlags and stateMachineFlags
    stepsTaken,     \* StepsTaken
    currentStep,    \* CurrentStep
    next,           \* index in States of the state the Run loop looks at
    cleanWorkDir,   \* cleanWorkDir
    shown,          \* indices of the states displayStates lists
    ran,            \* history: indices of the states this process completed
    exit,           \* how the last process ended
    runs,           \* processes started so far
    dirs,           \* which work directories exist
    metadata,       \* ubuntu-image.json in the given directory
    done,           \* history: names completed, by directory
    made            \* names of Once whose product exists, by directory

process == <<pc, flags, stepsTaken, currentStep, next, cleanWorkDir,
             shown, ran, exit, runs>>
disk    == <<dirs, metadata, done, made>>
vars    == <<process, disk>>

Dir == IF flags.workDir THEN "given" ELSE "temp"

Pcs == {"idle", "validateInput", "validateUntilThru", "readMetadata",
        "SetSeries", "makeTemporaryDirectories", "determineOutputDirectory",
        "Run", "stateFunc", "cleanup", "Teardown", "truncated"}

\* The ways a process ends: without an error; with an error of Setup, of a
\* state function, of a cleanup, of writeMetadata; killed.
Exits == {"none", "ok", "setupError", "stateError", "cleanupError",
          "metadataError", "killed"}

Init ==
    /\ pc = "idle" /\ flags = NoFlags /\ stepsTaken = 0
    /\ currentStep = NoStep /\ next = 1 /\ cleanWorkDir = FALSE
    /\ shown = {} /\ ran = {} /\ exit = "none" /\ runs = 0
    /\ dirs = {}
    /\ metadata \in {NoFile, Foreign}
    /\ done = [d \in Dirs |-> {}] /\ made = [d \in Dirs |-> {}]

Goto(l) == pc' = l /\ exit' = exit
Exit(e) == pc' = "idle" /\ exit' = e

-----------------------------------------------------------------------------
(***************************************************************************)
(* main and initStateMachine: a new process, with its own flags and, when  *)
(* it will need one, its own temporary directory name.                     *)
(***************************************************************************)
Invoke(f) ==
    /\ pc = "idle" /\ runs < MaxRuns
    /\ Goto("validateInput")
    /\ flags' = f /\ stepsTaken' = 0 /\ currentStep' = NoStep /\ next' = 1
    /\ cleanWorkDir' = FALSE /\ shown' = {} /\ ran' = {} /\ runs' = runs + 1
    /\ dirs' = dirs \ {"temp"}
    /\ done' = [done EXCEPT !["temp"] = {}]
    /\ made' = [made EXCEPT !["temp"] = {}]
    /\ UNCHANGED metadata

\* --until with --thru, and --resume without --workdir, are refused.
validateInput ==
    /\ pc = "validateInput"
    /\ IF \/ flags.until # NoStep /\ flags.thru # NoStep
          \/ flags.resume /\ ~flags.workDir
       THEN Exit("setupError")
       ELSE Goto("validateUntilThru")
    /\ UNCHANGED <<flags, stepsTaken, currentStep, next, cleanWorkDir, shown,
                   ran, runs, disk>>

\* The STEP must be one of the states, those already taken included.
\* Parsing the image definition, in between, may fail.
validateUntilThru ==
    /\ pc = "validateUntilThru"
    /\ LET searchState == IF flags.thru # NoStep THEN flags.thru
                          ELSE flags.until
       IN  \/ searchState \in Names \cup {NoStep} /\ Goto("readMetadata")
           \/ Exit("setupError")
    /\ UNCHANGED <<flags, stepsTaken, currentStep, next, cleanWorkDir, shown,
                   ran, runs, disk>>

\* loadState drops the first StepsTaken states from the list: the Run loop
\* starts after them.
afterTakenSkipsOne == metadata.stepsTaken + 2
afterTaken == metadata.stepsTaken + 1

loadState ==
    /\ stepsTaken' = metadata.stepsTaken
    /\ IF metadata.stepsTaken > Len(States)
       THEN Exit("setupError") /\ UNCHANGED <<currentStep, next>>
       ELSE /\ Goto("SetSeries")
            /\ next' = afterTaken
            /\ currentStep' = metadata.currentStep

readMetadata ==
    /\ pc = "readMetadata"
    /\ \/ ~flags.resume /\ Goto("SetSeries")
          /\ UNCHANGED <<stepsTaken, currentStep, next>>
       \/ flags.resume /\ metadata.kind # "json" /\ Exit("setupError")
          /\ UNCHANGED <<stepsTaken, currentStep, next>>
       \/ flags.resume /\ metadata.kind = "json" /\ loadState
    /\ UNCHANGED <<flags, cleanWorkDir, shown, ran, runs, disk>>

\* displayStates walks the remaining states and stops before --until or
\* after --thru.
displayThroughUntil ==
    {k \in next..Len(States) :
        \A j \in next..k : j < k => States[j] \notin {flags.until, flags.thru}}
displayStates ==
    {k \in next..Len(States) :
        \A j \in next..k : /\ States[j] # flags.until
                           /\ j < k => States[j] # flags.thru}

\* SetSeries may fail (snap: the model assertion is read and decoded).
\* With --dry-run Setup returns there, without an error: main goes on to Run.
afterDisplayWithoutDryRun == Goto("makeTemporaryDirectories")
afterDisplay == IF flags.dryRun THEN Goto("Run")
                ELSE Goto("makeTemporaryDirectories")

SetSeries ==
    /\ pc = "SetSeries"
    /\ \/ Exit("setupError") /\ UNCHANGED shown
       \/ /\ afterDisplay
          /\ shown' = displayStates
    /\ UNCHANGED <<flags, stepsTaken, currentStep, next, cleanWorkDir, ran,
                   runs, disk>>

\* The work directory, then scratch, root and unpack in it; each mkdir may
\* fail.  Only a temporary directory is marked for removal.
markAnyWorkDir == TRUE
markWorkDir == ~flags.workDir

makeTemporaryDirectories ==
    /\ pc = "makeTemporaryDirectories"
    /\ \/ Exit("setupError") /\ UNCHANGED <<cleanWorkDir, dirs>>
       \/ /\ dirs' = dirs \cup {Dir}
          /\ cleanWorkDir' = markWorkDir
          /\ \/ Exit("setupError")
             \/ Goto("determineOutputDirectory")
    /\ UNCHANGED <<flags, stepsTaken, currentStep, next, shown, ran, runs,
                   metadata, done, made>>

determineOutputDirectory ==
    /\ pc = "determineOutputDirectory"
    /\ Exit("setupError") \/ Goto("Run")
    /\ UNCHANGED <<flags, stepsTaken, currentStep, next, cleanWorkDir, shown,
                   ran, runs, disk>>

-----------------------------------------------------------------------------
atUntilOrThru == States[next] \in {flags.until, flags.thru}
atUntil == States[next] = flags.until

\* Head of the Run loop: no state left, the --until state, or call the state.
loop ==
    IF next > Len(States)
    THEN Goto("Teardown") /\ UNCHANGED currentStep
    ELSE /\ currentStep' = States[next]
         /\ IF atUntil THEN Goto("Teardown") ELSE Goto("stateFunc")

\* Run tests --dry-run itself, before the loop.
enterRunWithoutDryRun == loop
enterRun == IF flags.dryRun THEN Goto("Teardown") /\ UNCHANGED currentStep
            ELSE loop

Run ==
    /\ pc = "Run"
    /\ enterRun
    /\ UNCHANGED <<flags, stepsTaken, next, cleanWorkDir, shown, ran, runs,
                   disk>>

\* What the state function refuses to find already there.
product == {States[next]} \cap Once

takenUnlessThru == IF States[next] = flags.thru THEN stepsTaken
                   ELSE stepsTaken + 1
taken == stepsTaken + 1

\* The state function returned nil.
stateOk ==
    /\ pc = "stateFunc"
    /\ product \cap made[Dir] = {}
    /\ IF States[next] = flags.thru THEN Goto("Teardown") ELSE Goto("Run")
    /\ stepsTaken' = taken
    /\ next' = next + 1
    /\ ran' = ran \cup {next}
    /\ done' = [done EXCEPT ![Dir] = @ \cup {States[next]}]
    /\ made' = [made EXCEPT ![Dir] = @ \cup product]
    /\ UNCHANGED <<flags, currentStep, cleanWorkDir, shown, runs, dirs,
                   metadata>>

stateErrorRetried ==
    /\ pc = "stateFunc"
    /\ Goto("Run")
    /\ UNCHANGED <<flags, stepsTaken, currentStep, next, cleanWorkDir, shown,
                   ran, runs, disk>>

\* It returned an error, before or after making its product.
stateError ==
    /\ pc = "stateFunc"
    /\ Goto("cleanup")
    /\ \E new \in SUBSET product : made' = [made EXCEPT ![Dir] = @ \cup new]
    /\ UNCHANGED <<flags, stepsTaken, currentStep, next, cleanWorkDir, shown,
                   ran, runs, dirs, metadata, done>>

\* cleanup removes the work directory when it is a temporary one; removing
\* the given one would take the metadata with it.  RemoveAll may fail.
cleanup(ok) ==
    IF cleanWorkDir
    THEN \/ /\ Exit(ok)
            /\ dirs' = dirs \ {Dir}
            /\ metadata' = IF flags.workDir THEN NoFile ELSE metadata
            /\ done' = [done EXCEPT ![Dir] = {}]
            /\ made' = [made EXCEPT ![Dir] = {}]
         \/ Exit("cleanupError") /\ UNCHANGED disk
    ELSE Exit(ok) /\ UNCHANGED disk

noCleanupAfterError ==
    /\ pc = "cleanup"
    /\ Exit("stateError")
    /\ UNCHANGED <<flags, stepsTaken, currentStep, next, cleanWorkDir, shown,
                   ran, runs, disk>>
cleanupAfterError ==
    /\ pc = "cleanup"
    /\ cleanup("stateError")
    /\ UNCHANGED <<flags, stepsTaken, currentStep, next, cleanWorkDir, shown,
                   ran, runs>>

\* Remove the temporary directory, or open the metadata file, which
\* truncates it unless opening fails.
finish ==
    \/ cleanWorkDir /\ cleanup("ok")
    \/ ~cleanWorkDir /\ Exit("metadataError") /\ UNCHANGED disk
    \/ ~cleanWorkDir /\ Goto("truncated") /\ metadata' = Torn
       /\ UNCHANGED <<dirs, done, made>>

\* Teardown tests --dry-run a third time.
leaveWithoutDryRun == finish
leave == IF flags.dryRun THEN Exit("ok") /\ UNCHANGED disk ELSE finish

Teardown ==
    /\ pc = "Teardown"
    /\ leave
    /\ UNCHANGED <<flags, stepsTaken, currentStep, next, cleanWorkDir, shown,
                   ran, runs>>

encodedCountsCurrent == Meta(next, currentStep)
encoded == Meta(stepsTaken, currentStep)

\* Encoding or writing the metadata fails, or the file is complete.
writeMetadata ==
    /\ pc = "truncated"
    /\ \/ Exit("metadataError") /\ UNCHANGED metadata
       \/ Exit("ok") /\ metadata' = encoded
    /\ UNCHANGED <<flags, stepsTaken, currentStep, next, cleanWorkDir, shown,
                   ran, runs, dirs, done, made>>

\* The process is killed or panics.  A state function may have made its
\* product.
Kill ==
    /\ pc # "idle"
    /\ Exit("killed")
    /\ \/ UNCHANGED made
       \/ /\ pc = "stateFunc"
          /\ \E new \in SUBSET product : made' = [made EXCEPT ![Dir] = @ \cup new]
    /\ UNCHANGED <<flags, stepsTaken, currentStep, next, cleanWorkDir, shown,
                   ran, runs, dirs, metadata, done>>

Setup == \/ validateInput \/ validateUntilThru \/ readMetadata \/ SetSeries
         \/ makeTemporaryDirectories \/ determineOutputDirectory

Step == \/ Setup
        \/ Run \/ stateOk \/ stateError \/ cleanupAfterError
        \/ Teardown \/ writeMetadata

Next == (\E f \in Flags : Invoke(f)) \/ Step \/ Kill

Spec == Init /\ [][Next]_vars

\* Every call the process makes returns: it keeps taking steps.
FairSpec == Spec /\ WF_vars(Step)

-----------------------------------------------------------------------------
Files == [kind : {"none", "torn", "json"}, stepsTaken : Nat,
          currentStep : Steps]

\* Type of the variables.
TypeOK ==
    /\ pc \in Pcs /\ flags \in Flags /\ stepsTaken \in Nat
    /\ currentStep \in Steps /\ next \in 1..(Len(States) + 1)
    /\ pc = "stateFunc" => next <= Len(States)
    /\ cleanWorkDir \in BOOLEAN
    /\ shown \subseteq DOMAIN States /\ ran \subseteq DOMAIN States
    /\ exit \in Exits /\ runs \in 0..MaxRuns
    /\ dirs \subseteq Dirs /\ metadata \in Files
    /\ done \in [Dirs -> SUBSET Names] /\ made \in [Dirs -> SUBSET Once]

\* The first n states have completed in directory d.
Prefix(d, n) == \A k \in 1..n : States[k] \in done[d]

\* The metadata can be resumed from.
Usable == metadata.kind = "json" /\ metadata.stepsTaken <= Len(States)

\* loadState skips the first StepsTaken states without looking at the work
\* directory.  That is sound: whatever failed, was killed or was resumed
\* before, a metadata file that can be loaded never counts a state that has
\* not completed in that directory.
CheckpointSound == Usable => Prefix("given", metadata.stepsTaken)

\* Nor does it lose one: after a process that ended without an error in a
\* given directory, the metadata counts every state the process completed.
CheckpointComplete ==
    pc = "idle" /\ exit = "ok" /\ flags.workDir /\ ~flags.dryRun =>
        Usable /\ \A k \in ran : k <= metadata.stepsTaken

\* The Run loop calls a state function only in a directory where every state
\* before it in the list has completed, in this process or one it resumes.
InOrder == pc = "stateFunc" => Prefix(Dir, next - 1)

\* displayStates and Run walk the list separately; a process that completes
\* its run has executed exactly the states it announced, unless --dry-run
\* asked to announce only.
RunsWhatIsShown == pc = "Teardown" /\ ~flags.dryRun => ran = shown

\* A process started from scratch executes the states before --until, up to
\* and including --thru, or all of them.
StopsWhereAsked ==
    pc = "Teardown" /\ ~flags.resume /\ ~flags.dryRun =>
        \A k \in DOMAIN States :
            k \in ran <=>
                /\ flags.until # NoStep =>
                       \E j \in DOMAIN States : States[j] = flags.until /\ k < j
                /\ flags.thru # NoStep =>
                       \E j \in DOMAIN States : States[j] = flags.thru /\ k <= j

\* Once Run has been entered, no way out of the process but being killed or
\* failing to remove it leaves the temporary work directory behind.
TempDirRemoved ==
    exit \in {"ok", "stateError"} /\ pc = "idle" => "temp" \notin dirs

\* The directory given with --workdir, with the metadata of an earlier run
\* in it, is never removed.
WorkDirKept == []["given" \in dirs => "given" \in dirs']_vars

\* With --dry-run nothing is written.  Setup, Run and Teardown test the option
\* one after the other, and each would write without its test: directories,
\* the products of the states, the metadata of an earlier process.
DryRunPure == [][pc # "idle" /\ flags.dryRun => UNCHANGED disk]_vars

\* Every process ends.
Terminates == (pc # "idle") ~> (pc = "idle")

-----------------------------------------------------------------------------
(***************************************************************************)
(* What the engine promises to a user who keeps a work directory.          *)
(***************************************************************************)
Progress == INSTANCE BuildProgress WITH
                done  <- done["given"],
                saved <- IF Usable THEN metadata.stepsTaken ELSE -1

\* Seen from the given directory, the chain of processes is an ordered build
\* with a checkpoint that is never ahead of it.
ImplementsProgress == Progress!Spec

-----------------------------------------------------------------------------
(***************************************************************************)
(* What the options' descriptions say and the code does not do.            *)
(***************************************************************************)
\* "Resuming should now work from any state": a resumed process is not
\* stopped by the product of a state that had completed.
ResumeNotBlocked ==
    pc = "stateFunc" /\ flags.resume =>
        ~(States[next] \in made[Dir] /\ States[next] \in done[Dir])
=============================================================================
