----------------------------- MODULE AptSources -----------------------------
(***************************************************************************)
(* The apt configuration of the chroot of a classic image: sources.list,   *)
(* the deb822 file ubuntu.sources, one file per extra PPA, and the signing *)
(* keys of the PPAs in trusted.gpg.d.  State functions write it to build   *)
(* the image, install packages from it, and rewrite it for the image.      *)
(*                                                                         *)
(* A state function works item by item and may fail at any of them, having *)
(* done part of the work.  A failed process does not write the metadata    *)
(* file: a resumed one starts again where the last process that succeeded  *)
(* stopped, at this state function or at any before it (see StateMachine). *)
(***************************************************************************)
EXTENDS Integers, Sequences, FiniteSets

CONSTANTS
    Configs,        \* image definitions considered
    TarballSuites,  \* suites the sources files of rootfs tarballs may list
    MaxFailures     \* bound: failures of the environment

Pockets == {"release", "security", "updates", "proposed"}
Files == {"sources.list", "ubuntu.sources"}

\* What a pocket includes, as documented, in both spellings of the schema.
PocketIncludes ==
    LET updates == {"release", "security", "updates"}
        proposed == updates \cup {"proposed"}
    IN [release  |-> {"release"},             Release  |-> {"release"},
        security |-> {"release", "security"}, Security |-> {"release", "security"},
        updates  |-> updates,                 Updates  |-> updates,
        proposed |-> proposed,                Proposed |-> proposed]

ASSUME BoundAssumption == MaxFailures \in Nat

ASSUME TarballAssumption == TarballSuites \subseteq SUBSET Pockets

\* What validation accepts, with one entry per PPA: that an extra PPA is not
\* listed twice, kept once and not kept once, is not validated.
ASSUME DefinitionAssumption ==
    \A c \in Configs :
        /\ c.rootfs \in {"seed", "tarball"} /\ c.deb822 \in BOOLEAN
        /\ c.buildPocket \in DOMAIN PocketIncludes /\ c.pocket \in DOMAIN PocketIncludes
        /\ c.ppas \in Seq([name : STRING, keepEnabled : BOOLEAN])
        /\ \A i, j \in DOMAIN c.ppas : c.ppas[i].name = c.ppas[j].name => i = j

(***************************************************************************)
(* Contents of the sources lists.  An entry is a mirror, a suite (named    *)
(* for its pocket) and the name of a list of components: that of the       *)
(* rootfs or that of the customization.                                    *)
(***************************************************************************)
Entry(mirror, suite, components) ==
    [mirror |-> mirror, suite |-> suite, components |-> components]

SuitesOf(entries) == {e.suite : e \in entries}

noFallbackMirror(c) == IF c.arch \in {"amd64", "i386"} THEN "security mirror" ELSE ""
securityMirror(c) ==
    IF c.arch \in {"amd64", "i386"} THEN "security mirror" ELSE "mirror"

\* The schema accepts every pocket with a capital too.
asWritten(pocket) == pocket
ToLower(pocket) ==
    CASE pocket = "Release"  -> "release"
      [] pocket = "Security" -> "security"
      [] pocket = "Updates"  -> "updates"
      [] pocket = "Proposed" -> "proposed"
      [] OTHER -> pocket

updatesOnly(c, components, pocket) ==
    LET releaseSource  == Entry("mirror", "release", components)
        updatesSource  == Entry("mirror", "updates", components)
        proposedSource == Entry("mirror", "proposed", components)
    IN CASE pocket = "updates" -> {releaseSource, updatesSource}
         [] pocket = "proposed" -> {releaseSource, updatesSource, proposedSource}
         [] OTHER -> {releaseSource}
generateLegacySourcesList(c, components, pocket) ==
    LET releaseSource  == Entry("mirror", "release", components)
        securitySource == Entry(securityMirror(c), "security", components)
        updatesSource  == Entry("mirror", "updates", components)
        proposedSource == Entry("mirror", "proposed", components)
    IN CASE pocket = "release"  -> {releaseSource}
         [] pocket = "security" -> {releaseSource, securitySource}
         [] pocket = "updates"  -> {releaseSource, securitySource, updatesSource}
         [] pocket = "proposed" -> {releaseSource, securitySource, updatesSource,
                                    proposedSource}
         [] OTHER -> {}

\* The pocket depends on the target, the components do not.
legacySourcesList(c, target) ==
    generateLegacySourcesList(c, "customization",
        ToLower(IF target THEN c.pocket ELSE c.buildPocket))

\* Each pocket falls through to the next one; security stands alone.
generateDeb822Section(mirror, components, pocket) ==
    LET suites == CASE pocket = "security" -> {"security"}
                    [] pocket = "proposed" -> {"proposed", "updates", "release"}
                    [] pocket = "updates"  -> {"updates", "release"}
                    [] pocket = "release"  -> {"release"}
                    [] OTHER -> {}
    IN {Entry(mirror, s, components) : s \in suites}

deb822SourcesList(c, target) ==
    generateDeb822Section("mirror", "rootfs",
        ToLower(IF target THEN c.pocket ELSE c.buildPocket))
      \cup generateDeb822Section(securityMirror(c), "rootfs", "security")

\* The files written, in order, to build the image and for the image itself.
\* In deb822 format sources.list is left with a comment only.
deb822Only(c, target) ==
    IF c.deb822 THEN <<[file |-> "ubuntu.sources",
                        content |-> deb822SourcesList(c, target)]>>
    ELSE <<[file |-> "sources.list", content |-> legacySourcesList(c, target)]>>
customizeSourcesList(c, target) ==
    IF c.deb822
    THEN <<[file |-> "ubuntu.sources", content |-> deb822SourcesList(c, target)],
           [file |-> "sources.list",   content |-> {}]>>
    ELSE <<[file |-> "sources.list",   content |-> legacySourcesList(c, target)]>>

\* The state functions that read or write the apt configuration.  Packages of
\* the rootfs are upgraded unless it was made from the release pocket.
StepsOf(c) ==
    <<"create_rootfs">>
      \o (IF c.buildPocket # "release" THEN <<"upgrade_packages">> ELSE <<>>)
      \o (IF c.ppas # <<>>
          THEN <<"add_extra_ppas", "install_packages", "clean_extra_ppas">>
          ELSE <<"install_packages">>)
      \o <<"customize_sources_list">>

-----------------------------------------------------------------------------
VARIABLES
    imageDef,    \* the image definition
    original,    \* what debootstrap or the tarball leaves in each sources list
    files,       \* entries of each sources list
    ppaFiles,    \* PPAs with a file in sources.list.d
    keys,        \* PPAs with a key in trusted.gpg.d
    step,        \* StepsTaken + 1
    item,        \* next item of the current state function
    used,        \* history: configuration when apt last installed or upgraded
    retargeted,  \* history: whether the sources of the target have been written
    error,       \* "none", "environment", "missing" (removing a missing file)
                 \* or "exists" (importing a key that is there)
    failures     \* failures of the environment so far

vars == <<imageDef, original, files, ppaFiles, keys, step, item, used, retargeted,
          error, failures>>

Steps == StepsOf(imageDef)
done == step > Len(Steps)
current == IF done THEN "none" ELSE Steps[step]

PPANames == {imageDef.ppas[i].name : i \in DOMAIN imageDef.ppas}

\* The writes of the current state function: the build's for a rootfs created
\* from a seed, none for a tarball, the target's at the end.
sourcesWritten ==
    CASE current = "create_rootfs" /\ imageDef.rootfs = "seed" ->
           customizeSourcesList(imageDef, FALSE)
      [] current = "customize_sources_list" -> customizeSourcesList(imageDef, TRUE)
      [] OTHER -> <<>>

ppasHandled ==
    IF current \in {"add_extra_ppas", "clean_extra_ppas"} THEN imageDef.ppas ELSE <<>>

Items == Len(sourcesWritten) + Len(ppasHandled)

\* debootstrap writes sources.list; a tarball may come with either file, or
\* both, whatever the format the definition asks for.
Foreign(suites) == {Entry("elsewhere", s, "rootfs") : s \in suites}

Init ==
    /\ imageDef \in Configs
    /\ \/ /\ imageDef.rootfs = "seed"
          /\ original = [f \in Files |->
                            IF f = "sources.list" THEN Foreign({"release"}) ELSE {}]
       \/ /\ imageDef.rootfs = "tarball"
          /\ original \in [Files -> {Foreign(suites) : suites \in TarballSuites}]
    /\ files = original
    /\ ppaFiles = {} /\ keys = {}
    /\ step = 1 /\ item = 1
    /\ used = [entries |-> {}, ppas |-> {}, early |-> TRUE]
    /\ retargeted = FALSE
    /\ error = "none" /\ failures = 0

running == error = "none" /\ ~done

\* setLegacySourcesList, setDeb822SourcesList: the file is replaced.
WriteSources ==
    /\ running
    /\ item \in DOMAIN sourcesWritten
    /\ files' = [files EXCEPT ![sourcesWritten[item].file] = sourcesWritten[item].content]
    /\ item' = item + 1
    /\ retargeted' = (retargeted \/ current = "customize_sources_list")
    /\ UNCHANGED <<imageDef, original, ppaFiles, keys, step, used, error, failures>>

\* PPA.Add: the key, which a deb822 file holds itself, then the file.  gpg, in
\* batch mode, does not overwrite a key.
AddPPA ==
    /\ running /\ current = "add_extra_ppas"
    /\ item \in DOMAIN ppasHandled
    /\ LET name == ppasHandled[item].name IN
       IF ~imageDef.deb822 /\ name \in keys
       THEN error' = "exists" /\ UNCHANGED <<ppaFiles, keys, item>>
       ELSE /\ keys' = IF imageDef.deb822 THEN keys ELSE keys \cup {name}
            /\ ppaFiles' = ppaFiles \cup {name}
            /\ item' = item + 1
            /\ UNCHANGED error
    /\ UNCHANGED <<imageDef, original, files, step, used, retargeted, failures>>

\* PPA.Remove: the file unless it is to be kept, then the key in any case.
\* Removing what is not there is an error.
RemoveAlways(ppa) ==
    /\ ppaFiles' = ppaFiles \ {ppa.name}
    /\ keys' = keys \ {ppa.name}
    /\ item' = item + 1
    /\ UNCHANGED error
RemoveIfThere(ppa) ==
    /\ ppaFiles' = IF ppa.keepEnabled THEN ppaFiles ELSE ppaFiles \ {ppa.name}
    /\ keys' = IF imageDef.deb822 THEN keys ELSE keys \ {ppa.name}
    /\ item' = item + 1
    /\ UNCHANGED error
Remove(ppa) ==
    IF ~ppa.keepEnabled /\ ppa.name \notin ppaFiles
    THEN error' = "missing" /\ UNCHANGED <<ppaFiles, keys, item>>
    ELSE /\ ppaFiles' = IF ppa.keepEnabled THEN ppaFiles ELSE ppaFiles \ {ppa.name}
         /\ IF ~imageDef.deb822 /\ ppa.name \notin keys
            THEN error' = "missing" /\ UNCHANGED <<keys, item>>
            ELSE /\ keys' = IF imageDef.deb822 THEN keys ELSE keys \ {ppa.name}
                 /\ item' = item + 1
                 /\ UNCHANGED error

RemovePPA ==
    /\ running /\ current = "clean_extra_ppas"
    /\ item \in DOMAIN ppasHandled
    /\ Remove(ppasHandled[item])
    /\ UNCHANGED <<imageDef, original, files, step, used, retargeted, failures>>

\* upgrade_packages and install_packages run apt on what is configured.
runApt ==
    /\ used' = [entries |-> UNION {files[f] : f \in Files},
                ppas |-> IF imageDef.deb822 THEN ppaFiles ELSE ppaFiles \cap keys,
                early |-> ~retargeted]
    /\ step' = step + 1 /\ item' = 1
    /\ UNCHANGED <<imageDef, original, files, ppaFiles, keys, retargeted, error, failures>>

upgradePackages == running /\ current = "upgrade_packages" /\ runApt
installPackages == running /\ current = "install_packages" /\ runApt

\* The state function returns, without error.
EndState ==
    /\ running /\ current \notin {"upgrade_packages", "install_packages"}
    /\ item > Items
    /\ step' = step + 1 /\ item' = 1
    /\ UNCHANGED <<imageDef, original, files, ppaFiles, keys, used, retargeted, error, failures>>

(***************************************************************************)
(* A system call, a command or the network fails, before or after the      *)
(* first half of the item: the file is truncated but not written, the key  *)
(* is imported but the file is missing or empty, the file is removed but   *)
(* the key is not.  A state function may also fail at its end; the failure *)
(* of a later one, once the sources are written, is the same.              *)
(***************************************************************************)
Fail ==
    /\ running /\ failures < MaxFailures
    /\ failures' = failures + 1
    /\ error' = "environment"
    /\ \/ UNCHANGED <<files, ppaFiles, keys>>
       \/ /\ item \in DOMAIN sourcesWritten
          /\ files' = [files EXCEPT ![sourcesWritten[item].file] = {}]
          /\ UNCHANGED <<ppaFiles, keys>>
       \/ /\ current = "add_extra_ppas" /\ item \in DOMAIN ppasHandled
          /\ keys' = IF imageDef.deb822 THEN keys ELSE keys \cup {ppasHandled[item].name}
          /\ ppaFiles' \in {ppaFiles, ppaFiles \cup {ppasHandled[item].name}}
          /\ UNCHANGED files
       \/ /\ current = "clean_extra_ppas" /\ item \in DOMAIN ppasHandled
          /\ ~imageDef.deb822 /\ ~ppasHandled[item].keepEnabled
          /\ ppasHandled[item].name \in ppaFiles
          /\ ppaFiles' = ppaFiles \ {ppasHandled[item].name}
          /\ UNCHANGED <<files, keys>>
    /\ UNCHANGED <<imageDef, original, step, item, used, retargeted>>

\* Another process resumes where an earlier one was suspended.  The directory
\* of the chroot exists: the state that creates it cannot be performed again.
Retry ==
    /\ error # "none"
    /\ step' \in 2..step
    /\ item' = 1
    /\ error' = "none"
    /\ UNCHANGED <<imageDef, original, files, ppaFiles, keys, used, retargeted, failures>>

Next ==
    \/ WriteSources \/ AddPPA \/ RemovePPA
    \/ upgradePackages \/ installPackages \/ EndState
    \/ Fail \/ Retry

Spec == Init /\ [][Next]_vars

-----------------------------------------------------------------------------
Entries == [mirror : {"mirror", "security mirror", "elsewhere"}, suite : Pockets,
            components : {"rootfs", "customization"}]

TypeOK ==
    /\ imageDef \in Configs
    /\ {original, files} \subseteq [Files -> SUBSET Entries]
    /\ ppaFiles \subseteq PPANames /\ keys \subseteq PPANames
    /\ step \in 1..Len(Steps) + 1
    /\ item \in 1..Items + 1
    /\ used.entries \subseteq Entries /\ used.ppas \subseteq PPANames
    /\ {used.early, retargeted} \subseteq BOOLEAN
    /\ error \in {"none", "environment", "missing", "exists"}
    /\ failures \in 0..MaxFailures

\* The image gets the suites that its pocket includes and no other, whatever
\* the spelling of the pocket and after any failure and retry: in both files
\* in deb822 format, where the security suite is always there, but only in
\* sources.list in legacy format.
TargetSuites ==
    done => LET wanted == PocketIncludes[imageDef.pocket]
            IN  IF imageDef.deb822
                THEN SuitesOf(UNION {files[f] : f \in Files}) = wanted \cup {"security"}
                ELSE SuitesOf(files["sources.list"]) = wanted

\* Packages come from the suites of the pocket of the build, not from those of
\* the image, unless they are upgraded or installed again by a process that
\* resumes from before that after the sources of the image were written.
BuildSuites ==
    used.entries # {} /\ used.early /\ imageDef.rootfs = "seed" =>
        /\ PocketIncludes[imageDef.buildPocket] \subseteq SuitesOf(used.entries)
        /\ SuitesOf(used.entries) \subseteq
             PocketIncludes[imageDef.buildPocket] \cup {"security"}

\* In deb822 format no source of debootstrap, of the tarball or of the build
\* is left in the image, in either file.  In legacy format sources.list alone
\* is replaced: the ubuntu.sources of a tarball stays in the image as it was,
\* for apt to read with it.
OnlyTargetSources ==
    done => LET replaced == IF imageDef.deb822 THEN Files ELSE {"sources.list"}
            IN  /\ \A f \in replaced : \A e \in files[f] : e.mirror # "elsewhere"
                /\ \A f \in Files \ replaced : files[f] = original[f]

\* The files of PPAs left in the image are those with keep-enabled, and a PPA
\* that is not kept leaves no key behind.
PPAsAsAsked ==
    done => LET kept == {imageDef.ppas[i].name :
                           i \in {j \in DOMAIN imageDef.ppas : imageDef.ppas[j].keepEnabled}}
            IN  ppaFiles = kept /\ keys \subseteq kept

\* An image in which clean_extra_ppas has succeeded had its packages installed
\* with every extra PPA enabled and signed, also when install_packages was
\* performed again after some PPAs had been removed already.
InstallSeesEveryPPA ==
    current = "customize_sources_list" /\ imageDef.ppas # <<>> => used.ppas = PPANames

-----------------------------------------------------------------------------
(***************************************************************************)
(* What the documentation says, for the runs that refute it.               *)
(***************************************************************************)
\* Components and pocket of the customization are used in the resulting image,
\* not to build it.
NotUsedToBuild ==
    used.entries # {} /\ imageDef.rootfs = "seed" =>
        SuitesOf(used.entries) \subseteq
            PocketIncludes[imageDef.buildPocket] \cup {"security"}

\* A PPA that is kept is configured in the image: apt has its key.
KeptPPAsAreSigned == done /\ ~imageDef.deb822 => ppaFiles \subseteq keys
=============================================================================
