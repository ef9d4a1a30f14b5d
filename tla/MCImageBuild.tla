---------------------------- MODULE MCImageBuild ----------------------------
(***************************************************************************)
(* Image definitions for ImageBuild.                                       *)
(***************************************************************************)
EXTENDS ImageBuild

Plain ==
    [type |-> "classic", gadget |-> "prebuilt", rootfs |-> "seed",
     pocket |-> "release", custom |-> {"present"}, kernel |-> TRUE,
     deb822 |-> FALSE, diskInfo |-> FALSE, artifacts |-> {"img"},
     qcow2Volume |-> "named"]

Snap == [Plain EXCEPT !.type = "snap", !.gadget = "none", !.custom = {},
                      !.kernel = FALSE, !.artifacts = {}]

Files == {"manifest", "filelist", "rootfsTar"}

\* Every combination that decides which states are in the list.  Of the
\* tarballs, those with extra packages have a kernel: no state installs the
\* kernel of the others.
MCImageDefs ==
    {Snap} \cup
    {d \in [type : {"classic"}, gadget : {"none", "source", "prebuilt"},
            rootfs : {"seed", "tarball"}, pocket : {"release", "updates"},
            custom : {{"present"} \cup a \cup b :
                        a \in SUBSET {"ppas", "packages", "snaps"},
                        b \in {{}, {"cloudInit", "fstab", "manual"}}},
            kernel : {TRUE, FALSE}, deb822 : {FALSE}, diskInfo : {TRUE},
            artifacts : {{}, {"img"}, {"qcow2"}, {"img", "qcow2"} \cup Files,
                         Files},
            qcow2Volume : {"named"}] :
        d.kernel <=> d.rootfs = "seed" \/ d.custom \cap {"ppas", "packages"} # {}}

\* A qcow2 image of the only volume of the gadget, which is not named.
Unnamed == {[Plain EXCEPT !.artifacts = a, !.qcow2Volume = "unnamed"] :
              a \in {{"qcow2"}, {"img", "qcow2"}}}

\* The definitions of the run are those the theorems are about.
ASSUME RunAssumptions ==
    \A d \in MCImageDefs : Valid(d) => Buildable(d) /\ InstallsKernel(d)
=============================================================================
