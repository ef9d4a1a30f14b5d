---------------------------- MODULE MCAptSources ----------------------------
(***************************************************************************)
(* Image definitions for AptSources: two PPAs at most, of each kind.       *)
(***************************************************************************)
EXTENDS AptSources

PPA(name, keep) == [name |-> name, keepEnabled |-> keep]

PPALists == {<<>>, <<PPA("p", TRUE)>>, <<PPA("p", FALSE)>>,
             <<PPA("p", FALSE), PPA("q", TRUE)>>, <<PPA("p", FALSE), PPA("q", FALSE)>>}

All(deb822, pockets) ==
    [arch : {"amd64", "arm64"}, rootfs : {"seed", "tarball"}, deb822 : {deb822},
     buildPocket : {"release", "Updates"}, pocket : pockets, ppas : PPALists]

\* In deb822 format the security pocket leaves the release suite out, which no
\* run here is about.
MCConfigs ==
    All(FALSE, {"release", "Security", "updates", "Proposed"})
      \cup All(TRUE, {"release", "Updates", "proposed"})

\* No sources file, or one with a suite that no pocket but one includes.
MCTarballSuites == {{}, {"release", "proposed"}}

One(deb822, pocket, ppas) ==
    {[arch |-> "amd64", rootfs |-> "seed", deb822 |-> deb822,
      buildPocket |-> "updates", pocket |-> pocket, ppas |-> ppas]}

LegacyProposed == {[d EXCEPT !.buildPocket = "release"] : d \in One(FALSE, "proposed", <<>>)}
LegacyKept == One(FALSE, "release", <<PPA("p", TRUE)>>)
=============================================================================
