---------------------------- MODULE MCGrubSession ----------------------------
EXTENDS GrubSession

\* Two file systems, one nested in the other, and the bind mount.
MCMountPoints == <<"dev", "pts", "run">>
MCInside == [dev |-> {"dev", "pts"}, pts |-> {"pts"}, run |-> {"run"}]
=============================================================================
