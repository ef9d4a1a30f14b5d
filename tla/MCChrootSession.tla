-------------------------- MODULE MCChrootSession ---------------------------
(***************************************************************************)
(* Builds with the states of classic images in their order, fewer mount    *)
(* points than the code has (nested ones, a bind mount shared by no other  *)
(* state, one of preseed_image only) and two diverted programs.            *)
(***************************************************************************)
EXTENDS ChrootSession

MCBuilds == {<<"packages", "packages", "preseed", "manual">>,
             <<"packages", "preseed">>, <<"packages", "manual">>, <<"manual">>}

TwoSessions == {<<"packages", "packages">>, <<"packages", "manual">>}

MCPackagesMounts == <<"/dev", "/dev/pts", "/run">>
MCPreseedMounts == <<"/dev", "/sys/fs/cgroup">>
MCOtherMounts == {"/proc/sys/fs/binfmt_misc"}
MCDiversions == <<"policy-rc.d", "start-stop-daemon">>

RegularFile == {"file"}
DanglingLink == {"dangling"}
=============================================================================
