--------------------------- MODULE MCStateMachine ---------------------------
(***************************************************************************)
(* Instance of StateMachine: three states, the second one of the kind that *)
(* refuses to run on its own product (create_chroot).                      *)
(***************************************************************************)
EXTENDS StateMachine

CONSTANTS prepare, chroot, pack

MCStates == <<prepare, chroot, pack>>
MCOnce == {chroot}
=============================================================================
