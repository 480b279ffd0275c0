---------------------------- MODULE MCLifecycle ----------------------------
(***************************************************************************)
(* Lifecycle with every assembly used directly, and machines with up to two *)
(* cameras and one microphone; three calls of start().                      *)
(***************************************************************************)
EXTENDS Lifecycle
=============================================================================
