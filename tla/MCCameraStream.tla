--------------------------- MODULE MCCameraStream ---------------------------
(***************************************************************************)
(* CameraStream with both kinds of stream, a reader queue of one or   *)
(* two, and one restart on each side.                                       *)
(***************************************************************************)
EXTENDS CameraStream
=============================================================================
