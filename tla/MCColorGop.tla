----------------------------- MODULE MCColorGop -----------------------------
(***************************************************************************)
(* ColorGop with a key frame in every two, and one restart on each side.    *)
(***************************************************************************)
EXTENDS ColorGop
=============================================================================
