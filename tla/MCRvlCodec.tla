----------------------------- MODULE MCRvlCodec -----------------------------
(***************************************************************************)
(* RvlCodec on all images of three by three pixels, rows padded by one      *)
(* cell, over zero, a small and the largest depth: runs of up to nine take  *)
(* two groups, differences one, two and six.                                *)
(***************************************************************************)
EXTENDS RvlCodec
=============================================================================
