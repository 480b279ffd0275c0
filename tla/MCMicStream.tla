----------------------------- MODULE MCMicStream -----------------------------
(***************************************************************************)
(* MicStream with chunks of three frames over a ring of two, two starts of  *)
(* the microphone, and a reader's queue of one message.                     *)
(***************************************************************************)
EXTENDS MicStream
=============================================================================
