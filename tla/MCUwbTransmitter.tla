-------------------------- MODULE MCUwbTransmitter --------------------------
(***************************************************************************)
(* UwbTransmitter with two fixes, one unplugging and one restart.           *)
(***************************************************************************)
EXTENDS UwbTransmitter
=============================================================================
