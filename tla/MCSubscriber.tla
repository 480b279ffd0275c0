---------------------------- MODULE MCSubscriber ----------------------------
(***************************************************************************)
(* Subscriber with a queue of two, a staleness of three ticks, a poll of    *)
(* one and one tick of scheduling lag: a stream can go silent, be cleared,  *)
(* come back while the watchdog is between its check and its clear, and be  *)
(* restarted with the old sample still in the buffer.                       *)
(***************************************************************************)
EXTENDS Subscriber
=============================================================================
