---------------------------- MODULE ReaderQueue -----------------------------
(***************************************************************************)
(* The queue of a DDS reader, as the subscribers ask for it in InitChannel  *)
(* (color_subscriber.cpp:21-25): KEEP_LAST depth.  CycloneDDS is not in the  *)
(* repository; this is what its use there relies on.  Messages of one       *)
(* writer arrive in the order they were written, and a full queue loses its *)
(* oldest message.                                                          *)
(***************************************************************************)
EXTENDS Integers, Sequences

KeepLast(q, depth) == IF Len(q) > depth THEN Tail(q) ELSE q

\* The queue after message m has arrived.
Offer(q, depth, m) == KeepLast(Append(q, m), depth)
=============================================================================
