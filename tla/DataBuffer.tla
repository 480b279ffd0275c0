----------------------------- MODULE DataBuffer -----------------------------
(***************************************************************************)
(* DataBuffer<T> of include/common/data_buffer.hpp as values and operators: *)
(* a writer overwrites the latest value and stamps it with the clock, a    *)
(* reader takes a snapshot, a watchdog clears.  Every method holds the      *)
(* buffer's mutex for its whole body, so each is one atomic step; what a    *)
(* caller does between two calls is up to the modules that use these.       *)
(*                                                                         *)
(* A value is a positive number that identifies the sample (its payload is  *)
(* not told apart); nullptr is 0.                                           *)
(***************************************************************************)
EXTENDS Integers

NoData == 0
NoTime == 0

\* A TimestampedData<T>, which is also the state of the buffer itself.
Buffer(D, T) == [data : D \cup {NoData}, at : T]

Empty == [data |-> NoData, at |-> NoTime]

HasData(b) == b.data # NoData

\* GetAgeMs at time t: -1 for an empty snapshot.
Age(b, t) == IF HasData(b) THEN t - b.at ELSE -1

\* Mutant: stamped by another clock, which is ahead.
SetDataAhead(d, t) == [data |-> d, at |-> t + 1]

SetData(d, t) == [data |-> d, at |-> t]

\* Clear() drops the value and resets the time.
Cleared == Empty
=============================================================================
