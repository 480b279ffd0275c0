----------------------------- MODULE LatestWins -----------------------------
(***************************************************************************)
(* What a chain of latest-wins buffers promises its consumer: samples are   *)
(* made one after the other, and what is shown is always a sample that was  *)
(* made, never an older one than was shown before.  Samples may be skipped. *)
(***************************************************************************)
EXTENDS Integers

VARIABLES made,  \* number of samples made so far, the newest one's identity
          shown  \* the sample a consumer sees; 0 before the first

vars == <<made, shown>>

Init == made = 0 /\ shown = 0

Make == made' = made + 1 /\ UNCHANGED shown

Show == \E s \in (shown + 1)..made : shown' = s /\ UNCHANGED made

Next == Make \/ Show

Spec == Init /\ [][Next]_vars
=============================================================================
