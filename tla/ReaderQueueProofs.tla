------------------------- MODULE ReaderQueueProofs --------------------------
(***************************************************************************)
(* What the reader's queue keeps.                                           *)
(***************************************************************************)
EXTENDS ReaderQueue, SequenceTheorems, TLAPS

\* The queue after a message: still within its depth, and holding the old
\* queue and the message in their order, with at most the oldest one missing.
LEMMA OfferProperties ==
    ASSUME NEW depth \in Nat \ {0}, NEW S, NEW q \in Seq(S), Len(q) <= depth, NEW m \in S
    PROVE  /\ Offer(q, depth, m) \in Seq(S)
           /\ Len(Offer(q, depth, m)) <= depth
           /\ \E d \in {0, 1} :
                /\ Len(Offer(q, depth, m)) = Len(q) + 1 - d
                /\ \A i \in 1..(Len(q) + 1 - d) :
                      Offer(q, depth, m)[i] = IF i + d <= Len(q) THEN q[i + d] ELSE m
<1>1. /\ Append(q, m) \in Seq(S) /\ Len(Append(q, m)) = Len(q) + 1
      /\ \A i \in 1..(Len(q) + 1) : Append(q, m)[i] = IF i <= Len(q) THEN q[i] ELSE m
  OBVIOUS
<1>2. CASE Len(q) + 1 > depth
  <2>1. Offer(q, depth, m) = Tail(Append(q, m))
    BY <1>1, <1>2 DEF Offer, KeepLast
  <2>2. /\ Tail(Append(q, m)) \in Seq(S) /\ Len(Tail(Append(q, m))) = Len(q)
        /\ \A i \in 1..Len(q) : Tail(Append(q, m))[i] = Append(q, m)[i + 1]
    BY <1>1
  <2>3. \A i \in 1..Len(q) :
            Tail(Append(q, m))[i] = IF i + 1 <= Len(q) THEN q[i + 1] ELSE m
    BY <1>1, <2>2
  <2>4. QED  BY <2>1, <2>2, <2>3
<1>3. CASE ~(Len(q) + 1 > depth)
  <2>1. Offer(q, depth, m) = Append(q, m)
    BY <1>1, <1>3 DEF Offer, KeepLast
  <2>2. Len(Append(q, m)) <= depth
    BY <1>1, <1>3
  <2>3. QED  BY <1>1, <2>1, <2>2
<1>4. QED  BY <1>2, <1>3

\* Taking the oldest message: the others stay, in their order.
LEMMA TakeProperties ==
    ASSUME NEW S, NEW q \in Seq(S), q # <<>>
    PROVE  /\ Head(q) = q[1] /\ Head(q) \in S
           /\ Tail(q) \in Seq(S) /\ Len(Tail(q)) = Len(q) - 1
           /\ \A i \in 1..Len(Tail(q)) : Tail(q)[i] = q[i + 1] /\ i + 1 \in 1..Len(q)
  OBVIOUS
=============================================================================
