--------------------------- MODULE MicStreamProofs ---------------------------
(***************************************************************************)
(* What holds of MicCapture and of MicStream for every chunk and ring size,  *)
(* queue depth and bound.                                                    *)
(*                                                                         *)
(* The capture thread: type correctness, that gaps are counted, and that     *)
(* frames stay in order.  While the PCM runs its ring ends with the newest   *)
(* frame and has no hole, so that the number of the frame before it, Passed, *)
(* separates what was read or lost from what will be read.                   *)
(*                                                                         *)
(* The stream implements MicCapture, so that MicCapture's invariants are its *)
(* own, and the numbers of two messages heard one after the other tell what  *)
(* was lost between them.  Every message that the receiving side still knows *)
(* says at which frame the next chunk of its session begins unless something *)
(* is lost (Due).  The invariant relates that frame to the chunk and the     *)
(* ring; when the next chunk is written it relates the old message to the    *)
(* new one.                                                                  *)
(***************************************************************************)
EXTENDS MicStream, ReaderQueueProofs

-----------------------------------------------------------------------------
\* The capture thread.

\* The last frame that was read or can no longer be.
Passed == IF pcm = "running" THEN made - Len(ring) ELSE made

\* Frames are not used twice: what was made is enough for what was published,
\* is held, or was lost when an overrun was, or will be, counted.
Budget ==
    published + Len(chunk) + Len(ring) + overruns + (IF pcm = "xrun" THEN 1 ELSE 0) <= made

ThreadRuns ==
    /\ thread # "off" => starts >= 1
    /\ thread \in {"full", "write"} => Len(chunk) = ChunkFrames

\* A frame that is missing between the last one read and the next one to be
\* read has been counted already.
Counting ==
    /\ gaps <= overruns
    /\ (lastRead # 0 /\ pcm = "prepared") => gaps < overruns
    /\ (lastRead # 0 /\ pcm = "running" /\ lastRead # Passed) => gaps < overruns

RingEndsNow ==
    /\ run = "off" => pcm = "closed"
    /\ pcm \in {"closed", "prepared"} => ring = <<>>
    /\ pcm = "running" => \A k \in 1..Len(ring) : ring[k] = made - Len(ring) + k
    /\ lastRead <= Passed

TypeInv == TypeOK /\ Budget /\ ThreadRuns /\ RingEndsNow /\ Counting

\* Reading: the chunk gets the oldest frames of the ring.
LEMMA FillProperties ==
    ASSUME NEW S, NEW c \in Seq(S), NEW r \in Seq(S), NEW n \in 1..Len(r)
    PROVE  LET more == c \o SubSeq(r, 1, n)
               less == SubSeq(r, n + 1, Len(r))
           IN  /\ more \in Seq(S) /\ Len(more) = Len(c) + n
               /\ \A k \in 1..(Len(c) + n) :
                     more[k] = IF k <= Len(c) THEN c[k] ELSE r[k - Len(c)]
               /\ Last(more) = r[n] /\ r[n] \in S
               /\ less \in Seq(S) /\ Len(less) = Len(r) - n
               /\ \A k \in 1..(Len(r) - n) : less[k] = r[n + k]
<1>1. /\ SubSeq(r, 1, n) \in Seq(S) /\ Len(SubSeq(r, 1, n)) = n
      /\ \A k \in 1..n : SubSeq(r, 1, n)[k] = r[k]
  OBVIOUS
<1>2. /\ SubSeq(r, n + 1, Len(r)) \in Seq(S) /\ Len(SubSeq(r, n + 1, Len(r))) = Len(r) - n
      /\ \A k \in 1..(Len(r) - n) : SubSeq(r, n + 1, Len(r))[k] = r[n + k]
  OBVIOUS
<1> DEFINE more == c \o SubSeq(r, 1, n)
<1>3. /\ more \in Seq(S) /\ Len(more) = Len(c) + n
      /\ \A k \in 1..(Len(c) + n) :
            more[k] = IF k <= Len(c) THEN c[k] ELSE r[k - Len(c)]
  BY <1>1, ConcatProperties
<1>4. Last(more) = r[n] /\ r[n] \in S
  BY <1>3 DEF Last
<1>5. QED  BY <1>2, <1>3, <1>4

\* Every variable stays in its type; the bounds of the counters follow from
\* the budget.
THEOREM MicTypeCorrect == Spec => []TypeInv
<1> USE MicAssumption DEF MicAssumption, Frame
<1>1. Init => TypeInv
  BY DEF Init, TypeInv, TypeOK, Budget, ThreadRuns, RingEndsNow, Counting, Passed
<1>2. TypeInv /\ [Next]_vars => TypeInv'
  <2> SUFFICES ASSUME TypeInv, [Next]_vars PROVE TypeInv'
    OBVIOUS
  <2> USE DEF TypeInv, TypeOK, Budget, ThreadRuns, RingEndsNow, Counting, Passed,
              device, owner, counters
  <2>1. CASE Record
    <3>1. CASE pcm # "running"
      BY <2>1, <3>1 DEF Record
    <3>2. CASE pcm = "running" /\ Len(ring) >= RingFrames
      BY <2>1, <3>2 DEF Record
    <3>3. CASE pcm = "running" /\ Len(ring) < RingFrames
      <4>1. ring' = Append(ring, made + 1) /\ made' = made + 1 /\ made + 1 \in Frame
            /\ UNCHANGED <<pcm, owner, thread, chunk, counters>>
        BY <2>1, <3>3 DEF Record
      <4>2. /\ ring' \in Seq(Frame) /\ Len(ring') = Len(ring) + 1
            /\ \A k \in 1..Len(ring') : ring'[k] = IF k <= Len(ring) THEN ring[k] ELSE made + 1
        BY <4>1
      <4>3. TypeOK' /\ ThreadRuns'
        BY <3>3, <4>1, <4>2
      <4>4. Budget'
        BY <3>3, <4>1, <4>2
      <4>5. Passed' = Passed
        BY <3>3, <4>1, <4>2
      <4>6. RingEndsNow'
        <5>1. \A k \in 1..Len(ring') : ring'[k] = made' - Len(ring') + k
          BY <3>3, <4>1, <4>2
        <5>2. QED  BY <3>3, <4>1, <4>5, <5>1
      <4>7. Counting'
        BY <3>3, <4>1, <4>5
      <4>8. QED  BY <4>3, <4>4, <4>6, <4>7
    <3>4. QED  BY <3>1, <3>2, <3>3
  <2>2. CASE CallRead
    BY <2>2 DEF CallRead
  <2>3. CASE Read
    <3>1. PICK n \in 1..Len(ring) : n <= Wanted /\ Fill(n)
      BY <2>3 DEF Read
    <3>2. /\ pcm = "running" /\ thread = "read"
          /\ UNCHANGED <<made, pcm, owner, published, overruns, topic>>
      BY <2>3 DEF Read
    <3>3. /\ chunk' \in Seq(Frame) /\ Len(chunk') = Len(chunk) + n /\ Last(chunk') = ring[n]
          /\ ring' \in Seq(Frame) /\ Len(ring') = Len(ring) - n
          /\ \A k \in 1..(Len(ring) - n) : ring'[k] = ring[n + k]
      <4>1. chunk' = chunk \o SubSeq(ring, 1, n) /\ ring' = SubSeq(ring, n + 1, Len(ring))
        BY <3>1 DEF Fill
      <4>2. chunk \in Seq(Frame) /\ ring \in Seq(Frame)
        OBVIOUS
      <4> HIDE DEF TypeInv, TypeOK, RingEndsNow, Budget, Counting, ThreadRuns, Frame
      <4>3. LET more == chunk \o SubSeq(ring, 1, n)
                less == SubSeq(ring, n + 1, Len(ring))
            IN  /\ more \in Seq(Frame) /\ Len(more) = Len(chunk) + n
                /\ Last(more) = ring[n]
                /\ less \in Seq(Frame) /\ Len(less) = Len(ring) - n
                /\ \A k \in 1..(Len(ring) - n) : less[k] = ring[n + k]
        BY <4>2, FillProperties
      <4>4. QED  BY <4>1, <4>3
    <3>4. lastRead' = made - Len(ring) + n /\ lastRead' \in Frame
      <4>1. lastRead' = ring[n]
        BY <3>1, <3>3 DEF Fill
      <4>2. /\ made \in Int /\ Len(ring) \in Nat /\ ring \in Seq(Frame)
            /\ \A k \in 1..Len(ring) : ring[k] = made - Len(ring) + k
        BY <3>2
      <4> HIDE DEF TypeInv, TypeOK, RingEndsNow, Budget, Counting, ThreadRuns, Frame
      <4>3. ring[n] \in Frame
        BY <4>2, ElementOfSeq
      <4>4. QED  BY <4>1, <4>2, <4>3
    <3>5. Head(ring) = made - Len(ring) + 1
      BY <3>1, <3>2
    <3>6. gaps' = IF lastRead # 0 /\ lastRead # made - Len(ring) THEN gaps + 1 ELSE gaps
      <4>1. gaps' = IF lastRead # 0 /\ Head(ring) # lastRead + 1 THEN gaps + 1 ELSE gaps
        BY <3>1 DEF Fill
      <4>2. lastRead \in Int /\ made \in Int /\ Len(ring) \in Int
        OBVIOUS
      <4> HIDE DEF TypeInv, TypeOK, RingEndsNow, Budget, Counting, ThreadRuns
      <4>4. Head(ring) # lastRead + 1 <=> lastRead # made - Len(ring)
        BY <3>5, <4>2
      <4>3. QED  BY <4>1, <4>4
    <3>7. thread' \in {"full", "next"} /\ (thread' = "full" => Len(chunk') >= ChunkFrames)
      BY <3>1 DEF Fill
    <3>8. Len(chunk') <= ChunkFrames
      BY <3>1, <3>3 DEF Wanted
    <3>9. gaps' <= overruns
      BY <3>2, <3>6
    <3>10. Passed' = made - Len(ring) + n
      BY <3>2, <3>3
    <3>11. TypeOK' /\ ThreadRuns'
      <4>1. gaps' \in 0..MaxFrames
        BY <3>2, <3>6, <3>9
      <4>2. ring' \in Seq(Frame) /\ Len(ring') <= RingFrames
        BY <3>1, <3>3
      <4>3. thread' = "full" => Len(chunk') = ChunkFrames
        <5>1. Len(chunk') \in Int /\ ChunkFrames \in Int
          BY <3>3
        <5> HIDE DEF TypeInv, TypeOK, RingEndsNow, Budget, Counting, ThreadRuns
        <5>2. QED  BY <3>7, <3>8, <5>1
      <4>4. TypeOK'
        <5>1. topic' = topic /\ published' = published /\ UNCHANGED <<made, pcm, run, starts, overruns>>
          BY <3>2
        <5>2. thread' \in {"off", "next", "read", "full", "write", "ended"}
          BY <3>7
        <5>3. QED  BY <3>3, <3>4, <3>8, <4>1, <4>2, <5>1, <5>2
      <4>5. ThreadRuns'
        BY <3>2, <3>7, <4>3
      <4>6. QED  BY <4>4, <4>5
    <3>12. Budget'
      BY <3>2, <3>3
    <3>13. RingEndsNow'
      <4>1. \A k \in 1..Len(ring') : ring'[k] = made' - Len(ring') + k
        <5>1. /\ made \in Int /\ Len(ring) \in Nat /\ n \in 1..Len(ring)
              /\ \A k \in 1..Len(ring) : ring[k] = made - Len(ring) + k
          BY <3>2
        <5>2. made' = made
          BY <3>2
        <5> HIDE DEF TypeInv, TypeOK, RingEndsNow, Budget, Counting, ThreadRuns, Frame
        <5> SUFFICES ASSUME NEW k \in 1..(Len(ring) - n)
                     PROVE  ring'[k] = made - (Len(ring) - n) + k
          BY <3>3, <5>2
        <5>3. n + k \in 1..Len(ring) /\ ring'[k] = ring[n + k]
          BY <3>3, <5>1
        <5>4. QED  BY <5>1, <5>3
      <4>2. QED  BY <3>2, <3>4, <3>10, <4>1
    <3>14. Counting'
      BY <3>2, <3>4, <3>9, <3>10
    <3>15. QED  BY <3>11, <3>12, <3>13, <3>14
  <2>4. CASE Overrun
    BY <2>4 DEF Overrun
  <2>5. CASE ReadError \/ CallWrite \/ ThreadExits \/ Stop
    BY <2>5 DEF ReadError, CallWrite, ThreadExits, Stop
  <2>6. CASE Write
    BY <2>6 DEF Write
  <2>7. CASE Start
    BY <2>7 DEF Start
  <2>8. CASE Stopped
    BY <2>8 DEF Stopped
  <2>9. CASE Horizon \/ UNCHANGED vars
    BY <2>9 DEF Horizon, vars
  <2>10. QED
    BY <2>1, <2>2, <2>3, <2>4, <2>5, <2>6, <2>7, <2>8, <2>9 DEF Next
<1>3. QED
  BY <1>1, <1>2, PTL DEF Spec

\* Audio is missing within a session only where an overrun was counted.
THEOREM GapsCounted == Spec => []GapsAreCounted
<1>1. TypeInv => GapsAreCounted
  BY DEF TypeInv, Counting, GapsAreCounted
<1>2. QED
  BY <1>1, MicTypeCorrect, PTL

-----------------------------------------------------------------------------
\* What is on the topic precedes what the chunk holds, and both precede what
\* will be read.
Rising(s) == \A i \in 1..Len(s), j \in 1..Len(s) : i < j => s[i] < s[j]
UpTo(s, n) == \A i \in 1..Len(s) : s[i] <= n
Before(s, t) == \A i \in 1..Len(s), j \in 1..Len(t) : s[i] < t[j]

Order ==
    /\ Rising(topic) /\ Rising(chunk) /\ Before(topic, chunk)
    /\ UpTo(topic, Passed) /\ UpTo(chunk, Passed)

\* A bound of a sequence may be raised.
LEMMA UpToLater ==
    ASSUME NEW s \in Seq(Int), NEW m \in Int, NEW n \in Int, m <= n, UpTo(s, m)
    PROVE  UpTo(s, n)
<1>1. \A i \in 1..Len(s) : s[i] \in Int /\ s[i] <= m
  BY ElementOfSeq DEF UpTo
<1>2. QED  BY <1>1 DEF UpTo

\* Time does not run backwards.
LEMMA PassedGrows ==
    ASSUME TypeInv, TypeInv', [Next]_vars
    PROVE  /\ Passed' >= Passed /\ Passed \in Int /\ Passed' \in Int
           /\ made \in Int /\ Len(ring) \in Nat
<1>0. /\ Passed \in Int /\ Passed' \in Int
      /\ made \in Int /\ ring \in Seq(Frame) /\ Len(ring) \in Nat
      /\ made' \in Int /\ Len(ring') \in Nat
      /\ pcm \in {"closed", "prepared"} => ring = <<>>
  <2>1. /\ made \in Int /\ made' \in Int /\ ring \in Seq(Frame) /\ ring' \in Seq(Frame)
        /\ pcm \in {"closed", "prepared"} => ring = <<>>
    BY MicAssumption DEF MicAssumption, TypeInv, TypeOK, RingEndsNow
  <2>2. Len(ring) \in Nat /\ Len(ring') \in Nat
    BY <2>1, LenProperties
  <2>3. QED  BY <2>1, <2>2 DEF Passed
<1>1. Passed' >= Passed
  <2> USE <1>0 DEF Passed, device, owner, counters
  <2>1. CASE Record
    BY <2>1 DEF Record
  <2>2. CASE Read
    <3>1. PICK n \in 1..Len(ring) : ring' = SubSeq(ring, n + 1, Len(ring))
      BY <2>2 DEF Read, Fill
    <3>2. Len(ring') = Len(ring) - n
      BY <3>1
    <3>3. QED  BY <2>2, <3>2 DEF Read
  <2>3. CASE CallRead
    BY <2>3 DEF CallRead
  <2>4. CASE Overrun
    BY <2>4 DEF Overrun
  <2>5. CASE ReadError \/ CallWrite \/ Write \/ ThreadExits
    BY <2>5 DEF ReadError, CallWrite, Write, ThreadExits
  <2>6. CASE Stop \/ Horizon \/ UNCHANGED vars
    BY <2>6 DEF Stop, Horizon, vars
  <2>7. CASE Start
    BY <2>7 DEF Start
  <2>8. CASE Stopped
    BY <2>8 DEF Stopped
  <2>9. QED  BY <2>1, <2>2, <2>3, <2>4, <2>5, <2>6, <2>7, <2>8 DEF Next
<1>2. QED  BY <1>0, <1>1

\* Frames move on: into the past, into the chunk, onto the topic.
LEMMA OrderKept ==
    ASSUME TypeInv, TypeInv', Order, [Next]_vars
    PROVE  Order'
<1> USE MicAssumption DEF MicAssumption, Frame, TypeInv, TypeOK, RingEndsNow
<1>0. /\ Passed \in Int /\ Passed' \in Int
      /\ made \in Int /\ Len(ring) \in Nat
  BY PassedGrows
<1>1. Passed' >= Passed
  BY PassedGrows
<1>2. /\ \A i \in 1..Len(topic) : topic[i] \in Int
      /\ \A i \in 1..Len(chunk) : chunk[i] \in Int
      /\ chunk \in Seq(Frame) /\ ring \in Seq(Frame)
      /\ Len(chunk) \in Nat /\ Len(topic) \in Nat
      /\ chunk \in Seq(Int) /\ topic \in Seq(Int)
  <2>1. chunk \in Seq(Frame) /\ ring \in Seq(Frame) /\ topic \in Seq(Frame) /\ Frame \subseteq Int
    OBVIOUS
  <2> HIDE DEF TypeInv, TypeOK, RingEndsNow, Frame
  <2>2. chunk \in Seq(Int) /\ topic \in Seq(Int)
    BY <2>1, SeqMonotonic
  <2>3. Len(chunk) \in Nat /\ Len(topic) \in Nat
    BY <2>2, LenProperties
  <2>4. \A i \in 1..Len(topic) : topic[i] \in Int
    BY <2>2, ElementOfSeq
  <2>5. \A i \in 1..Len(chunk) : chunk[i] \in Int
    BY <2>2, ElementOfSeq
  <2>6. QED  BY <2>1, <2>2, <2>3, <2>4, <2>5
<1>3. CASE Read
  <2>1. PICK n \in 1..Len(ring) :
            /\ chunk' = chunk \o SubSeq(ring, 1, n)
            /\ ring' = SubSeq(ring, n + 1, Len(ring))
    BY <1>3 DEF Read, Fill
  <2>2. pcm = "running" /\ pcm' = pcm /\ made' = made /\ topic' = topic
    BY <1>3 DEF Read, counters
  <2>3. \A k \in 1..Len(ring) : ring[k] = Passed + k
    BY <2>2 DEF Passed
  <2> HIDE DEF TypeInv, TypeOK, RingEndsNow, Frame
  <2>4. /\ Len(chunk') = Len(chunk) + n /\ Len(ring') = Len(ring) - n
        /\ \A k \in 1..(Len(chunk) + n) :
              chunk'[k] = IF k <= Len(chunk) THEN chunk[k] ELSE ring[k - Len(chunk)]
    <3>1. LET more == chunk \o SubSeq(ring, 1, n)
              less == SubSeq(ring, n + 1, Len(ring))
          IN  /\ Len(more) = Len(chunk) + n /\ Len(less) = Len(ring) - n
              /\ \A k \in 1..(Len(chunk) + n) :
                    more[k] = IF k <= Len(chunk) THEN chunk[k] ELSE ring[k - Len(chunk)]
      BY <1>2, FillProperties
    <3>2. QED  BY <2>1, <3>1
  <2>5. Passed' = Passed + n /\ n \in Nat
    <3>1. Len(ring) \in Nat /\ made \in Int
      BY <1>2 DEF TypeInv, TypeOK
    <3>2. QED  BY <2>2, <2>4, <3>1 DEF Passed
  <2>6. \A k \in 1..(Len(chunk) + n) :
            chunk'[k] = IF k <= Len(chunk) THEN chunk[k] ELSE Passed + (k - Len(chunk))
    <3> SUFFICES ASSUME NEW k \in 1..(Len(chunk) + n)
                 PROVE  chunk'[k] = IF k <= Len(chunk) THEN chunk[k]
                                    ELSE Passed + (k - Len(chunk))
      OBVIOUS
    <3>1. CASE k <= Len(chunk)
      BY <2>4, <3>1
    <3>2. CASE k > Len(chunk)
      <4>1. k - Len(chunk) \in 1..Len(ring) /\ ~(k <= Len(chunk))
        BY <1>0, <1>2, <3>2
      <4>2. ring[k - Len(chunk)] = Passed + (k - Len(chunk))
        BY <2>3, <4>1
      <4>3. QED  BY <2>4, <4>1, <4>2
    <3>3. QED  BY <1>2, <3>1, <3>2
  <2>7. Rising(chunk') /\ UpTo(chunk', Passed')
    <3>1. \A i \in 1..Len(chunk) : chunk[i] <= Passed
      BY DEF Order, UpTo
    <3>2. \A i, j \in 1..Len(chunk) : i < j => chunk[i] < chunk[j]
      BY DEF Order, Rising
    <3>3. \A i, j \in 1..(Len(chunk) + n) : i < j => chunk'[i] < chunk'[j]
      <4> SUFFICES ASSUME NEW i \in 1..(Len(chunk) + n), NEW j \in 1..(Len(chunk) + n), i < j
                   PROVE  chunk'[i] < chunk'[j]
        OBVIOUS
      <4>1. CASE j <= Len(chunk)
        BY <4>1, <1>2, <2>5, <2>6, <3>2
      <4>2. CASE j > Len(chunk) /\ i <= Len(chunk)
        <5>1. i \in 1..Len(chunk) /\ ~(j <= Len(chunk))
          BY <4>2, <1>2
        <5>2. chunk'[i] = chunk[i] /\ chunk'[j] = Passed + (j - Len(chunk))
          BY <5>1, <2>6
        <5>3. chunk[i] \in Int /\ chunk[i] <= Passed
          BY <5>1, <3>1, <1>2
        <5>4. QED  BY <5>1, <5>2, <5>3, <1>0, <1>2
      <4>3. CASE j > Len(chunk) /\ i > Len(chunk)
        BY <4>3, <1>0, <1>2, <2>5, <2>6
      <4>4. QED  BY <4>1, <4>2, <4>3, <1>2, <2>5
    <3>4. \A i \in 1..(Len(chunk) + n) : chunk'[i] <= Passed + n
      <4> SUFFICES ASSUME NEW i \in 1..(Len(chunk) + n)
                   PROVE  chunk'[i] <= Passed + n
        OBVIOUS
      <4>1. CASE i <= Len(chunk)
        <5>1. chunk'[i] = chunk[i]  BY <4>1, <2>6
        <5>2. i \in 1..Len(chunk)  BY <4>1, <1>2
        <5>3. chunk[i] \in Int /\ chunk[i] <= Passed  BY <5>2, <3>1, <1>2
        <5>4. QED  BY <5>1, <5>3, <1>0, <1>2
      <4>2. CASE i > Len(chunk)
        <5>1. ~(i <= Len(chunk))  BY <4>2, <1>2
        <5>2. chunk'[i] = Passed + (i - Len(chunk))  BY <5>1, <2>6
        <5>3. QED  BY <5>2, <1>0, <1>2
      <4>3. QED  BY <4>1, <4>2, <1>2
    <3>5. QED  BY <2>4, <2>5, <3>3, <3>4 DEF Rising, UpTo
  <2>8. Before(topic', chunk') /\ UpTo(topic', Passed') /\ Rising(topic')
    <3>1. UpTo(topic', Passed')
      BY <1>0, <1>1, <1>2, <2>2, UpToLater DEF Order
    <3>2. \A i \in 1..Len(topic) : topic[i] <= Passed
      BY DEF Order, UpTo
    <3>3. \A i \in 1..Len(topic), k \in 1..(Len(chunk) + n) : topic[i] < chunk'[k]
      <4> SUFFICES ASSUME NEW i \in 1..Len(topic), NEW k \in 1..(Len(chunk) + n)
                   PROVE  topic[i] < chunk'[k]
        OBVIOUS
      <4>1. CASE k <= Len(chunk)
        BY <4>1, <1>2, <2>6 DEF Order, Before
      <4>2. CASE k > Len(chunk)
        BY <4>2, <1>0, <1>2, <2>5, <2>6, <3>2
      <4>3. QED  BY <4>1, <4>2, <1>2, <2>5
    <3>4. QED  BY <2>2, <2>4, <3>1, <3>3 DEF Order, Before
  <2>9. QED  BY <2>7, <2>8 DEF Order
<1>4. CASE Write \/ Start
  <2>1. chunk' = <<>> /\ topic' \in {topic, chunk}
    BY <1>4 DEF Write, Start
  <2> HIDE DEF TypeInv, TypeOK, RingEndsNow, Frame
  <2>2. Rising(topic') /\ UpTo(topic', Passed')
    BY <1>0, <1>1, <1>2, <2>1, UpToLater DEF Order
  <2>3. Rising(chunk') /\ UpTo(chunk', Passed') /\ Before(topic', chunk')
    BY <2>1 DEF Rising, UpTo, Before
  <2>4. QED  BY <2>2, <2>3 DEF Order
<1>5. CASE ~(Read \/ Write \/ Start)
  <2>1. chunk' = chunk /\ topic' = topic
    BY <1>5 DEF Next, vars, owner, counters, Record, CallRead, Overrun, ReadError, CallWrite,
                ThreadExits, Stop, Stopped, Horizon
  <2> HIDE DEF TypeInv, TypeOK, RingEndsNow, Frame
  <2>2. QED  BY <1>0, <1>1, <1>2, <2>1, UpToLater DEF Order
<1>6. QED  BY <1>3, <1>4, <1>5

\* The frames on the topic, in the chunk and in the ring stay in order.
THEOREM MicOrder == Spec => []Order
<1>1. Init => Order
  BY DEF Init, Order, Rising, UpTo, Before
<1>2. TypeInv /\ TypeInv' /\ Order /\ [Next]_vars => Order'
  BY OrderKept
<1>3. QED
  BY <1>1, <1>2, MicTypeCorrect, PTL DEF Spec

\* A consumer of every chunk hears no frame twice and none out of order.
THEOREM FramesOrdered == Spec => FramesInOrder
<1>1. TypeInv /\ Order /\ [Next]_vars
        => [published' # published => Increasing(topic \o topic')]_vars
  <2> SUFFICES ASSUME TypeInv, Order, Next, published' # published
               PROVE  Increasing(topic \o topic')
    BY DEF vars, counters
  <2>1. topic' = chunk
    BY DEF Next, vars, counters, Record, CallRead, Read, Overrun, ReadError, CallWrite, Write,
           ThreadExits, Start, Stop, Stopped, Horizon
  <2>2. chunk \in Seq(Int) /\ topic \in Seq(Int)
    BY MicAssumption DEF MicAssumption, TypeInv, TypeOK, Frame
  <2>3. /\ Len(topic \o chunk) = Len(topic) + Len(chunk)
        /\ \A k \in 1..(Len(topic) + Len(chunk)) :
              (topic \o chunk)[k] = IF k <= Len(topic) THEN topic[k] ELSE chunk[k - Len(topic)]
    BY <2>2, ConcatProperties
  <2> DEFINE told == topic \o chunk
  <2>4. Len(topic) \in Nat /\ Len(chunk) \in Nat
    BY <2>2
  <2>5. ASSUME NEW i \in 1..(Len(topic) + Len(chunk) - 1) PROVE told[i] < told[i + 1]
    <3> HIDE DEF told
    <3>1. /\ told[i] = IF i <= Len(topic) THEN topic[i] ELSE chunk[i - Len(topic)]
          /\ told[i + 1] = IF i + 1 <= Len(topic) THEN topic[i + 1] ELSE chunk[i + 1 - Len(topic)]
      BY <2>3, <2>4 DEF told
    <3>2. CASE i + 1 <= Len(topic)
      BY <3>1, <3>2, <2>4 DEF Order, Rising
    <3>3. CASE i = Len(topic)
      BY <3>1, <3>3, <2>4 DEF Order, Before
    <3>4. CASE i > Len(topic)
      <4>1. i - Len(topic) \in 1..Len(chunk) /\ i + 1 - Len(topic) \in 1..Len(chunk)
            /\ i - Len(topic) < i + 1 - Len(topic)
        BY <3>4, <2>4
      <4>2. QED  BY <3>1, <3>4, <4>1, <2>4 DEF Order, Rising
    <3>5. QED  BY <3>2, <3>3, <3>4, <2>4
  <2>6. topic \o topic' = told /\ Len(told) = Len(topic) + Len(chunk)
    BY <2>1, <2>3
  <2> HIDE DEF told
  <2>7. QED
    BY <2>4, <2>5, <2>6 DEF Increasing
<1>2. QED
  BY <1>1, MicTypeCorrect, MicOrder, PTL DEF Spec, FramesInOrder

-----------------------------------------------------------------------------
\* A chunk never holds more frames than there are between its first and its
\* last, and while the PCM runs a full chunk ends with the last frame passed.
ChunkEnds ==
    /\ chunk # <<>> => Last(chunk) >= Head(chunk) + Len(chunk) - 1
    /\ thread \in {"full", "write"} =>
          /\ pcm \in {"running", "xrun"}
          /\ pcm = "running" => Last(chunk) = Passed

\* What a read does to the chunk: n frames that follow Passed are appended.
LEMMA ReadAppends ==
    ASSUME TypeInv, Read
    PROVE  \E n \in 1..Len(ring) :
              /\ chunk' = chunk \o SubSeq(ring, 1, n)
              /\ Len(chunk') = Len(chunk) + n
              /\ chunk' # <<>>
              /\ Head(chunk') = IF chunk = <<>> THEN Passed + 1 ELSE Head(chunk)
              /\ Last(chunk') = Passed + n
              /\ Passed' = Passed + n
              /\ pcm' = "running" /\ pcm = "running"
<1>1. PICK n \in 1..Len(ring) :
          /\ chunk' = chunk \o SubSeq(ring, 1, n)
          /\ ring' = SubSeq(ring, n + 1, Len(ring))
  BY DEF Read, Fill
<1>2. pcm = "running" /\ pcm' = pcm /\ made' = made
  BY DEF Read
<1>3. /\ chunk \in Seq(Frame) /\ ring \in Seq(Frame) /\ made \in Int
      /\ \A k \in 1..Len(ring) : ring[k] = made - Len(ring) + k
  BY <1>2, MicAssumption DEF MicAssumption, TypeInv, TypeOK, RingEndsNow
<1>4. /\ Len(chunk') = Len(chunk) + n /\ Len(ring') = Len(ring) - n
      /\ \A k \in 1..(Len(chunk) + n) :
            chunk'[k] = IF k <= Len(chunk) THEN chunk[k] ELSE ring[k - Len(chunk)]
      /\ Last(chunk') = ring[n] /\ chunk' \in Seq(Frame)
  BY <1>1, <1>3, FillProperties
<1>5. Len(chunk) \in Nat /\ Len(ring) \in Nat /\ (chunk = <<>> <=> Len(chunk) = 0)
  BY <1>3, LenProperties, EmptySeq
<1>6. chunk' # <<>> /\ Head(chunk') = chunk'[1]
  BY <1>4, <1>5
<1>7. Head(chunk') = IF chunk = <<>> THEN ring[1] ELSE Head(chunk)
  BY <1>3, <1>4, <1>5, <1>6
<1>8. Passed = made - Len(ring) /\ Passed' = made - Len(ring) + n
  BY <1>2, <1>3, <1>4, <1>5 DEF Passed
<1>9. Last(chunk') = Passed + n /\ ring[1] = Passed + 1
  BY <1>3, <1>4, <1>5, <1>8
<1>10. Passed' = Passed + n
  BY <1>3, <1>5, <1>8
<1>11. QED
  BY <1>1, <1>2, <1>4, <1>6, <1>7, <1>9, <1>10

\* A chunk that a read has just filled ends where the ring begins, and stays
\* so until the ring overflows.
THEOREM MicChunkEnds == Spec => []ChunkEnds
<1>1. Init => ChunkEnds
  BY DEF Init, ChunkEnds
<1>2. TypeInv /\ TypeInv' /\ Order /\ ChunkEnds /\ [Next]_vars => ChunkEnds'
  <2> SUFFICES ASSUME TypeInv, TypeInv', Order, ChunkEnds, [Next]_vars PROVE ChunkEnds'
    OBVIOUS
  <2>1. /\ made \in Int /\ made' \in Int /\ ring \in Seq(Frame) /\ ring' \in Seq(Frame)
        /\ chunk \in Seq(Frame) /\ chunk' \in Seq(Frame)
        /\ pcm \in {"closed", "prepared"} => ring = <<>>
    BY MicAssumption DEF MicAssumption, TypeInv, TypeOK, RingEndsNow
  <2>2. /\ Len(ring) \in Nat /\ Len(ring') \in Nat /\ Len(chunk) \in Nat
        /\ Frame \subseteq Int
    BY <2>1, LenProperties DEF Frame
  <2>3. CASE Read
    <3>1. PICK n \in 1..Len(ring) :
              /\ Len(chunk') = Len(chunk) + n
              /\ Head(chunk') = IF chunk = <<>> THEN Passed + 1 ELSE Head(chunk)
              /\ Last(chunk') = Passed + n /\ Passed' = Passed + n /\ pcm' = "running"
      BY <2>3, ReadAppends
    <3>2. Passed \in Int
      BY <2>1, <2>2 DEF Passed
    <3>3. chunk # <<>> => Last(chunk) <= Passed /\ Last(chunk) \in Int /\ Head(chunk) \in Int
      <4>1. chunk # <<>> => Len(chunk) \in 1..Len(chunk) /\ 1 \in 1..Len(chunk)
        BY <2>1, <2>2, EmptySeq
      <4>2. chunk # <<>> => Head(chunk) = chunk[1] /\ Last(chunk) = chunk[Len(chunk)]
        BY <2>1 DEF Last
      <4>3. QED  BY <2>1, <2>2, <4>1, <4>2, ElementOfSeq DEF Order, UpTo
    <3>4. chunk = <<>> => Len(chunk) = 0
      OBVIOUS
    <3>5. Last(chunk') >= Head(chunk') + Len(chunk') - 1
      BY <2>2, <3>1, <3>2, <3>3, <3>4 DEF ChunkEnds
    <3>6. QED  BY <3>1, <3>5 DEF ChunkEnds
  <2>4. CASE Record
    <3>1. UNCHANGED <<chunk, thread>>
      BY <2>4 DEF Record
    <3>2. CASE pcm' = "running"
      <4>1. pcm = "running" /\ ring' = Append(ring, made + 1) /\ made' = made + 1
        BY <2>4, <3>2 DEF Record
      <4>2. Len(ring') = Len(ring) + 1
        BY <2>1, <4>1
      <4>3. Passed' = Passed
        BY <2>1, <2>2, <3>2, <4>1, <4>2 DEF Passed
      <4>4. QED  BY <3>1, <3>2, <4>1, <4>3 DEF ChunkEnds
    <3>3. CASE pcm' # "running"
      <4>1. pcm' = pcm \/ pcm' = "xrun"
        BY <2>4 DEF Record
      <4>2. QED  BY <3>1, <3>3, <4>1 DEF ChunkEnds
    <3>4. QED  BY <3>2, <3>3
  <2>5. CASE CallWrite \/ UNCHANGED vars \/ Horizon \/ ReadError \/ ThreadExits \/ Stop
    BY <2>5 DEF CallWrite, vars, Horizon, ReadError, ThreadExits, Stop, device, owner, counters,
                ChunkEnds, Passed
  <2>6. CASE Write \/ Start
    BY <2>6 DEF Write, Start, ChunkEnds
  <2>7. CASE CallRead \/ Overrun \/ Stopped
    BY <2>7 DEF CallRead, Overrun, Stopped, ChunkEnds, counters
  <2>8. QED  BY <2>3, <2>4, <2>5, <2>6, <2>7 DEF Next
<1>3. QED
  BY <1>1, <1>2, MicTypeCorrect, MicOrder, PTL DEF Spec
-----------------------------------------------------------------------------
\* The stream.


\* Where chunk n of m's session begins if no audio is lost after m.
Span(chunks) == chunks * ChunkFrames
Due(m, n) == Last(m.data) + Span(n - m.seq - 1) + 1

\* Message b was written after message a.
InOrder(a, b) ==
    IF b.session > a.session THEN Head(b.data) > Last(a.data)
    ELSE /\ b.seq > a.seq
         /\ Head(b.data) >= Due(a, b.seq)
         /\ b.overruns = a.overruns => Head(b.data) = Due(a, b.seq)

\* No overrun was counted since message m was written: nothing has been lost
\* that a read does not report, up to the chunk and up to the ring.
Unbroken(m) ==
    /\ pcm # "prepared"
    /\ (chunk = <<>> /\ pcm = "running") => Due(m, seq) = Passed + 1
    /\ chunk # <<>> =>
          /\ Due(m, seq) = Head(chunk)
          /\ Last(chunk) = Head(chunk) + Len(chunk) - 1
          /\ pcm = "running" => Last(chunk) = Passed

\* The messages that may have been written so far.
Known ==
    {m \in Message :
        /\ Len(m.data) = ChunkFrames
        /\ m.session <= starts /\ m.overruns <= overruns
        /\ Last(m.data) <= Passed
        /\ chunk # <<>> => Last(m.data) < Head(chunk)
        /\ m.session = starts =>
              /\ m.seq < seq
              /\ Due(m, seq) <= IF chunk = <<>> THEN Passed + 1 ELSE Head(chunk)
              /\ m.overruns = overruns => Unbroken(m)}

Holds ==
    /\ seq \in Nat /\ seq <= published /\ open \in BOOLEAN
    /\ queue \in Seq(Known) /\ Len(queue) <= Depth /\ (~open => queue = <<>>)
    /\ heard \in Seq(Known) /\ Len(heard) <= 2

Succession ==
    /\ \A i \in 1..Len(heard), j \in 1..Len(heard) : i < j => InOrder(heard[i], heard[j])
    /\ \A i \in 1..Len(queue), j \in 1..Len(queue) : i < j => InOrder(queue[i], queue[j])
    /\ \A i \in 1..Len(heard), j \in 1..Len(queue) : InOrder(heard[i], queue[j])

-----------------------------------------------------------------------------
\* A step of the stream is a step of the capture thread or leaves it alone.
LEMMA StreamStep == [StreamNext]_streamVars => [Next]_vars
<1>1. SUFFICES ASSUME [StreamNext]_streamVars PROVE [Next]_vars
  OBVIOUS
<1>2. CASE StreamNext
  <2>1. CASE NewSession \/ PublishChunk
    BY <2>1 DEF NewSession, PublishChunk, Next
  <2>2. CASE Hear \/ OpenSubscriber \/ CloseSubscriber
    BY <2>2 DEF Hear, OpenSubscriber, CloseSubscriber
  <2>3. CASE ~(NewSession \/ PublishChunk \/ Hear \/ OpenSubscriber \/ CloseSubscriber)
    BY <1>2, <2>3 DEF StreamNext, Next
  <2>4. QED  BY <2>1, <2>2, <2>3
<1>3. CASE UNCHANGED streamVars
  BY <1>3 DEF streamVars
<1>4. QED  BY <1>1, <1>2, <1>3

\* The stream implements the capture thread.
THEOREM StreamImplementsCapture == StreamSpec => Spec
<1>1. StreamInit => Init
  BY DEF StreamInit
<1>2. QED  BY <1>1, StreamStep, PTL DEF StreamSpec, Spec

\* Gaps are counted and frames in order at the end of the stream too.
THEOREM StreamInherits == StreamSpec => []TypeInv /\ []Order /\ []ChunkEnds
BY StreamImplementsCapture, MicTypeCorrect, MicOrder, MicChunkEnds, PTL

-----------------------------------------------------------------------------
\* The fields of a message.
LEMMA MessageTypes ==
    ASSUME NEW m \in Message, Len(m.data) = ChunkFrames
    PROVE  /\ m.seq \in Nat /\ m.session \in Nat /\ m.overruns \in Nat
           /\ m.data \in Seq(Frame) /\ m.data # <<>>
           /\ Head(m.data) \in Int /\ Last(m.data) \in Int
<1>1. /\ m.seq \in Nat /\ m.session \in 1..MaxStarts /\ m.overruns \in Nat
      /\ m.data \in Seq(Frame)
  BY DEF Message
<1>2. /\ 1 \in 1..Len(m.data) /\ Len(m.data) \in 1..Len(m.data)
  BY MicAssumption DEF MicAssumption
<1>3. Head(m.data) = m.data[1] /\ Last(m.data) = m.data[Len(m.data)] /\ m.data # <<>>
  BY <1>1, <1>2 DEF Last
<1>4. Head(m.data) \in Frame /\ Last(m.data) \in Frame
  BY <1>1, <1>2, <1>3, ElementOfSeq
<1>5. QED  BY <1>1, <1>3, <1>4, MicAssumption DEF MicAssumption, Frame

\* Where the next chunk is due, and that it is a chunk later for each number.
LEMMA DueProperties ==
    ASSUME NEW m \in Message, Len(m.data) = ChunkFrames, NEW n \in Int
    PROVE  /\ Due(m, n) \in Int
           /\ Due(m, n + 1) = Due(m, n) + ChunkFrames
           /\ Due(m, m.seq + 1) = Last(m.data) + 1
<1>1. m.seq \in Int /\ Last(m.data) \in Int /\ ChunkFrames \in Int
  BY MessageTypes, MicAssumption DEF MicAssumption
<1>2. /\ \A k \in Int : Span(k) \in Int /\ Span(k + 1) = Span(k) + ChunkFrames
      /\ Span(0) = 0
  BY <1>1 DEF Span
<1>3. /\ n - m.seq - 1 \in Int
      /\ (n + 1) - m.seq - 1 = (n - m.seq - 1) + 1 /\ (m.seq + 1) - m.seq - 1 = 0
  BY <1>1
<1>4. /\ Span(n - m.seq - 1) \in Int
      /\ Span((n + 1) - m.seq - 1) = Span(n - m.seq - 1) + ChunkFrames
      /\ Span((m.seq + 1) - m.seq - 1) = 0
  BY <1>2, <1>3
<1>5. /\ Due(m, n) = Last(m.data) + Span(n - m.seq - 1) + 1
      /\ Due(m, n + 1) = Last(m.data) + Span((n + 1) - m.seq - 1) + 1
      /\ Due(m, m.seq + 1) = Last(m.data) + Span((m.seq + 1) - m.seq - 1) + 1
  BY Zenon DEF Due
<1>6. Due(m, n) \in Int
  BY <1>1, <1>4, <1>5
<1>7. Due(m, n + 1) = Due(m, n) + ChunkFrames
  <2>1. Due(m, n + 1) = Last(m.data) + (Span(n - m.seq - 1) + ChunkFrames) + 1
    BY <1>4, <1>5, Zenon
  <2>2. QED  BY <1>1, <1>4, <1>5, <2>1
<1>8. Due(m, m.seq + 1) = Last(m.data) + 1
  <2>1. Due(m, m.seq + 1) = Last(m.data) + 0 + 1
    BY <1>4, <1>5, Zenon
  <2>2. QED  BY <1>1, <2>1
<1>9. QED  BY <1>6, <1>7, <1>8

\* The chunk's first and last frame.
LEMMA ChunkTypes ==
    ASSUME TypeInv, Order
    PROVE  /\ Len(chunk) \in Nat /\ chunk \in Seq(Frame)
           /\ chunk # <<>> =>
                /\ Head(chunk) \in Int /\ Last(chunk) \in Int
                /\ Head(chunk) <= Passed /\ Last(chunk) <= Passed
<1>1. chunk \in Seq(Frame) /\ Frame \subseteq Int
  BY MicAssumption DEF MicAssumption, TypeInv, TypeOK, Frame
<1>2. Len(chunk) \in Nat
  BY <1>1, LenProperties
<1>3. ASSUME chunk # <<>>
      PROVE  /\ 1 \in 1..Len(chunk) /\ Len(chunk) \in 1..Len(chunk)
             /\ Head(chunk) = chunk[1] /\ Last(chunk) = chunk[Len(chunk)]
  <2>1. Len(chunk) # 0
    BY <1>1, <1>3, EmptySeq
  <2>2. QED  BY <1>1, <1>2, <1>3, <2>1 DEF Last
<1>4. \A i \in 1..Len(chunk) : chunk[i] \in Int /\ chunk[i] <= Passed
  BY <1>1, ElementOfSeq DEF Order, UpTo
<1>5. QED  BY <1>1, <1>2, <1>3, <1>4

\* What was written once stays what may have been written, and nothing that
\* happens to the chunk or the ring makes the next frame earlier than due.
LEMMA KnownKept ==
    ASSUME TypeInv, TypeInv', Order, Order', ChunkEnds, seq \in Nat, [StreamNext]_streamVars
    PROVE  Known \subseteq Known'
<1> SUFFICES ASSUME NEW m \in Known PROVE m \in Known'
  OBVIOUS
<1>1. /\ m \in Message /\ Len(m.data) = ChunkFrames
      /\ m.session <= starts /\ m.overruns <= overruns
      /\ Last(m.data) <= Passed
      /\ chunk # <<>> => Last(m.data) < Head(chunk)
      /\ m.session = starts =>
            /\ m.seq < seq
            /\ Due(m, seq) <= IF chunk = <<>> THEN Passed + 1 ELSE Head(chunk)
            /\ m.overruns = overruns => Unbroken(m)
  BY DEF Known
<1>2. /\ m.seq \in Nat /\ m.session \in Nat /\ m.overruns \in Nat
      /\ Last(m.data) \in Int /\ Due(m, seq) \in Int
      /\ Due(m, seq + 1) = Due(m, seq) + ChunkFrames
  <2>1. /\ m.seq \in Nat /\ m.session \in Nat /\ m.overruns \in Nat
        /\ Last(m.data) \in Int
    BY <1>1, MessageTypes
  <2>2. seq \in Int
    OBVIOUS
  <2>3. Due(m, seq) \in Int /\ Due(m, seq + 1) = Due(m, seq) + ChunkFrames
    BY <1>1, <2>2, DueProperties
  <2>4. QED  BY <2>1, <2>3
<1>3. Passed' >= Passed /\ Passed \in Int /\ Passed' \in Int
  BY PassedGrows, StreamStep
<1>4. /\ Len(chunk) \in Nat
      /\ chunk # <<>> => /\ Head(chunk) \in Int /\ Last(chunk) \in Int
                         /\ Head(chunk) <= Passed /\ Last(chunk) <= Passed
  BY ChunkTypes
<1>5. /\ starts \in Nat /\ overruns \in Nat /\ made \in Int /\ ChunkFrames \in Nat \ {0}
      /\ starts' \in Nat /\ overruns' \in Nat /\ made' \in Int
      /\ pcm \in {"closed", "prepared"} => ring = <<>>
      /\ pcm' \in {"closed", "prepared"} => ring' = <<>>
  BY MicAssumption DEF MicAssumption, TypeInv, TypeOK, RingEndsNow
<1>6. ASSUME UNCHANGED <<chunk, seq, starts, overruns>>,
             (m.session = starts /\ m.overruns = overruns) => Unbroken(m)'
      PROVE  m \in Known'
  <2>1. /\ Last(m.data) <= Passed'
        /\ chunk' # <<>> => Last(m.data) < Head(chunk')
    BY <1>1, <1>2, <1>3, <1>6
  <2>2. m.session = starts' =>
           /\ m.seq < seq'
           /\ Due(m, seq') <= IF chunk' = <<>> THEN Passed' + 1 ELSE Head(chunk')
    BY <1>1, <1>2, <1>3, <1>6
  <2>3. (m.session = starts' /\ m.overruns = overruns') => Unbroken(m)'
    BY <1>6
  <2>4. m.session <= starts' /\ m.overruns <= overruns'
    BY <1>1, <1>6
  <2>5. QED  BY <1>1, <2>1, <2>2, <2>3, <2>4 DEF Known
<1>7. CASE Read /\ UNCHANGED seq
  <2>1. PICK n \in 1..Len(ring) :
            /\ chunk' # <<>> /\ Len(chunk') = Len(chunk) + n
            /\ Head(chunk') = IF chunk = <<>> THEN Passed + 1 ELSE Head(chunk)
            /\ Last(chunk') = Passed + n /\ Passed' = Passed + n
            /\ pcm' = "running" /\ pcm = "running"
    BY <1>7, ReadAppends
  <2>2. UNCHANGED <<starts, overruns, seq>>
    BY <1>7 DEF Read, owner
  <2>3. n \in Int
    OBVIOUS
  <2>4. Last(m.data) < Head(chunk') /\ Last(m.data) <= Passed'
    BY <1>1, <1>2, <1>3, <2>1
  <2>5. m.session = starts => Due(m, seq) <= Head(chunk')
    BY <1>1, <1>2, <1>3, <2>1
  <2>6. (m.session = starts /\ m.overruns = overruns) => Unbroken(m)'
    <3> SUFFICES ASSUME m.session = starts, m.overruns = overruns PROVE Unbroken(m)'
      OBVIOUS
    <3>1. Unbroken(m)
      BY <1>1
    <3>2. Due(m, seq) = Head(chunk')
      BY <2>1, <3>1 DEF Unbroken
    <3>3. Last(chunk') = Head(chunk') + Len(chunk') - 1
      <4>1. CASE chunk = <<>>
        BY <4>1, <1>3, <1>4, <2>1, <2>3
      <4>2. CASE chunk # <<>>
        BY <4>2, <1>3, <1>4, <2>1, <2>3, <3>1 DEF Unbroken
      <4>3. QED  BY <4>1, <4>2
    <3>4. Last(chunk') = Passed'
      BY <2>1
    <3>5. QED  BY <2>1, <2>2, <3>2, <3>3, <3>4 DEF Unbroken
  <2>7. QED  BY <1>1, <2>1, <2>2, <2>4, <2>5, <2>6 DEF Known
<1>8. CASE Record /\ UNCHANGED seq
  <2>1. UNCHANGED <<chunk, seq, starts, overruns>>
    BY <1>8 DEF Record, owner, counters
  <2>2. pcm' = "running" => pcm = "running" /\ Passed' = Passed
    <3> SUFFICES ASSUME pcm' = "running" PROVE pcm = "running" /\ Passed' = Passed
      OBVIOUS
    <3>1. pcm = "running" /\ ring' = Append(ring, made + 1) /\ made' = made + 1
      BY <1>8 DEF Record
    <3>2. ring \in Seq(Frame)
      BY DEF TypeInv, TypeOK
    <3>3. Len(ring') = Len(ring) + 1 /\ Len(ring) \in Nat
      BY <3>1, <3>2
    <3>4. QED  BY <1>5, <3>1, <3>3 DEF Passed
  <2>3. pcm' = "prepared" => pcm = "prepared"
    BY <1>8 DEF Record
  <2>4. Unbroken(m) => Unbroken(m)'
    BY <2>1, <2>2, <2>3 DEF Unbroken
  <2>5. QED  BY <1>1, <1>6, <2>1, <2>4
<1>9. CASE CallRead /\ UNCHANGED seq
  <2>1. UNCHANGED <<chunk, seq, starts, overruns>> /\ made' = made /\ ring' = ring
    BY <1>9 DEF CallRead, owner, counters
  <2>2. pcm' # "prepared" /\ (pcm # "prepared" => pcm' = pcm)
    BY <1>9 DEF CallRead
  <2>3. Unbroken(m) => Unbroken(m)'
    BY <2>1, <2>2 DEF Unbroken, Passed
  <2>4. QED  BY <1>1, <1>6, <2>1, <2>3
<1>10. CASE Overrun /\ UNCHANGED seq
  <2>1. UNCHANGED <<chunk, seq, starts>> /\ overruns' = overruns + 1
    BY <1>10 DEF Overrun, owner
  <2>2. m.overruns <= overruns' /\ m.overruns # overruns'
    BY <1>1, <1>2, <1>5, <2>1
  <2>3. QED  BY <1>1, <1>2, <1>3, <2>1, <2>2 DEF Known
<1>11. CASE Stopped /\ UNCHANGED seq
  <2>1. UNCHANGED <<chunk, seq, starts, overruns>> /\ pcm' = "closed"
    BY <1>11 DEF Stopped, counters
  <2>2. Unbroken(m) => Unbroken(m)'
    BY <2>1 DEF Unbroken
  <2>3. QED  BY <1>1, <1>6, <2>1, <2>2
<1>12. CASE NewSession
  <2>1. starts' = starts + 1 /\ overruns' = overruns /\ chunk' = <<>>
    BY <1>12 DEF NewSession, Start
  <2>2. m.session <= starts' /\ m.session # starts'
    BY <1>1, <1>2, <1>5, <2>1
  <2>3. QED  BY <1>1, <1>2, <1>3, <2>1, <2>2 DEF Known
<1>13. CASE PublishChunk
  <2>1. /\ thread = "write" /\ chunk' = <<>> /\ seq' = seq + 1
        /\ UNCHANGED <<made, pcm, ring, starts, overruns>>
    BY <1>13 DEF PublishChunk, Write, device, owner
  <2>2. Len(chunk) = ChunkFrames /\ chunk # <<>>
    BY <2>1, MicAssumption DEF MicAssumption, TypeInv, ThreadRuns
  <2>3. Passed' = Passed
    BY <2>1 DEF Passed
  <2>4. /\ Last(chunk) >= Head(chunk) + ChunkFrames - 1
        /\ pcm \in {"running", "xrun"} /\ (pcm = "running" => Last(chunk) = Passed)
    BY <2>1, <2>2 DEF ChunkEnds
  <2>5. m.session = starts => m.seq < seq' /\ Due(m, seq') <= Passed' + 1
    BY <1>1, <1>2, <1>3, <1>4, <1>5, <2>1, <2>2, <2>3, <2>4
  <2>6. (m.session = starts /\ m.overruns = overruns) => Unbroken(m)'
    <3> SUFFICES ASSUME m.session = starts, m.overruns = overruns PROVE Unbroken(m)'
      OBVIOUS
    <3>1. Due(m, seq) = Head(chunk) /\ Last(chunk) = Head(chunk) + Len(chunk) - 1
      BY <1>1, <2>2 DEF Unbroken
    <3>2. pcm = "running" => Due(m, seq + 1) = Passed + 1
      BY <1>2, <1>3, <1>4, <1>5, <2>2, <2>4, <3>1
    <3>3. QED  BY <2>1, <2>3, <2>4, <3>2 DEF Unbroken
  <2>7. QED  BY <1>1, <1>2, <1>3, <2>1, <2>3, <2>5, <2>6 DEF Known
<1>14. CASE UNCHANGED <<vars, seq>>
  <2>1. UNCHANGED <<chunk, seq, starts, overruns, pcm, made, ring>>
    BY <1>14 DEF vars, device, owner, counters
  <2>2. Unbroken(m) => Unbroken(m)'
    BY <2>1 DEF Unbroken, Passed
  <2>3. QED  BY <1>1, <1>6, <2>1, <2>2
<1>15. CASE (ReadError \/ CallWrite \/ ThreadExits \/ Stop) /\ UNCHANGED seq
  <2>1. UNCHANGED <<chunk, seq, starts, overruns, pcm, made, ring>>
    BY <1>15 DEF ReadError, CallWrite, ThreadExits, Stop, device, owner, counters
  <2>2. Unbroken(m) => Unbroken(m)'
    BY <2>1 DEF Unbroken, Passed
  <2>3. QED  BY <1>1, <1>6, <2>1, <2>2
<1>16. QED
  BY <1>7, <1>8, <1>9, <1>10, <1>11, <1>12, <1>13, <1>14, <1>15
     DEF StreamNext, streamVars, Hear, OpenSubscriber, CloseSubscriber, Horizon

-----------------------------------------------------------------------------
Written == [seq |-> seq, data |-> chunk, session |-> starts, overruns |-> overruns]

\* The message that PublishChunk writes is known from then on, and follows
\* every message known before.
LEMMA WrittenFollows ==
    ASSUME TypeInv, TypeInv', Order, ChunkEnds, seq \in Nat, PublishChunk
    PROVE  /\ Written \in Known'
           /\ \A m \in Known : InOrder(m, Written)
<1>1. /\ thread = "write" /\ chunk' = <<>> /\ seq' = seq + 1
      /\ UNCHANGED <<made, pcm, ring, starts, overruns>>
  BY DEF PublishChunk, Write, device, owner
<1>2. Len(chunk) = ChunkFrames /\ chunk # <<>> /\ starts \in 1..MaxStarts
      /\ overruns \in Nat /\ chunk \in Seq(Frame)
  BY <1>1, MicAssumption DEF MicAssumption, TypeInv, TypeOK, ThreadRuns
<1>3. /\ Passed' = Passed
      /\ pcm \in {"running", "xrun"} /\ (pcm = "running" => Last(chunk) = Passed)
      /\ Last(chunk) <= Passed /\ Last(chunk) \in Int /\ Head(chunk) \in Int
  BY <1>1, <1>2, ChunkTypes DEF Passed, ChunkEnds
<1>4. Passed \in Int
  BY PassedGrows DEF PublishChunk, Next
<1>5. Written \in Message /\ Len(Written.data) = ChunkFrames
  BY <1>2 DEF Written, Message
<1>6. /\ Written.seq = seq /\ Written.data = chunk
      /\ Written.session = starts /\ Written.overruns = overruns
  BY DEF Written
<1>7. Due(Written, seq + 1) = Last(chunk) + 1
  <2>1. seq \in Int /\ Due(Written, Written.seq + 1) = Last(Written.data) + 1
    BY <1>5, DueProperties
  <2>2. QED  BY <1>6, <2>1
<1>8. Written \in Known'
  <2> DEFINE w == Written
  <2>1. /\ w \in Message /\ Len(w.data) = ChunkFrames
        /\ w.seq = seq /\ w.data = chunk /\ w.session = starts /\ w.overruns = overruns
        /\ Due(w, seq + 1) = Last(chunk) + 1
    BY <1>5, <1>6, <1>7
  <2> HIDE DEF w
  <2>2. ASSUME NEW m \in Message, m = w
        PROVE  m \in Known'
    <3>1. Due(m, seq') <= Passed' + 1 /\ m.seq < seq'
      BY <1>1, <1>3, <1>4, <2>1, <2>2
    <3>2. Unbroken(m)'
      BY <1>1, <1>3, <1>4, <2>1, <2>2 DEF Unbroken
    <3>3. m.session <= starts' /\ m.overruns <= overruns' /\ Last(m.data) <= Passed'
      BY <1>1, <1>2, <1>3, <2>1, <2>2
    <3>4. QED  BY <1>1, <2>1, <2>2, <3>1, <3>2, <3>3 DEF Known
  <2>3. QED  BY <2>1, <2>2 DEF w
<1>9. ASSUME NEW m \in Known PROVE InOrder(m, Written)
  <2>1. /\ m \in Message /\ Len(m.data) = ChunkFrames
        /\ m.session <= starts /\ Last(m.data) < Head(chunk)
        /\ m.session = starts =>
              /\ m.seq < seq /\ Due(m, seq) <= Head(chunk)
              /\ m.overruns = overruns => Due(m, seq) = Head(chunk)
    BY <1>2 DEF Known, Unbroken
  <2>2. m.session \in Nat /\ m.seq \in Nat /\ Last(m.data) \in Int /\ Due(m, seq) \in Int
    <3>1. seq \in Int
      OBVIOUS
    <3>2. QED  BY <2>1, <3>1, MessageTypes, DueProperties
  <2>3. CASE starts > m.session
    BY <1>3, <1>6, <2>1, <2>2, <2>3 DEF InOrder
  <2>4. CASE starts = m.session
    <3>1. Written.seq > m.seq /\ Head(Written.data) >= Due(m, Written.seq)
      BY <1>3, <1>6, <2>1, <2>2, <2>4
    <3>2. Written.overruns = m.overruns => Head(Written.data) = Due(m, Written.seq)
      BY <1>6, <2>1, <2>4
    <3>3. ~(Written.session > m.session)
      BY <1>2, <1>6, <2>4
    <3>4. QED  BY <3>1, <3>2, <3>3 DEF InOrder
  <2>5. QED  BY <1>2, <2>1, <2>2, <2>3, <2>4
<1>10. QED  BY <1>8, <1>9

\* The receiving side holds known messages, in the order of their writing.
THEOREM StreamHolds == StreamSpec => []Holds /\ []Succession
<1> DEFINE Inv == Holds /\ Succession
<1>1. StreamInit => Inv
  <2> SUFFICES ASSUME StreamInit PROVE Inv
    OBVIOUS
  <2>1. /\ seq = 0 /\ published = 0 /\ open = FALSE /\ queue = <<>> /\ heard = <<>>
    BY DEF StreamInit, Init
  <2>2. <<>> \in Seq(Known) /\ Len(<<>>) = 0 /\ 0 <= Depth
    <3>1. <<>> \in Seq(Known)
      BY EmptySeq
    <3>2. Len(<<>>) = 0
      BY EmptySeq
    <3>3. 0 <= Depth
      BY MicStreamAssumption DEF MicStreamAssumption
    <3>4. QED  BY <3>1, <3>2, <3>3
  <2>3. Holds
    <3>1. 0 \in Nat /\ 0 <= 0 /\ 0 <= 2 /\ FALSE \in BOOLEAN
      OBVIOUS
    <3>2. QED  BY <2>1, <2>2, <3>1, Zenon DEF Holds
  <2>4. Succession
    BY <2>1, <2>2 DEF Succession
  <2>5. QED  BY <2>3, <2>4
<1>2. TypeInv /\ TypeInv' /\ Order /\ Order' /\ ChunkEnds /\ Inv /\ [StreamNext]_streamVars => Inv'
  <2> SUFFICES ASSUME TypeInv, TypeInv', Order, Order', ChunkEnds, Holds, Succession,
                      [StreamNext]_streamVars
               PROVE  Inv'
    OBVIOUS
  <2>1. /\ seq \in Nat /\ seq <= published /\ open \in BOOLEAN
        /\ queue \in Seq(Known) /\ Len(queue) <= Depth /\ (~open => queue = <<>>)
        /\ heard \in Seq(Known) /\ Len(heard) <= 2
    BY DEF Holds
  <2>2. queue \in Seq(Known') /\ heard \in Seq(Known')
    BY <2>1, KnownKept, SeqMonotonic
  <2>3. Len(queue) \in Nat /\ Len(heard) \in Nat /\ published \in Nat
    BY <2>1, LenProperties DEF TypeInv, TypeOK
  <2>4. CASE PublishChunk
    <3>1. seq' = seq + 1 /\ published' = published + 1 /\ UNCHANGED <<open, heard>>
          /\ queue' = IF open THEN Offer(queue, Depth, Written) ELSE queue
      BY <2>4 DEF PublishChunk, Write, Send, Written
    <3>2. Written \in Known' /\ \A m \in Known : InOrder(m, Written)
      BY <2>1, <2>4, WrittenFollows
    <3>3. seq' \in Nat /\ seq' <= published'
      BY <2>1, <2>3, <3>1
    <3>4. CASE ~open
      BY <2>1, <2>2, <3>1, <3>3, <3>4 DEF Holds, Succession
    <3>5. CASE open
      <4>1. /\ queue' \in Seq(Known') /\ Len(queue') <= Depth
            /\ \E d \in {0, 1} :
                 /\ Len(queue') = Len(queue) + 1 - d
                 /\ \A i \in 1..(Len(queue) + 1 - d) :
                       queue'[i] = IF i + d <= Len(queue) THEN queue[i + d] ELSE Written
        <5>1. Depth \in Nat \ {0} /\ Len(queue) <= Depth /\ queue \in Seq(Known') /\ Written \in Known'
          BY <2>1, <2>2, <3>2, MicStreamAssumption DEF MicStreamAssumption
        <5>2. queue' = Offer(queue, Depth, Written)
          BY <3>1, <3>5
        <5> HIDE DEF Holds, Succession
        <5>3. ASSUME NEW S, NEW w \in S, queue \in Seq(S), w = Written
              PROVE  /\ queue' \in Seq(S) /\ Len(queue') <= Depth
                     /\ \E d \in {0, 1} :
                          /\ Len(queue') = Len(queue) + 1 - d
                          /\ \A i \in 1..(Len(queue) + 1 - d) :
                                queue'[i] = IF i + d <= Len(queue) THEN queue[i + d] ELSE w
          <6>1. Depth \in Nat \ {0} /\ Len(queue) <= Depth
            BY <5>1
          <6>2. Offer(queue, Depth, w) \in Seq(S) /\ Len(Offer(queue, Depth, w)) <= Depth
            BY <5>3, <6>1, OfferProperties
          <6>3. \E d \in {0, 1} :
                    /\ Len(Offer(queue, Depth, w)) = Len(queue) + 1 - d
                    /\ \A i \in 1..(Len(queue) + 1 - d) :
                          Offer(queue, Depth, w)[i]
                            = IF i + d <= Len(queue) THEN queue[i + d] ELSE w
            BY <5>3, <6>1, OfferProperties
          <6>4. QED  BY <5>2, <5>3, <6>2, <6>3
        <5>4. QED  BY <5>1, <5>3
      <4>2. PICK d \in {0, 1} :
              /\ Len(queue') = Len(queue) + 1 - d
              /\ \A i \in 1..(Len(queue) + 1 - d) :
                    queue'[i] = IF i + d <= Len(queue) THEN queue[i + d] ELSE Written
        BY <4>1
      <4>3. \A i \in 1..Len(queue') : \/ i + d \in 1..Len(queue) /\ queue'[i] = queue[i + d]
                                      \/ i + d = Len(queue) + 1 /\ queue'[i] = Written
        BY <2>3, <4>2
      <4>4. /\ \A i \in 1..Len(queue) : queue[i] \in Known
            /\ \A i \in 1..Len(heard) : heard[i] \in Known
        BY <2>1, ElementOfSeq
      <4>5. ASSUME NEW i \in 1..Len(queue'), NEW j \in 1..Len(queue'), i < j
            PROVE  InOrder(queue'[i], queue'[j])
        <5>1. i + d < j + d /\ j + d <= Len(queue) + 1 /\ i + d # Len(queue) + 1
          BY <2>3, <4>2, <4>3, <4>5
        <5>2. i + d \in 1..Len(queue) /\ queue'[i] = queue[i + d]
          BY <4>3, <5>1
        <5>3. CASE j + d \in 1..Len(queue) /\ queue'[j] = queue[j + d]
          BY <5>1, <5>2, <5>3 DEF Succession
        <5>4. CASE queue'[j] = Written
          BY <3>2, <4>4, <5>2, <5>4
        <5>5. QED  BY <4>3, <5>3, <5>4
      <4>6. ASSUME NEW i \in 1..Len(heard), NEW j \in 1..Len(queue')
            PROVE  InOrder(heard[i], queue'[j])
        <5>1. CASE j + d \in 1..Len(queue) /\ queue'[j] = queue[j + d]
          BY <5>1 DEF Succession
        <5>2. CASE queue'[j] = Written
          BY <3>2, <4>4, <5>2
        <5>3. QED  BY <4>3, <5>1, <5>2
      <4>7. Holds'
        BY <2>1, <2>2, <3>1, <3>3, <3>5, <4>1 DEF Holds
      <4>8. Succession'
        BY <3>1, <4>5, <4>6 DEF Succession
      <4>9. QED  BY <4>7, <4>8
    <3>6. QED  BY <2>1, <3>4, <3>5
  <2>5. CASE Hear
    <3>1. /\ queue # <<>>
          /\ heard' = (IF heard = <<>> THEN <<>> ELSE <<Last(heard)>>) \o <<Head(queue)>>
          /\ queue' = Tail(queue) /\ UNCHANGED <<seq, open>> /\ published' = published
      BY <2>5 DEF Hear, vars, counters
    <3>2. /\ Head(queue) = queue[1] /\ Head(queue) \in Known'
          /\ Tail(queue) \in Seq(Known') /\ Len(Tail(queue)) = Len(queue) - 1
          /\ \A i \in 1..Len(Tail(queue)) : Tail(queue)[i] = queue[i + 1] /\ i + 1 \in 1..Len(queue)
      BY <2>2, <3>1, TakeProperties
    <3>3. 1 \in 1..Len(queue) /\ open = TRUE
      BY <2>1, <2>3, <3>1, EmptySeq
    <3> /\ seq' \in Nat /\ seq' <= published' /\ open' \in BOOLEAN
        /\ queue' \in Seq(Known') /\ Len(queue') <= Depth /\ (~open' => queue' = <<>>)
      <4>1. Len(queue') <= Depth
        BY <2>1, <2>3, <3>1, <3>2, MicStreamAssumption DEF MicStreamAssumption
      <4>2. QED  BY <2>1, <3>1, <3>2, <3>3, <4>1
    <3>4. CASE heard = <<>>
      <4>1. heard' = <<Head(queue)>>
        BY <3>1, <3>4
      <4>2. heard' \in Seq(Known') /\ Len(heard') = 1 /\ heard'[1] = queue[1]
        BY <3>2, <4>1
      <4>3. Holds'
        BY <4>2 DEF Holds
      <4>4. Succession'
        BY <2>3, <3>1, <3>2, <3>3, <4>2 DEF Succession
      <4>5. QED  BY <4>3, <4>4
    <3>5. CASE heard # <<>>
      <4>1. Len(heard) \in 1..Len(heard) /\ Last(heard) = heard[Len(heard)]
        BY <2>1, <2>3, <3>5, EmptySeq DEF Last
      <4>2. Last(heard) \in Known'
        BY <2>2, <4>1, ElementOfSeq
      <4>3. heard' \in Seq(Known') /\ Len(heard') = 2
            /\ heard'[1] = heard[Len(heard)] /\ heard'[2] = queue[1]
        <5>1. /\ <<Last(heard)>> \in Seq(Known') /\ <<Head(queue)>> \in Seq(Known')
              /\ Len(<<Last(heard)>>) = 1 /\ Len(<<Head(queue)>>) = 1
              /\ <<Last(heard)>>[1] = heard[Len(heard)] /\ <<Head(queue)>>[1] = queue[1]
          BY <3>2, <4>1, <4>2
        <5>2. heard' = <<Last(heard)>> \o <<Head(queue)>>
          BY <3>1, <3>5
        <5>3. QED  BY <5>1, <5>2, ConcatProperties
      <4>4. Holds'
        BY <4>3 DEF Holds
      <4>5. ASSUME NEW i \in 1..Len(heard'), NEW j \in 1..Len(heard'), i < j
            PROVE  InOrder(heard'[i], heard'[j])
        <5>1. i = 1 /\ j = 2
          BY <4>3, <4>5
        <5>2. QED  BY <3>3, <4>1, <4>3, <5>1 DEF Succession
      <4>6. ASSUME NEW i \in 1..Len(queue'), NEW j \in 1..Len(queue'), i < j
            PROVE  InOrder(queue'[i], queue'[j])
        <5>1. i + 1 \in 1..Len(queue) /\ j + 1 \in 1..Len(queue) /\ i + 1 < j + 1
              /\ queue'[i] = queue[i + 1] /\ queue'[j] = queue[j + 1]
          BY <3>1, <3>2, <4>6
        <5>2. QED  BY <5>1 DEF Succession
      <4>7. ASSUME NEW i \in 1..Len(heard'), NEW j \in 1..Len(queue')
            PROVE  InOrder(heard'[i], queue'[j])
        <5>1. j + 1 \in 1..Len(queue) /\ queue'[j] = queue[j + 1] /\ 1 < j + 1
          BY <3>1, <3>2
        <5>2. i \in {1, 2}
          BY <4>3
        <5>3. QED  BY <3>3, <4>1, <4>3, <5>1, <5>2 DEF Succession
      <4>8. Succession'
        BY <4>5, <4>6, <4>7 DEF Succession
      <4>9. QED  BY <4>4, <4>8
    <3>6. QED  BY <3>4, <3>5
  <2>6. CASE OpenSubscriber \/ CloseSubscriber
    <3>1. /\ UNCHANGED <<seq, published>> /\ open' \in BOOLEAN
          /\ queue' = <<>> /\ heard' \in {heard, <<>>}
      BY <2>1, <2>6 DEF OpenSubscriber, CloseSubscriber, vars, counters
    <3>2. Holds'
      <4>1. queue' \in Seq(Known') /\ Len(queue') = 0
        <5>1. <<>> \in Seq(Known') /\ Len(<<>>) = 0
          BY EmptySeq
        <5>2. QED  BY <3>1, <5>1
      <4>2. heard' \in Seq(Known') /\ Len(heard') <= 2
        <5>1. <<>> \in Seq(Known') /\ Len(<<>>) = 0
          BY EmptySeq
        <5>2. CASE heard' = <<>>
          BY <5>1, <5>2
        <5>3. CASE heard' = heard
          BY <2>1, <2>2, <5>3
        <5>4. QED  BY <3>1, <5>2, <5>3
      <4>3. QED
        BY <2>1, <3>1, <4>1, <4>2, MicStreamAssumption DEF Holds, MicStreamAssumption
    <3>3. Succession'
      BY <3>1 DEF Succession
    <3>4. QED  BY <3>2, <3>3
  <2>7. CASE NewSession
    <3>1. seq' = 0 /\ UNCHANGED <<published, open, queue, heard>>
      BY <2>7 DEF NewSession, Start, receiver
    <3>2. QED  BY <2>1, <2>2, <2>3, <3>1 DEF Holds, Succession
  <2>8. CASE UNCHANGED <<seq, receiver, published>>
    BY <2>1, <2>2, <2>8 DEF Holds, Succession, receiver
  <2>9. ~(PublishChunk \/ Hear \/ OpenSubscriber \/ CloseSubscriber \/ NewSession)
          => UNCHANGED <<seq, receiver, published>>
    BY DEF StreamNext, streamVars, vars, counters, Record, CallRead, Read, Overrun, ReadError,
           CallWrite, ThreadExits, Stop, Stopped, Horizon
  <2>10. QED  BY <2>4, <2>5, <2>6, <2>7, <2>8, <2>9
<1>3. QED
  BY <1>1, <1>2, StreamInherits, PTL DEF StreamSpec

\* The types of the stream's variables.
THEOREM StreamTypeCorrect == StreamSpec => []StreamTypeOK
<1>1. TypeInv /\ Holds => StreamTypeOK
  <2> SUFFICES ASSUME TypeInv, Holds PROVE StreamTypeOK
    OBVIOUS
  <2>1. Known \subseteq Message
    BY DEF Known
  <2>2. queue \in Seq(Message) /\ heard \in Seq(Message)
    BY <2>1, SeqMonotonic DEF Holds
  <2>3. seq \in 0..MaxFrames
    BY MicAssumption DEF MicAssumption, Holds, TypeInv, TypeOK
  <2>4. QED  BY <2>2, <2>3 DEF StreamTypeOK, Holds, TypeInv
<1>2. QED
  BY <1>1, StreamInherits, StreamHolds, PTL

\* Between two chunks heard one after the other the numbers tell what is
\* missing, whatever the reader's queue dropped.
THEOREM GapsNumbered == StreamSpec => []GapsAreNumbered
<1>1. Holds /\ Succession => GapsAreNumbered
  <2> SUFFICES ASSUME Holds, Succession, Len(heard) = 2 PROVE GapsAreNumbered
    BY DEF GapsAreNumbered
  <2>1. PICK a \in Known, b \in Known : a = heard[1] /\ b = heard[2] /\ InOrder(a, b)
    <3>1. 1 \in 1..Len(heard) /\ 2 \in 1..Len(heard)
      OBVIOUS
    <3>2. heard[1] \in Known /\ heard[2] \in Known
      BY <3>1, ElementOfSeq DEF Holds
    <3>3. InOrder(heard[1], heard[2])
      BY <3>1 DEF Succession
    <3>4. QED  BY <3>2, <3>3
  <2>2. /\ Last(a.data) \in Int /\ Head(b.data) \in Int /\ a.seq \in Int /\ b.seq \in Int
        /\ a \in Message /\ Len(a.data) = ChunkFrames
    BY MessageTypes DEF Known
  <2>3. Span(b.seq - a.seq - 1) = (b.seq - a.seq - 1) * ChunkFrames
    BY DEF Span
  <2>4. Span(b.seq - a.seq - 1) \in Int
    <3>1. b.seq - a.seq - 1 \in Int /\ ChunkFrames \in Int
      BY <2>2, MicAssumption DEF MicAssumption
    <3>2. QED  BY <3>1 DEF Span
  <2>5. Due(a, b.seq) = Last(a.data) + Span(b.seq - a.seq - 1) + 1
    BY DEF Due
  <2> DEFINE missing == Head(b.data) - Last(a.data) - 1
             skipped == Span(b.seq - a.seq - 1)
  <2>6. IF b.session > a.session THEN missing >= 0
        ELSE b.seq > a.seq /\ missing >= skipped /\ (b.overruns = a.overruns => missing = skipped)
    BY <2>1, <2>2, <2>4, <2>5 DEF InOrder
  <2>7. QED  BY <2>1, <2>3, <2>6 DEF GapsAreNumbered
<1>2. QED
  BY <1>1, StreamHolds, PTL

\* Within a session of the stream audio is missing only where an overrun was
\* counted, and frames reach the topic in order.
THEOREM StreamGapsCounted == StreamSpec => []GapsAreCounted
BY StreamImplementsCapture, GapsCounted, PTL

\* FramesInOrder of the stream: no frame is written twice or out of order.
THEOREM StreamFramesOrdered == StreamSpec => FramesInOrder
BY StreamImplementsCapture, FramesOrdered, PTL
=============================================================================
