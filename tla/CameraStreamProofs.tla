------------------------- MODULE CameraStreamProofs -------------------------
(***************************************************************************)
(* What holds of CameraStream for every depth and bound: type correctness,  *)
(* that it implements LatestWins, that one session of the receiver decodes a *)
(* frame at most once, and that restarts replay at most one frame each.      *)
(*                                                                         *)
(* The argument is one chain of stamps.  Along the path of a frame, every   *)
(* place holds nothing newer than the places before it:                     *)
(*   out, decLast <= subBuf <= queue[1] <= queue[2] ... <= Ceiling <= camBuf *)
(* where empty places are skipped and Ceiling is the frame in the encoder.  *)
(* The links are <= and not <: a restart sends a frame down the path again. *)
(***************************************************************************)
EXTENDS CameraStream, ReaderQueueProofs

\* The newest frame that may have left the encoder, now or in one more step.
Ceiling == IF enc = "work" THEN encFrame ELSE camBuf

SenderChain ==
    /\ camBuf <= captured
    /\ Ceiling <= camBuf
    /\ enc = "work" => encFrame # NoData

QueueChain ==
    /\ \A i \in 1..Len(queue) :
          /\ queue[i] <= Ceiling /\ subBuf <= queue[i]
          /\ out <= queue[i] /\ decLast <= queue[i]
    /\ \A i, j \in 1..Len(queue) : i < j => queue[i] <= queue[j]

ReceiverChain ==
    /\ subBuf <= Ceiling /\ out <= Ceiling /\ decLast <= Ceiling
    /\ subBuf # NoData => out <= subBuf /\ decLast <= subBuf

\* The decode thread remembers its frame; what it has in hand is not older
\* than what it last put out, and newer than all of this session.
DecoderChain ==
    /\ sessOut <= decLast
    /\ dec = "work" =>
          decFrame = decLast /\ decFrame # NoData /\ out <= decFrame /\ sessOut < decFrame

Chain == SenderChain /\ QueueChain /\ ReceiverChain /\ DecoderChain

-----------------------------------------------------------------------------
\* The encoder never works on nothing (needed for the type of the queue), and
\* only between StartPublisher and StopCapture.
Working ==
    /\ enc = "work" => encFrame \in Frame
    /\ tx \in {"off", "capturing"} => enc = "off"

\* Every variable stays in its type.
THEOREM StreamTypeCorrect == Spec => [](TypeOK /\ Working)
<1> USE StreamAssumption DEF StreamAssumption, Frame, FrameOrNone, NoData
<1>1. Init => TypeOK /\ Working
  BY DEF Init, TypeOK, Working
<1>2. TypeOK /\ Working /\ [Next]_vars => TypeOK' /\ Working'
  <2> SUFFICES ASSUME TypeOK, Working, [Next]_vars PROVE TypeOK' /\ Working'
    OBVIOUS
  <2> USE DEF TypeOK, Working, capture, sender, receiver, decoder
  <2>1. CASE CaptureFrame
    BY <2>1 DEF CaptureFrame
  <2>2. CASE CaptureDies
    BY <2>2 DEF CaptureDies
  <2>3. CASE StartCapture
    BY <2>3 DEF StartCapture
  <2>4. CASE StartPublisher
    BY <2>4 DEF StartPublisher
  <2>5. CASE PublisherFails
    BY <2>5 DEF PublisherFails
  <2>6. CASE StopPublisher
    BY <2>6 DEF StopPublisher
  <2>7. CASE StopCapture
    BY <2>7 DEF StopCapture
  <2>8. CASE EncoderPoll
    BY <2>8 DEF EncoderPoll, IsNew
  <2>9. CASE EncoderExit
    BY <2>9 DEF EncoderExit
  <2>10. CASE EncodePublish
    <3>1. /\ enc' = "sent"
          /\ UNCHANGED <<kind, capture, tx, encLast, encFrame, published, txStarts, subBuf,
                         age, wd, raced, rx, rxStarts, decoder>>
      BY <2>10 DEF EncodePublish
    <3>2. encFrame \in Frame
      BY <2>10 DEF EncodePublish
    <3>3. queue' \in Seq(Frame) /\ Len(queue') <= Depth /\ offered' \in FrameOrNone
      <4>1. CASE ReaderOpen
        <5>1. queue' = Offer(queue, Depth, encFrame) /\ offered' = encFrame
          BY <2>10, <4>1 DEF EncodePublish
        <5>2. QED  BY <3>2, <5>1, OfferProperties
      <4>2. CASE ~ReaderOpen
        BY <2>10, <4>2 DEF EncodePublish
      <4>3. QED  BY <4>1, <4>2
    <3>4. TypeOK'
      BY <3>1, <3>3
    <3>5. Working'
      BY <2>10, <3>1 DEF EncodePublish
    <3>6. QED  BY <3>4, <3>5
  <2>11. CASE EncodeNothing
    BY <2>11 DEF EncodeNothing
  <2>12. CASE Receive
    <3>1. /\ queue # <<>> /\ subBuf' = Head(queue) /\ queue' = Tail(queue) /\ age' = "fresh"
          /\ UNCHANGED <<kind, capture, sender, wd, raced, offered, rx, rxStarts, decoder>>
      BY <2>12 DEF Receive
    <3>2. Head(queue) \in Frame /\ Tail(queue) \in Seq(Frame) /\ Len(Tail(queue)) <= Depth
      <4>1. queue \in Seq(Frame) /\ queue # <<>> /\ Len(queue) <= Depth
        BY <3>1
      <4>2. QED  BY <4>1, TakeProperties
    <3>3. QED  BY <3>1, <3>2
  <2>13. CASE SecondOfSilence
    BY <2>13 DEF SecondOfSilence
  <2>14. CASE WatchdogLook
    BY <2>14 DEF WatchdogLook
  <2>15. CASE WatchdogClear
    BY <2>15 DEF WatchdogClear
  <2>16. CASE OpenSubscriber
    BY <2>16 DEF OpenSubscriber
  <2>17. CASE StartDecoder
    BY <2>17 DEF StartDecoder
  <2>18. CASE StopDecoder
    BY <2>18 DEF StopDecoder
  <2>19. CASE CloseSubscriber
    BY <2>19 DEF CloseSubscriber
  <2>20. CASE DecoderPoll
    BY <2>20 DEF DecoderPoll, IsNew
  <2>21. CASE DecoderExit
    BY <2>21 DEF DecoderExit
  <2>22. CASE Decode
    BY <2>22 DEF Decode
  <2>23. CASE DecodeNothing
    BY <2>23 DEF DecodeNothing
  <2>24. CASE UNCHANGED vars
    BY <2>24 DEF vars
  <2>25. CASE CountPublished
    BY <2>25 DEF CountPublished
  <2>26. QED
    BY <2>25, <2>1, <2>2, <2>3, <2>4, <2>5, <2>6, <2>7, <2>8, <2>9, <2>10, <2>11, <2>12,
       <2>13, <2>14, <2>15, <2>16, <2>17, <2>18, <2>19, <2>20, <2>21, <2>22, <2>23, <2>24
       DEF Next, Horizon
<1>3. QED  BY <1>1, <1>2, PTL DEF Spec

-----------------------------------------------------------------------------
\* The chain of stamps holds in every reachable state.
THEOREM ChainInvariant == Spec => [](TypeOK /\ Working /\ Chain)
<1>1. Init => Chain
  BY DEF Init, Chain, SenderChain, QueueChain, ReceiverChain, DecoderChain, Ceiling, NoData
<1>2. TypeOK /\ Working /\ TypeOK' /\ Chain /\ [Next]_vars => Chain'
  <2> SUFFICES ASSUME TypeOK, Working, TypeOK', Chain, [Next]_vars PROVE Chain'
    OBVIOUS
  <2>0. /\ captured \in Int /\ camBuf \in Int /\ encFrame \in Int /\ subBuf \in Int
        /\ decLast \in Int /\ decFrame \in Int /\ out \in Int /\ sessOut \in Int
        /\ subBuf >= 0 /\ camBuf >= 0 /\ decLast >= 0 /\ out >= 0 /\ sessOut >= 0
        /\ encFrame >= 0
        /\ queue \in Seq(Frame) /\ Len(queue) <= Depth /\ Len(queue) \in Nat
        /\ \A i \in 1..Len(queue) : queue[i] \in Int /\ queue[i] > 0
        /\ Ceiling \in Int
    BY StreamAssumption
    DEF StreamAssumption, TypeOK, Frame, FrameOrNone, NoData, Ceiling
  <2> USE DEF Chain, NoData, capture, sender, receiver, decoder
  <2>1. CASE CaptureFrame
    <3>1. /\ captured' = captured + 1 /\ camBuf' = captured + 1
          /\ UNCHANGED <<enc, encFrame, queue, subBuf, decoder>>
      BY <2>1 DEF CaptureFrame
    <3>2. Ceiling' \in Int /\ Ceiling <= Ceiling'
      BY <2>0, <3>1 DEF Ceiling, SenderChain
    <3>3. SenderChain'
      BY <2>0, <3>1 DEF SenderChain, Ceiling
    <3>4. QueueChain'
      <4>1. \A i \in 1..Len(queue) : queue[i] <= Ceiling'
        BY <2>0, <3>2 DEF QueueChain
      <4>2. QED  BY <3>1, <4>1 DEF QueueChain
    <3>5. ReceiverChain'
      BY <2>0, <3>1, <3>2 DEF ReceiverChain
    <3>6. DecoderChain'
      BY <3>1 DEF DecoderChain
    <3>7. QED  BY <3>3, <3>4, <3>5, <3>6
  <2>2. CASE EncoderPoll
    <3>1. /\ enc = "poll" /\ enc' = "work" /\ encFrame' = camBuf /\ camBuf # 0
          /\ UNCHANGED <<captured, camBuf, queue, subBuf, decoder>>
      BY <2>2 DEF EncoderPoll, IsNew
    <3>2. Ceiling' = Ceiling
      BY <3>1 DEF Ceiling
    <3>3. QED
      BY <2>0, <3>1, <3>2
      DEF SenderChain, QueueChain, ReceiverChain, DecoderChain, Ceiling
  <2>3. CASE EncodePublish
    <3>1. /\ enc = "work" /\ enc' = "sent" /\ Ceiling = encFrame /\ Ceiling' = camBuf
          /\ Ceiling <= Ceiling' /\ encFrame \in Frame
          /\ UNCHANGED <<captured, camBuf, encFrame, subBuf, decoder>>
      BY <2>3 DEF EncodePublish, Ceiling, SenderChain, Working
    <3>2. SenderChain' /\ ReceiverChain' /\ DecoderChain'
      BY <2>0, <3>1 DEF SenderChain, ReceiverChain, DecoderChain
    <3>3. QueueChain'
      <4>1. CASE ReaderOpen
        <5>1. queue' = Offer(queue, Depth, encFrame)
          BY <2>3, <4>1 DEF EncodePublish
        <5>2. PICK d \in {0, 1} :
                /\ Len(queue') = Len(queue) + 1 - d
                /\ \A i \in 1..(Len(queue) + 1 - d) :
                      queue'[i] = IF i + d <= Len(queue) THEN queue[i + d] ELSE encFrame
          <6>1. Depth \in Nat \ {0}
            BY StreamAssumption DEF StreamAssumption
          <6>2. queue \in Seq(Frame) /\ Len(queue) <= Depth /\ encFrame \in Frame
            BY <2>0, <3>1
          <6>3. \E d \in {0, 1} :
                  /\ Len(Offer(queue, Depth, encFrame)) = Len(queue) + 1 - d
                  /\ \A i \in 1..(Len(queue) + 1 - d) :
                        Offer(queue, Depth, encFrame)[i] =
                            IF i + d <= Len(queue) THEN queue[i + d] ELSE encFrame
            BY <6>1, <6>2, OfferProperties
          <6>4. QED  BY <5>1, <6>3
        <5>3. \A i \in 1..Len(queue') :
                /\ i + d \in 1..Len(queue) => queue'[i] = queue[i + d]
                /\ i + d \notin 1..Len(queue) => queue'[i] = encFrame /\ i = Len(queue')
          BY <2>0, <5>2
        <5>4. \A i \in 1..Len(queue') :
                /\ queue'[i] <= Ceiling /\ subBuf <= queue'[i]
                /\ out <= queue'[i] /\ decLast <= queue'[i] /\ queue'[i] \in Int
          <6> TAKE i \in 1..Len(queue')
          <6>1. CASE i + d \in 1..Len(queue)
            BY <2>0, <5>3, <6>1 DEF QueueChain
          <6>2. CASE i + d \notin 1..Len(queue)
            BY <2>0, <3>1, <5>3, <6>2 DEF ReceiverChain
          <6>3. QED  BY <6>1, <6>2
        <5>5. \A i, j \in 1..Len(queue') : i < j => queue'[i] <= queue'[j]
          <6> TAKE i, j \in 1..Len(queue')
          <6> HAVE i < j
          <6>1. i + d \in 1..Len(queue) /\ i + d < j + d /\ queue'[i] = queue[i + d]
            BY <2>0, <5>2, <5>3
          <6>2. CASE j + d \in 1..Len(queue)
            BY <5>3, <6>1, <6>2 DEF QueueChain
          <6>3. CASE j + d \notin 1..Len(queue)
            BY <3>1, <5>3, <5>4, <6>3
          <6>4. QED  BY <6>2, <6>3
        <5>6. \A i \in 1..Len(queue') : queue'[i] <= Ceiling'
          BY <2>0, <3>1, <5>4
        <5>7. QED  BY <3>1, <5>4, <5>5, <5>6 DEF QueueChain
      <4>2. CASE ~ReaderOpen
        <5>1. UNCHANGED queue
          BY <2>3, <4>2 DEF EncodePublish
        <5>2. \A i \in 1..Len(queue) : queue[i] <= Ceiling'
          BY <2>0, <3>1 DEF QueueChain
        <5>3. QED  BY <3>1, <5>1, <5>2 DEF QueueChain
      <4>3. QED  BY <4>1, <4>2
    <3>4. QED  BY <3>2, <3>3
  <2>4. CASE EncodeNothing
    <3>1. /\ enc = "work" /\ enc' = "poll" /\ Ceiling = encFrame /\ Ceiling' = camBuf
          /\ Ceiling <= Ceiling'
          /\ UNCHANGED <<captured, camBuf, encFrame, queue, subBuf, decoder>>
      BY <2>4 DEF EncodeNothing, Ceiling, SenderChain
    <3>2. \A i \in 1..Len(queue) : queue[i] <= Ceiling'
      BY <2>0, <3>1 DEF QueueChain
    <3>3. SenderChain' /\ ReceiverChain' /\ DecoderChain'
      BY <2>0, <3>1 DEF SenderChain, ReceiverChain, DecoderChain
    <3>4. QED  BY <3>1, <3>2, <3>3 DEF QueueChain
  <2>5. CASE Receive
    <3>1. /\ queue # <<>> /\ subBuf' = Head(queue) /\ queue' = Tail(queue)
          /\ UNCHANGED <<captured, camBuf, enc, encFrame, decoder>>
      BY <2>5 DEF Receive
    <3>2. Ceiling' = Ceiling
      BY <3>1 DEF Ceiling
    <3>3. /\ 1 \in 1..Len(queue) /\ subBuf' = queue[1] /\ Len(queue') = Len(queue) - 1
          /\ \A i \in 1..Len(queue') : queue'[i] = queue[i + 1] /\ i + 1 \in 1..Len(queue)
      BY <2>0, <3>1, TakeProperties
    <3>4. SenderChain' /\ DecoderChain'
      BY <3>1, <3>2 DEF SenderChain, DecoderChain
    <3>5. ReceiverChain'
      BY <3>1, <3>2, <3>3 DEF QueueChain, ReceiverChain
    <3>6. QueueChain'
      <4>1. \A i \in 1..Len(queue') :
              /\ queue'[i] <= Ceiling /\ subBuf' <= queue'[i]
              /\ out <= queue'[i] /\ decLast <= queue'[i]
        <5> TAKE i \in 1..Len(queue')
        <5>1. queue'[i] = queue[i + 1] /\ i + 1 \in 1..Len(queue) /\ 1 < i + 1
          BY <2>0, <3>3
        <5>2. QED  BY <3>3, <5>1 DEF QueueChain
      <4>2. \A i, j \in 1..Len(queue') : i < j => queue'[i] <= queue'[j]
        <5> TAKE i, j \in 1..Len(queue')
        <5> HAVE i < j
        <5>1. i + 1 < j + 1
          BY <2>0, <3>3
        <5>2. QED  BY <3>3, <5>1 DEF QueueChain
      <4>3. QED  BY <3>1, <3>2, <4>1, <4>2 DEF QueueChain
    <3>7. QED  BY <3>4, <3>5, <3>6
  <2>6. CASE WatchdogClear
    <3>1. subBuf' = 0 /\ UNCHANGED <<captured, camBuf, enc, encFrame, queue, decoder>>
      BY <2>6 DEF WatchdogClear
    <3>2. Ceiling' = Ceiling /\ 0 <= Ceiling
      BY <2>0, <3>1 DEF Ceiling
    <3>3. \A i \in 1..Len(queue) : 0 <= queue[i]
      BY <2>0
    <3>4. QED
      BY <3>1, <3>2, <3>3
      DEF SenderChain, QueueChain, ReceiverChain, DecoderChain
  <2>7. CASE StartDecoder
    <3>1. /\ decLast' = 0 /\ sessOut' = 0 /\ dec' = "poll"
          /\ UNCHANGED <<captured, camBuf, enc, encFrame, queue, subBuf, out>>
      BY <2>7 DEF StartDecoder
    <3>2. Ceiling' = Ceiling /\ 0 <= Ceiling
      BY <2>0, <3>1 DEF Ceiling
    <3>3. \A i \in 1..Len(queue) : 0 <= queue[i]
      BY <2>0
    <3>4. QED
      BY <2>0, <3>1, <3>2, <3>3
      DEF SenderChain, QueueChain, ReceiverChain, DecoderChain
  <2>8. CASE CloseSubscriber
    <3>1. queue' = <<>> /\ UNCHANGED <<captured, camBuf, enc, encFrame, subBuf, decoder>>
      BY <2>8 DEF CloseSubscriber
    <3>2. Ceiling' = Ceiling
      BY <3>1 DEF Ceiling
    <3>3. QED
      BY <3>1, <3>2 DEF SenderChain, QueueChain, ReceiverChain, DecoderChain
  <2>9. CASE DecoderPoll
    <3>1. /\ subBuf # 0 /\ subBuf # decLast
          /\ decLast' = subBuf /\ decFrame' = subBuf /\ dec' = "work"
          /\ UNCHANGED <<captured, camBuf, enc, encFrame, queue, subBuf, out, sessOut>>
      BY <2>9 DEF DecoderPoll, IsNew
    <3>2. Ceiling' = Ceiling
      BY <3>1 DEF Ceiling
    <3>3. sessOut < subBuf /\ out <= subBuf
      BY <2>0, <3>1 DEF ReceiverChain, DecoderChain
    <3>4. QED
      BY <2>0, <3>1, <3>2, <3>3
      DEF SenderChain, QueueChain, ReceiverChain, DecoderChain
  <2>10. CASE Decode
    <3>1. /\ out' = decFrame /\ sessOut' = decFrame /\ dec = "work" /\ dec' = "poll"
          /\ UNCHANGED <<captured, camBuf, enc, encFrame, queue, subBuf, decLast, decFrame>>
      BY <2>10 DEF Decode
    <3>2. Ceiling' = Ceiling /\ decFrame = decLast
      BY <3>1 DEF Ceiling, DecoderChain
    <3>3. QED
      BY <2>0, <3>1, <3>2
      DEF SenderChain, QueueChain, ReceiverChain, DecoderChain
  <2>11. CASE UNCHANGED <<captured, camBuf, enc, encFrame, queue, subBuf, decLast,
                          decFrame, out, sessOut>> /\ (dec' = "work" => dec = "work")
    <3>1. Ceiling' = Ceiling
      BY <2>11 DEF Ceiling
    <3>2. QED
      BY <2>11, <3>1 DEF SenderChain, QueueChain, ReceiverChain, DecoderChain
  <2>12. CASE StartPublisher \/ EncoderExit \/ CountPublished
    <3>1. /\ enc # "work" /\ enc' # "work"
          /\ UNCHANGED <<captured, camBuf, encFrame, queue, subBuf, decoder>>
      BY <2>12 DEF StartPublisher, EncoderExit, CountPublished, Working
    <3>2. Ceiling' = Ceiling
      BY <3>1 DEF Ceiling
    <3>3. QED
      BY <3>1, <3>2 DEF SenderChain, QueueChain, ReceiverChain, DecoderChain
  <2>13. QED
    BY <2>1, <2>2, <2>3, <2>4, <2>5, <2>6, <2>7, <2>8, <2>9, <2>10, <2>11, <2>12
    DEF Next, Horizon, vars, CaptureDies, StartCapture, PublisherFails, StopPublisher,
        StopCapture, SecondOfSilence, WatchdogLook, OpenSubscriber, StopDecoder,
        DecoderExit, DecodeNothing
<1>3. QED  BY <1>1, <1>2, StreamTypeCorrect, PTL DEF Spec

-----------------------------------------------------------------------------
\* The consumer of the decoded buffer sees what LatestWins promises.
THEOREM StreamImplementsLatestWins == Spec => ImplementsLatestWins
<1>1. Init => LW!Init
  BY DEF Init, LW!Init, NoData
<1>2. TypeOK /\ TypeOK' /\ Chain /\ [Next]_vars => [LW!Next]_LW!vars
  <2> SUFFICES ASSUME TypeOK, TypeOK', Chain, [Next]_vars PROVE [LW!Next]_LW!vars
    OBVIOUS
  <2>0. captured \in Int /\ out \in Int /\ out' \in Int
    BY StreamAssumption DEF StreamAssumption, TypeOK, Frame, FrameOrNone, NoData
  <2>1. CASE CaptureFrame
    <3>1. captured' = captured + 1 /\ UNCHANGED out
      BY <2>1 DEF CaptureFrame, decoder
    <3>2. QED  BY <3>1 DEF LW!Next, LW!Make
  <2>2. CASE Decode
    <3>1. out' = decFrame /\ UNCHANGED captured
      BY <2>2 DEF Decode, capture
    <3>2. out <= decFrame /\ decFrame <= Ceiling /\ Ceiling <= camBuf /\ camBuf <= captured
      BY <2>2 DEF Decode, Chain, DecoderChain, ReceiverChain, SenderChain
    <3>3. out' \in (out + 1)..captured \/ out' = out
      BY <2>0, <3>1, <3>2, StreamAssumption
      DEF StreamAssumption, TypeOK, Frame, FrameOrNone, NoData, Ceiling
    <3>4. CASE out' = out
      BY <3>1, <3>4 DEF LW!vars
    <3>5. CASE out' \in (out + 1)..captured
      BY <3>1, <3>5 DEF LW!Next, LW!Show
    <3>6. QED  BY <3>3, <3>4, <3>5
  <2>3. CASE UNCHANGED <<captured, out>>
    BY <2>3 DEF LW!vars
  <2>4. QED
    BY <2>1, <2>2, <2>3
    DEF Next, Horizon, vars, capture, decoder, CaptureDies, StartCapture, StartPublisher,
        PublisherFails, StopPublisher, StopCapture, EncoderPoll, EncoderExit,
        EncodePublish, CountPublished, EncodeNothing, Receive, SecondOfSilence, WatchdogLook,
        WatchdogClear, OpenSubscriber, StartDecoder, StopDecoder, CloseSubscriber,
        DecoderPoll, DecoderExit, DecodeNothing
<1>3. QED
  BY <1>1, <1>2, ChainInvariant, PTL DEF Spec, ImplementsLatestWins, LW!Spec

\* A session of the receiver decodes a frame at most once, in stamp order.
THEOREM StreamDecodesOnce == Spec => DecodedOncePerSession
<1>1. TypeOK /\ Chain /\ [Next]_vars => [decoded' # decoded => out' > sessOut]_vars
  <2> SUFFICES ASSUME TypeOK, Chain, Next, decoded' # decoded PROVE out' > sessOut
    BY DEF vars, decoder
  <2>1. CASE Decode
    <3>1. out' = decFrame /\ sessOut < decFrame
      BY <2>1 DEF Decode, Chain, DecoderChain
    <3>2. sessOut \in Int /\ decFrame \in Int
      BY StreamAssumption DEF StreamAssumption, TypeOK, Frame, FrameOrNone, NoData
    <3>3. QED  BY <3>1, <3>2
  <2>2. CASE ~Decode
    <3>1. UNCHANGED decoded
      BY <2>2
      DEF Next, Horizon, vars, decoder, CaptureFrame, CaptureDies, StartCapture,
          StartPublisher, PublisherFails, StopPublisher, StopCapture, EncoderPoll,
          EncoderExit, EncodePublish, CountPublished, EncodeNothing, Receive, SecondOfSilence,
          WatchdogLook, WatchdogClear, OpenSubscriber, StartDecoder, StopDecoder,
          CloseSubscriber, DecoderPoll, DecoderExit, DecodeNothing
    <3>2. QED  BY <3>1
  <2>3. QED  BY <2>1, <2>2
<1>2. QED  BY <1>1, ChainInvariant, PTL DEF Spec, DecodedOncePerSession

-----------------------------------------------------------------------------
\* What can still be published was captured or is the replay of a restart;
\* what can still be decoded was published, counted or not, or is one.
One(b) == IF b THEN 1 ELSE 0

ToPublish ==
    IF tx = "capturing" THEN camBuf # NoData ELSE IsNew(camBuf, encLast)
ToDecode ==
    IF rx = "open" THEN subBuf # NoData ELSE IsNew(subBuf, decLast)

SenderBudget ==
    /\ published + One(enc \in {"work", "sent"}) + One(ToPublish)
          <= captured + Replays(txStarts)
    /\ txStarts = 0 => tx = "off" /\ cap = "off" /\ camBuf = NoData
ReceiverBudget ==
    /\ decoded + One(dec = "work") + One(ToDecode) + Len(queue)
          <= published + One(enc = "sent") + Replays(rxStarts)
    /\ rxStarts = 0 => rx = "off" /\ subBuf = NoData
    /\ dec # "off" => rx \in {"on", "stopping"}

\* The queue does not grow by more than the message that is offered.
LEMMA OfferAddsOne ==
    ASSUME TypeOK, NEW m \in Frame
    PROVE  Len(Offer(queue, Depth, m)) \in Nat /\ Len(Offer(queue, Depth, m)) <= Len(queue) + 1
<1>1. queue \in Seq(Frame) /\ Len(queue) \in Nat /\ Depth \in Nat \ {0} /\ Len(queue) <= Depth
  BY StreamAssumption DEF StreamAssumption, TypeOK
<1>2. Offer(queue, Depth, m) \in Seq(Frame)
  BY <1>1, OfferProperties
<1>3. PICK d \in {0, 1} : Len(Offer(queue, Depth, m)) = Len(queue) + 1 - d
  BY <1>1, OfferProperties
<1>4. QED  BY <1>1, <1>2, <1>3

\* published() and decoded() count frames, and at most one replay for each
\* start() after the first.
THEOREM StreamReplaysBounded == Spec => []ReplaysBounded
<1> DEFINE Inv == SenderBudget /\ ReceiverBudget
<1>1. Init => Inv
  BY DEF Init, SenderBudget, ReceiverBudget, ToPublish, ToDecode, One, Replays, IsNew, NoData
<1>2. TypeOK /\ Working /\ TypeOK' /\ Inv /\ [Next]_vars => Inv'
  <2> SUFFICES ASSUME TypeOK, Working, TypeOK', Inv, [Next]_vars PROVE Inv'
    OBVIOUS
  <2>1. /\ published \in Nat /\ decoded \in Nat /\ captured \in Int
        /\ txStarts \in Nat /\ rxStarts \in Nat
        /\ queue \in Seq(Frame) /\ Len(queue) \in Nat
        /\ camBuf \in Int /\ encLast \in Int /\ subBuf \in Int /\ decLast \in Int
        /\ tx \in {"off", "capturing"} => enc = "off"
    BY StreamAssumption DEF StreamAssumption, TypeOK, Working, Frame, FrameOrNone, NoData
  <2> USE <2>1 DEF SenderBudget, ReceiverBudget, ToPublish, ToDecode, One, Replays, IsNew, NoData,
                   capture, sender, receiver, decoder
  <2>2. CASE CaptureFrame
    BY <2>2 DEF CaptureFrame
  <2>3. CASE StartCapture
    BY <2>3 DEF StartCapture
  <2>4. CASE StartPublisher
    BY <2>4 DEF StartPublisher
  <2>5. CASE PublisherFails
    BY <2>5 DEF PublisherFails
  <2>6. CASE StopPublisher \/ StopCapture \/ CaptureDies
    BY <2>6 DEF StopPublisher, StopCapture, CaptureDies
  <2>7. CASE EncoderPoll
    BY <2>7 DEF EncoderPoll
  <2>8. CASE EncoderExit
    BY <2>8 DEF EncoderExit
  <2>9. CASE EncodeNothing
    BY <2>9 DEF EncodeNothing
  <2>10. CASE EncodePublish
    <3>1. Len(queue') \in Nat /\ Len(queue') <= Len(queue) + 1
      <4>1. CASE ReaderOpen
        <5>1. queue' = Offer(queue, Depth, encFrame) /\ encFrame \in Frame
          BY <2>10, <4>1 DEF EncodePublish, Working
        <5>2. QED  BY <5>1, OfferAddsOne
      <4>2. CASE ~ReaderOpen
        BY <2>10, <4>2 DEF EncodePublish
      <4>3. QED  BY <4>1, <4>2
    <3>2. /\ enc = "work" /\ enc' = "sent"
          /\ UNCHANGED <<capture, tx, encLast, published, txStarts, subBuf, rx, rxStarts, decoder>>
      BY <2>10 DEF EncodePublish
    <3>3. SenderBudget'
      BY <3>2
    <3>4. ReceiverBudget'
      BY <3>1, <3>2
    <3>5. QED  BY <3>3, <3>4
  <2>11. CASE Receive
    <3>1. /\ queue # <<>> /\ subBuf' = Head(queue) /\ queue' = Tail(queue) /\ rx # "off"
          /\ UNCHANGED <<capture, sender, rx, rxStarts, decoder>>
      BY <2>11 DEF Receive, ReaderOpen
    <3>2. Len(queue') = Len(queue) - 1
      BY <3>1, TakeProperties
    <3>3. SenderBudget'
      BY <3>1
    <3>4. ReceiverBudget'
      BY <3>1, <3>2
    <3>5. QED  BY <3>3, <3>4
  <2>12. CASE SecondOfSilence \/ WatchdogLook
    BY <2>12 DEF SecondOfSilence, WatchdogLook
  <2>13. CASE WatchdogClear
    BY <2>13 DEF WatchdogClear
  <2>14. CASE OpenSubscriber
    BY <2>14 DEF OpenSubscriber
  <2>15. CASE StartDecoder \/ StopDecoder
    BY <2>15 DEF StartDecoder, StopDecoder
  <2>16. CASE CloseSubscriber
    <3>1. queue' = <<>> /\ rx' = "off" /\ dec = "off"
          /\ UNCHANGED <<capture, sender, subBuf, rxStarts, decoder>>
      BY <2>16 DEF CloseSubscriber
    <3>2. Len(queue') = 0
      BY <3>1
    <3>3. SenderBudget'
      BY <3>1
    <3>4. ReceiverBudget'
      BY <3>1, <3>2
    <3>5. QED  BY <3>3, <3>4
  <2>17. CASE DecoderPoll
    BY <2>17 DEF DecoderPoll
  <2>18. CASE DecoderExit
    BY <2>18 DEF DecoderExit
  <2>19. CASE DecodeNothing
    BY <2>19 DEF DecodeNothing
  <2>20. CASE Decode
    BY <2>20 DEF Decode
  <2>21. CASE Horizon \/ UNCHANGED vars
    BY <2>21 DEF Horizon, vars
  <2>22. CASE CountPublished
    BY <2>22 DEF CountPublished
  <2>23. QED
    BY <2>22, <2>2, <2>3, <2>4, <2>6, <2>7, <2>8, <2>10, <2>11, <2>12, <2>13, <2>14, <2>15, <2>16, <2>17,
       <2>18, <2>20, <2>21, <2>5, <2>9, <2>19 DEF Next
<1>3. TypeOK /\ Inv => ReplaysBounded
  <2> SUFFICES ASSUME TypeOK, Inv PROVE ReplaysBounded
    OBVIOUS
  <2>1. /\ published \in Nat /\ decoded \in Nat /\ captured \in Int /\ Len(queue) \in Nat
        /\ txStarts \in Nat /\ rxStarts \in Nat
    BY StreamAssumption DEF StreamAssumption, TypeOK
  <2>2. Replays(txStarts) \in Int /\ Replays(rxStarts) \in Int
    BY <2>1 DEF Replays
  <2>3. /\ One(enc \in {"work", "sent"}) \in Nat /\ One(ToPublish) \in Nat
        /\ One(enc = "sent") = IF enc = "sent" THEN 1 ELSE 0
        /\ One(dec = "work") \in Nat /\ One(ToDecode) \in Nat
    BY DEF One
  <2>4. published <= captured + Replays(txStarts)
    BY <2>1, <2>2, <2>3 DEF SenderBudget
  <2>5. decoded <= published + (IF enc = "sent" THEN 1 ELSE 0) + Replays(rxStarts)
    BY <2>1, <2>2, <2>3 DEF ReceiverBudget
  <2>6. QED  BY <2>4, <2>5 DEF ReplaysBounded
<1>4. QED
  BY <1>1, <1>2, <1>3, StreamTypeCorrect, PTL DEF Spec
=============================================================================
