---------------------------- MODULE CameraStream ----------------------------
(***************************************************************************)
(* One stream of one camera from the device to a consumer, across the two   *)
(* processes:                                                               *)
(*                                                                         *)
(*   CameraCapture::run --camBuf--> {Color,Depth}Publisher::run --DDS-->     *)
(*   {Color,Depth}Subscriber --subBuf--> {Color,Depth}DecodeThread --> out   *)
(*                                                                         *)
(* with the owners' start() and stop() on both sides.  The color and the    *)
(* depth stream are the same program except that the H.264 encoder and      *)
(* decoder may yield nothing for a frame (nullopt) and RVL always yields.   *)
(*                                                                         *)
(* A frame is its stamp_ns; the camera's stamps are 1, 2, ... .  Buffers    *)
(* hold a stamp or NoData.  Here time is only "a second of silence has      *)
(* passed" (age); module Subscriber has the watchdog with its clock.      *)
(***************************************************************************)
EXTENDS DataBuffer, ReaderQueue

CONSTANTS Kinds,       \* streams considered: subset of {"color", "depth"}
          Depth,       \* KEEP_LAST depth of the reader
          MaxFrames,   \* bound: frames the camera delivers
          MaxTxStarts, \* bound: calls of RealsenseTransmitter::start
          MaxRxStarts  \* bound: calls of RealsenseReceiver::start

ASSUME StreamAssumption ==
    /\ Kinds \subseteq {"color", "depth"}
    /\ Depth \in Nat \ {0}
    /\ MaxFrames \in Nat /\ MaxTxStarts \in Nat /\ MaxRxStarts \in Nat

VARIABLES
    kind,      \* which of the two streams
    captured,  \* stamp of the camera's newest frame
    cap,       \* the capture thread
    camBuf,    \* CameraCapture::color_buf / depth_buf
    tx,        \* where the transmitter's owner is
    enc,       \* the encode-and-publish thread
    encLast,   \* its last_stamp
    encFrame,  \* the frame it works on
    published, \* its published_ counter
    txStarts,
    queue,     \* the subscriber's reader queue
    rx,        \* where the receiver's owner is
    subBuf,    \* the subscriber's buffer of compressed frames
    age,       \* "stale": more than stale_ms since the last SetData on subBuf
    wd,        \* the subscriber's watchdog thread
    dec,       \* the decode thread
    decLast,   \* its last_stamp
    decFrame,  \* the frame it works on
    out,       \* its buffer of decoded frames, what the consumer reads
    decoded,   \* its decoded_ counter
    rxStarts,
    offered,   \* history: last frame that reached this session's reader
    raced,     \* history: last frame the watchdog dropped before it was stale
    sessOut    \* history: last frame decoded since the decoder was started

capture == <<captured, cap, camBuf>>
sender == <<tx, enc, encLast, encFrame, published, txStarts>>
receiver == <<queue, subBuf, age, wd, raced, offered>>
decoder == <<dec, decLast, decFrame, out, decoded, sessOut>>
vars == <<kind, capture, sender, receiver, rx, rxStarts, decoder>>

Frame == 1..MaxFrames
FrameOrNone == Frame \cup {NoData}

Init ==
    /\ kind \in Kinds
    /\ captured = 0 /\ cap = "off" /\ camBuf = NoData
    /\ tx = "off" /\ enc = "off" /\ encLast = NoData /\ encFrame = NoData
    /\ published = 0 /\ txStarts = 0
    /\ queue = <<>> /\ rx = "off" /\ subBuf = NoData /\ age = "stale" /\ wd = "look"
    /\ dec = "off" /\ decLast = NoData /\ decFrame = NoData
    /\ out = NoData /\ decoded = 0 /\ rxStarts = 0
    /\ offered = NoData /\ raced = NoData /\ sessOut = NoData

-----------------------------------------------------------------------------
\* CameraCapture::run

\* A frameset arrived: SetData.
CaptureFrame ==
    /\ cap = "on"
    /\ captured < MaxFrames
    /\ captured' = captured + 1
    /\ camBuf' = captured + 1
    /\ UNCHANGED <<kind, cap, sender, receiver, rx, rxStarts, decoder>>

\* librealsense threw: the thread ends, nobody is told.
CaptureDies ==
    /\ cap = "on"
    /\ cap' = "dead"
    /\ UNCHANGED <<kind, captured, camBuf, sender, receiver, rx, rxStarts, decoder>>

-----------------------------------------------------------------------------
\* RealsenseTransmitter::start and stop

StartCapture ==
    /\ tx = "off"
    /\ txStarts < MaxTxStarts
    /\ txStarts' = txStarts + 1
    /\ tx' = "capturing"
    /\ cap' = "on"
    /\ UNCHANGED <<kind, captured, camBuf, enc, encLast, encFrame, published,
                   receiver, rx, rxStarts, decoder>>

\* The publisher's thread starts with last_stamp = -1.
StartPublisher ==
    /\ tx = "capturing"
    /\ tx' = "on"
    /\ enc' = "poll"
    /\ encLast' = NoData
    /\ UNCHANGED <<kind, capture, encFrame, published, txStarts, receiver, rx,
                   rxStarts, decoder>>

\* The DDS channel could not be opened: start() stops the capture again.
PublisherFails ==
    /\ tx = "capturing"
    /\ tx' = "off"
    /\ cap' = "off"
    /\ UNCHANGED <<kind, captured, camBuf, enc, encLast, encFrame, published, txStarts,
                   receiver, rx, rxStarts, decoder>>

\* running_ = false in the publisher, which is joined first.
StopPublisher ==
    /\ tx = "on"
    /\ tx' = "stopping"
    /\ UNCHANGED <<kind, capture, enc, encLast, encFrame, published, txStarts,
                   receiver, rx, rxStarts, decoder>>

StopCapture ==
    /\ tx = "stopping"
    /\ enc = "off"
    /\ tx' = "off"
    /\ cap' = "off"
    /\ UNCHANGED <<kind, captured, camBuf, enc, encLast, encFrame, published, txStarts,
                   receiver, rx, rxStarts, decoder>>

-----------------------------------------------------------------------------
\* ColorPublisher::run, DepthPublisher::run

\* Mutant: frames are not told apart by their stamp.
IsAny(frame, last) == frame # NoData

IsNew(frame, last) == frame # NoData /\ frame # last

EncoderPoll ==
    /\ enc = "poll"
    /\ tx # "stopping"
    /\ IsNew(camBuf, encLast)
    /\ encLast' = camBuf
    /\ encFrame' = camBuf
    /\ enc' = "work"
    /\ UNCHANGED <<kind, capture, tx, published, txStarts, receiver, rx, rxStarts, decoder>>

EncoderExit ==
    /\ enc = "poll"
    /\ tx = "stopping"
    /\ enc' = "off"
    /\ UNCHANGED <<kind, capture, tx, encLast, encFrame, published, txStarts,
                   receiver, rx, rxStarts, decoder>>

ReaderOpen == rx # "off"

\* Mutant: the channel keeps every frame.
EncodePublishKeepAll ==
    /\ enc = "work"
    /\ IF ReaderOpen
       THEN queue' = Append(queue, encFrame) /\ offered' = encFrame
       ELSE UNCHANGED <<queue, offered>>
    /\ enc' = "sent"
    /\ UNCHANGED <<kind, capture, tx, encLast, encFrame, published, txStarts,
                   subBuf, age, wd, raced, rx, rxStarts, decoder>>

\* encode() and Write(); the receiver may be done with the frame before ...
EncodePublish ==
    /\ enc = "work"
    /\ IF ReaderOpen
       THEN queue' = Offer(queue, Depth, encFrame) /\ offered' = encFrame
       ELSE UNCHANGED <<queue, offered>>
    /\ enc' = "sent"
    /\ UNCHANGED <<kind, capture, tx, encLast, encFrame, published, txStarts,
                   subBuf, age, wd, raced, rx, rxStarts, decoder>>

\* ... published_ counts it.
CountPublished ==
    /\ enc = "sent"
    /\ published' = published + 1
    /\ enc' = "poll"
    /\ UNCHANGED <<kind, capture, tx, encLast, encFrame, txStarts, receiver, rx, rxStarts,
                   decoder>>

\* x264 returned no frame: encode() is nullopt, and last_stamp has moved on.
EncodeNothing ==
    /\ enc = "work"
    /\ kind = "color"
    /\ enc' = "poll"
    /\ UNCHANGED <<kind, capture, tx, encLast, encFrame, published, txStarts,
                   receiver, rx, rxStarts, decoder>>

-----------------------------------------------------------------------------
\* ColorSubscriber, DepthSubscriber

\* Mutant: the newest message first.
ReceiveNewestFirst ==
    /\ ReaderOpen
    /\ queue # <<>>
    /\ subBuf' = queue[Len(queue)]
    /\ queue' = SubSeq(queue, 1, Len(queue) - 1)
    /\ age' = "fresh"
    /\ UNCHANGED <<kind, capture, sender, wd, raced, offered, rx, rxStarts, decoder>>

\* Mutant: SetData does not stamp the value.
ReceiveUnstamped ==
    /\ ReaderOpen
    /\ queue # <<>>
    /\ subBuf' = Head(queue)
    /\ queue' = Tail(queue)
    /\ UNCHANGED <<kind, capture, sender, age, wd, raced, offered, rx, rxStarts, decoder>>

\* The callback: SetData restarts the buffer's age.
Receive ==
    /\ ReaderOpen
    /\ queue # <<>>
    /\ subBuf' = Head(queue)
    /\ queue' = Tail(queue)
    /\ age' = "fresh"
    /\ UNCHANGED <<kind, capture, sender, wd, raced, offered, rx, rxStarts, decoder>>

\* A second without a message.  start(), the delivery thread and the decode
\* thread (which polls every 2 ms) do not take that long.
SecondOfSilence ==
    /\ age = "fresh"
    /\ queue = <<>>
    /\ rx # "open"
    /\ dec # "off" => dec = "poll" /\ ~IsNew(subBuf, decLast)
    /\ age' = "stale"
    /\ UNCHANGED <<kind, capture, sender, queue, subBuf, wd, raced, offered, rx,
                   rxStarts, decoder>>

\* Mutant: the comparison with stale_ms is the wrong way round.
WatchdogLookReversed ==
    /\ ReaderOpen
    /\ wd = "look"
    /\ subBuf # NoData /\ age = "fresh"
    /\ wd' = "clear"
    /\ UNCHANGED <<kind, capture, sender, queue, subBuf, age, raced, offered, rx,
                   rxStarts, decoder>>

\* The watchdog found the buffer stale ...
WatchdogLook ==
    /\ ReaderOpen
    /\ wd = "look"
    /\ subBuf # NoData /\ age = "stale"
    /\ wd' = "clear"
    /\ UNCHANGED <<kind, capture, sender, queue, subBuf, age, raced, offered, rx,
                   rxStarts, decoder>>

\* ... and clears it, whatever arrived since.
WatchdogClear ==
    /\ wd = "clear"
    /\ raced' = IF age = "stale" THEN raced ELSE subBuf
    /\ subBuf' = NoData
    /\ wd' = "look"
    /\ UNCHANGED <<kind, capture, sender, queue, age, offered, rx, rxStarts, decoder>>

-----------------------------------------------------------------------------
\* RealsenseReceiver::start and stop

OpenSubscriber ==
    /\ rx = "off"
    /\ rxStarts < MaxRxStarts
    /\ rxStarts' = rxStarts + 1
    /\ rx' = "open"
    /\ offered' = NoData
    /\ UNCHANGED <<kind, capture, sender, queue, subBuf, age, wd, raced, decoder>>

\* The decode thread starts with a new decoder and last_stamp = -1.
StartDecoder ==
    /\ rx = "open"
    /\ rx' = "on"
    /\ dec' = "poll"
    /\ decLast' = NoData
    /\ sessOut' = NoData
    /\ UNCHANGED <<kind, capture, sender, receiver, rxStarts, decFrame, out, decoded>>

\* The decode thread is joined before the subscriber is stopped.
StopDecoder ==
    /\ rx = "on"
    /\ rx' = "stopping"
    /\ UNCHANGED <<kind, capture, sender, receiver, rxStarts, decoder>>

\* The subscriber's stop(), from RealsenseReceiver::stop or, when the other
\* stream's subscriber did not start, from its start(): watchdog joined,
\* reader destroyed with what it had queued.  No buffer is cleared.
CloseSubscriber ==
    /\ rx = "open" \/ (rx = "stopping" /\ dec = "off")
    /\ wd = "look"
    /\ rx' = "off"
    /\ queue' = <<>>
    /\ UNCHANGED <<kind, capture, sender, subBuf, age, wd, raced, offered,
                   rxStarts, decoder>>

-----------------------------------------------------------------------------
\* ColorDecodeThread::run, DepthDecodeThread::run

\* Mutant: last_stamp is never assigned.
DecoderPollForgets ==
    /\ dec = "poll"
    /\ rx # "stopping"
    /\ IsNew(subBuf, decLast)
    /\ decFrame' = subBuf
    /\ dec' = "work"
    /\ UNCHANGED <<kind, capture, sender, receiver, rx, rxStarts, decLast, out, decoded,
                   sessOut>>

DecoderPoll ==
    /\ dec = "poll"
    /\ rx # "stopping"
    /\ IsNew(subBuf, decLast)
    /\ decLast' = subBuf
    /\ decFrame' = subBuf
    /\ dec' = "work"
    /\ UNCHANGED <<kind, capture, sender, receiver, rx, rxStarts, out, decoded, sessOut>>

DecoderExit ==
    /\ dec = "poll"
    /\ rx = "stopping"
    /\ dec' = "off"
    /\ UNCHANGED <<kind, capture, sender, receiver, rx, rxStarts, decLast, decFrame,
                   out, decoded, sessOut>>

\* (decoded_ is counted just after SetData, which makes it at most smaller.)
Decode ==
    /\ dec = "work"
    /\ out' = decFrame
    /\ decoded' = decoded + 1
    /\ sessOut' = decFrame
    /\ dec' = "poll"
    /\ UNCHANGED <<kind, capture, sender, receiver, rx, rxStarts, decLast, decFrame>>

\* No picture: the decoder has no keyframe yet, or rejects the packet.
DecodeNothing ==
    /\ dec = "work"
    /\ kind = "color"
    /\ dec' = "poll"
    /\ UNCHANGED <<kind, capture, sender, receiver, rx, rxStarts, decLast, decFrame,
                   out, decoded, sessOut>>

-----------------------------------------------------------------------------
\* Both owners have stopped and no start() is left.
Horizon ==
    /\ tx = "off" /\ txStarts = MaxTxStarts
    /\ rx = "off" /\ rxStarts = MaxRxStarts
    /\ UNCHANGED vars

Next ==
    \/ CaptureFrame \/ CaptureDies
    \/ StartCapture \/ StartPublisher \/ PublisherFails \/ StopPublisher \/ StopCapture
    \/ EncoderPoll \/ EncoderExit \/ EncodePublish \/ CountPublished \/ EncodeNothing
    \/ Receive \/ SecondOfSilence \/ WatchdogLook \/ WatchdogClear
    \/ OpenSubscriber \/ StartDecoder \/ StopDecoder \/ CloseSubscriber
    \/ DecoderPoll \/ DecoderExit \/ Decode \/ DecodeNothing
    \/ Horizon

Spec == Init /\ [][Next]_vars

\* Every thread is scheduled again and again, and a silence lasts a second.
\* Nothing is assumed of the camera, of the owners or of the H.264 library.
Fairness ==
    /\ WF_vars(EncoderPoll) /\ WF_vars(EncoderExit) /\ WF_vars(EncodePublish \/ EncodeNothing)
    /\ WF_vars(CountPublished)
    /\ WF_vars(Receive) /\ WF_vars(SecondOfSilence)
    /\ WF_vars(WatchdogLook) /\ WF_vars(WatchdogClear)
    /\ WF_vars(DecoderPoll) /\ WF_vars(DecoderExit) /\ WF_vars(Decode \/ DecodeNothing)

FairSpec == Spec /\ Fairness

-----------------------------------------------------------------------------
\* Properties.

TypeOK ==
    /\ kind \in Kinds
    /\ captured \in 0..MaxFrames /\ camBuf \in FrameOrNone
    /\ cap \in {"off", "on", "dead"}
    /\ tx \in {"off", "capturing", "on", "stopping"}
    /\ enc \in {"off", "poll", "work", "sent"} /\ dec \in {"off", "poll", "work"}
    /\ encLast \in FrameOrNone /\ encFrame \in FrameOrNone /\ subBuf \in FrameOrNone
    /\ decLast \in FrameOrNone /\ decFrame \in FrameOrNone /\ out \in FrameOrNone
    /\ offered \in FrameOrNone /\ raced \in FrameOrNone /\ sessOut \in FrameOrNone
    /\ published \in Nat /\ decoded \in Nat
    /\ txStarts \in 0..MaxTxStarts /\ rxStarts \in 0..MaxRxStarts
    /\ queue \in Seq(Frame) /\ Len(queue) <= Depth
    /\ rx \in {"off", "open", "on", "stopping"}
    /\ age \in {"fresh", "stale"}
    /\ wd \in {"look", "clear"}

\* The consumer sees captured frames and never goes back in time, whatever is
\* overwritten, overflows, is cleared or restarted on the way.
LW == INSTANCE LatestWins WITH made <- captured, shown <- out
ImplementsLatestWins == LW!Spec

\* Within one session of the receiver a frame is decoded at most once, even
\* when the watchdog empties the buffer in between and a restarted
\* transmitter publishes the frame again (stamp_ns against last_stamp).
DecodedOncePerSession == [][decoded' # decoded => out' > sessOut]_vars

\* published() and decoded() count frames: a start() after the first replays
\* at most the one frame its source buffer kept.  (published_ is behind by the
\* frame that was just sent and is not counted yet.)
Replays(starts) == IF starts = 0 THEN 0 ELSE starts - 1
ReplaysBounded ==
    /\ published <= captured + Replays(txStarts)
    /\ decoded <= published + (IF enc = "sent" THEN 1 ELSE 0) + Replays(rxStarts)

\* The last depth frame that reaches the reader ends up in front of the
\* consumer, unless the watchdog's check-then-clear race took it.
LatestArrives ==
    <>[](rx = "on") =>
        <>[]((kind = "depth" /\ offered # NoData) => (out = offered \/ raced = offered))

\* When the stream has gone silent the subscriber's buffer is empty for good.
SubscriberGoesEmpty == <>[](rx = "on") => <>[](subBuf = NoData)

\* What realsense_receiver.hpp:21-24 says of color() and depth(): an empty
\* buffer means there is no live frame (1 s watchdog on the subscribers), so
\* once a stream is silent for good they are empty.
DecodedGoesEmpty == <>[](rx = "on" /\ subBuf = NoData) => <>[](out = NoData)
=============================================================================
