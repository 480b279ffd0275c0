------------------------------ MODULE ColorGop ------------------------------
(***************************************************************************)
(* The color stream of CameraStream with what H.264 adds to it: a key frame *)
(* stands for itself, every other frame is a difference to the frame that   *)
(* was encoded before it.  Each step is a step of CameraStream; here it     *)
(* also says which packet is where, and what the decoder can make of it.    *)
(*                                                                         *)
(* A packet is its number, counted over all that were published.  x264 and  *)
(* libavcodec are not in the repository: an encoder begins with a key frame *)
(* and repeats it every KeyInterval frames (the parameters of open()), a    *)
(* decoder makes nothing of what precedes its first key frame and a damaged *)
(* picture, or nothing, of a difference to a picture it does not have.      *)
(***************************************************************************)
EXTENDS CameraStream

CONSTANT KeyInterval \* keyframe_interval

ASSUME GopAssumption == Kinds = {"color"} /\ KeyInterval \in Nat \ {0}

VARIABLES
    inGop,     \* frames encoded since the encoder was made
    keys,      \* keys[n]: packet n is a key frame
    subPacket, \* the packet in the subscriber's buffer
    decPacket, \* the packet the decode thread has taken last
    reference, \* the packet whose picture, undamaged, the decoder has
    joined,    \* whether the decoder has had a key frame
    shown,     \* the packet of the picture in out
    picture,   \* that picture: "none", "clean" or "damaged"
    lost       \* history: packets that this decoder will never take

encoding == <<inGop, keys>>
decoding == <<decPacket, reference, joined, shown, picture>>
gopVars == <<encoding, subPacket, decoding, lost>>

GopInit ==
    /\ Init
    /\ inGop = 0 /\ keys = <<>> /\ subPacket = 0 /\ lost = {}
    /\ decPacket = 0 /\ reference = 0 /\ joined = FALSE
    /\ shown = 0 /\ picture = "none"

-----------------------------------------------------------------------------
\* start() makes a new encoder.
NewEncoder ==
    /\ StartPublisher
    /\ inGop' = 0
    /\ UNCHANGED <<keys, subPacket, decoding, lost>>

\* Mutant: the encoder is left to its default, one key frame in 250.
KeyFrameOnce(n) == n = 0

IsKeyFrame(n) == n % KeyInterval = 0

\* The reader's queue holds the packets published last.
HeadPacket == Len(keys) - Len(queue) + 1

\* encode() and Write(); a full queue drops its oldest packet.
PublishPacket ==
    /\ EncodePublish
    /\ keys' = Append(keys, IsKeyFrame(inGop))
    /\ inGop' = inGop + 1
    /\ lost' = IF Len(queue) = Depth THEN lost \cup {HeadPacket} ELSE lost
    /\ UNCHANGED <<subPacket, decoding>>

\* The decode thread has not taken what the buffer holds; it never will take
\* a packet with the stamp it took last.
Untaken == subBuf # NoData /\ subPacket # decPacket

ReceivePacket ==
    /\ Receive
    /\ subPacket' = HeadPacket
    /\ lost' = IF Untaken THEN lost \cup {subPacket} ELSE lost
    /\ UNCHANGED <<encoding, decoding>>

ClearPacket ==
    /\ WatchdogClear
    /\ lost' = IF Untaken THEN lost \cup {subPacket} ELSE lost
    /\ UNCHANGED <<encoding, subPacket, decoding>>

\* start() makes a new decoder, which begins with what the buffer holds.
NewDecoder ==
    /\ StartDecoder
    /\ decPacket' = 0 /\ reference' = 0 /\ joined' = FALSE
    /\ lost' = 1..(HeadPacket - 1) \ (IF subBuf # NoData THEN {subPacket} ELSE {})
    /\ UNCHANGED <<encoding, subPacket, shown, picture>>

TakePacket ==
    /\ DecoderPoll
    /\ decPacket' = subPacket
    /\ UNCHANGED <<encoding, subPacket, reference, joined, shown, picture, lost>>

-----------------------------------------------------------------------------
\* H264ColorDecoder::decode

Decodable == keys[decPacket] \/ (reference # 0 /\ reference = decPacket - 1)

DecodeClean ==
    /\ Decode
    /\ Decodable
    /\ reference' = decPacket /\ joined' = TRUE
    /\ shown' = decPacket /\ picture' = "clean"
    /\ UNCHANGED <<encoding, subPacket, decPacket, lost>>

DecodeDamaged ==
    /\ Decode
    /\ ~Decodable /\ joined
    /\ reference' = 0
    /\ shown' = decPacket /\ picture' = "damaged"
    /\ UNCHANGED <<encoding, subPacket, decPacket, joined, lost>>

DecodeRejected ==
    /\ DecodeNothing
    /\ ~Decodable
    /\ reference' = 0
    /\ UNCHANGED <<encoding, subPacket, decPacket, joined, shown, picture, lost>>

GopNext ==
    \/ NewEncoder \/ PublishPacket \/ ReceivePacket \/ ClearPacket
    \/ NewDecoder \/ TakePacket \/ DecodeClean \/ DecodeDamaged \/ DecodeRejected
    \/ /\ \/ CaptureFrame \/ CaptureDies
          \/ StartCapture \/ PublisherFails \/ StopPublisher \/ StopCapture
          \/ EncoderPoll \/ EncoderExit \/ CountPublished \/ EncodeNothing
          \/ SecondOfSilence \/ WatchdogLook
          \/ OpenSubscriber \/ StopDecoder \/ CloseSubscriber \/ DecoderExit
          \/ Horizon
       /\ UNCHANGED gopVars

GopSpec == GopInit /\ [][GopNext]_<<vars, gopVars>>

-----------------------------------------------------------------------------
\* Properties.

\* The type of the variables added here, in states of CameraStream.
GopTypeOK ==
    /\ TypeOK
    /\ inGop \in Nat /\ keys \in Seq(BOOLEAN)
    /\ subPacket \in 0..Len(keys) /\ decPacket \in 0..Len(keys)
    /\ reference \in 0..decPacket /\ joined \in BOOLEAN
    /\ shown \in 0..Len(keys) /\ picture \in {"none", "clean", "damaged"}
    /\ lost \subseteq 1..Len(keys)

\* A damaged picture has a cause, and a recent one: fewer than KeyInterval
\* packets before it one was lost, in the reader's queue, before the decoder
\* was there, or in the subscriber's buffer, where it was replaced or cleared
\* before the decode thread took it.  (One way is the key frame of a restarted
\* transmitter, whose first frame has the stamp that was decoded last.)
\* Nothing else damages the stream, neither frames skipped in front of the
\* encoder nor clears and restarts, and no damage outlives its GOP.
DamageIsRecent ==
    picture = "damaged" => \E n \in lost : shown - KeyInterval < n /\ n < shown
=============================================================================
