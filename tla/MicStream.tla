------------------------------ MODULE MicStream ------------------------------
(***************************************************************************)
(* The microphone end to end: MicCapture's chunks with their sequence       *)
(* numbers, the queue of AudioSubscriber's reader, and the hook that hears   *)
(* them.  Each step is a step of MicCapture or of the receiving side.        *)
(*                                                                         *)
(* A message is a chunk and its number; session and overruns are a history  *)
(* of when it was written, which the receiver does not see.                 *)
(***************************************************************************)
EXTENDS MicCapture, ReaderQueue

CONSTANT Depth \* of the reader's queue: 30

ASSUME MicStreamAssumption == Depth \in Nat \ {0}

VARIABLES
    seq,   \* of run(): the number of the next chunk
    open,  \* whether the subscriber's reader exists
    queue, \* messages that the reader holds
    heard  \* history: the messages that the hook saw last, at most two, since
           \* the subscriber was started

receiver == <<open, queue, heard>>
streamVars == <<vars, seq, receiver>>

Message == [seq : Nat, data : Seq(Frame), session : 1..MaxStarts, overruns : Nat]

StreamInit == Init /\ seq = 0 /\ open = FALSE /\ queue = <<>> /\ heard = <<>>

-----------------------------------------------------------------------------
\* run() begins: seq is a local of it.
NewSession == Start /\ seq' = 0 /\ UNCHANGED receiver

\* The message on its way: a reader that does not exist misses it.
Send ==
    /\ queue' = IF open
                THEN Offer(queue, Depth, [seq |-> seq, data |-> chunk,
                                          session |-> starts, overruns |-> overruns])
                ELSE queue
    /\ UNCHANGED <<open, heard>>

\* Mutant: seq is declared inside the loop.
PublishChunkFromZero == Write /\ Send /\ seq' = 0

PublishChunk == Write /\ Send /\ seq' = seq + 1

\* on_audio_update, up to the hook (its buffer and watchdog are Subscriber's).
Hear ==
    /\ queue # <<>>
    /\ heard' = (IF heard = <<>> THEN <<>> ELSE <<Last(heard)>>) \o <<Head(queue)>>
    /\ queue' = Tail(queue)
    /\ UNCHANGED <<vars, seq, open>>

OpenSubscriber ==
    /\ ~open
    /\ open' = TRUE /\ heard' = <<>>
    /\ UNCHANGED <<vars, seq, queue>>

CloseSubscriber ==
    /\ open
    /\ open' = FALSE /\ queue' = <<>>
    /\ UNCHANGED <<vars, seq, heard>>

StreamNext ==
    \/ NewSession \/ PublishChunk
    \/ Hear \/ OpenSubscriber \/ CloseSubscriber
    \/ /\ \/ Record
          \/ CallRead \/ Read \/ Overrun \/ ReadError
          \/ CallWrite \/ ThreadExits
          \/ Stop \/ Stopped
          \/ Horizon
       /\ UNCHANGED <<seq, receiver>>

\* As in MicCapture; of the receiving side nothing is assumed.
StreamSpec == StreamInit /\ [][StreamNext]_streamVars /\ Fairness

-----------------------------------------------------------------------------
\* Properties.

\* The type of the variables added here, in states of MicCapture.
StreamTypeOK ==
    /\ TypeOK
    /\ seq \in 0..MaxFrames /\ open \in BOOLEAN
    /\ queue \in Seq(Message) /\ Len(queue) <= Depth /\ (~open => queue = <<>>)
    /\ heard \in Seq(Message) /\ Len(heard) <= 2

\* audio_chunk.hpp:27: the sequence number is for gap detection.  Between two
\* chunks of a session that a consumer hears one after the other, at least
\* the chunks whose numbers are skipped are missing, and exactly those, to
\* the frame, when no overrun was counted between them: however reads, queue
\* and overflow cut the audio, the numbers tell what was lost on the way.
\* From one session to the next nothing is heard again.
GapsAreNumbered ==
    Len(heard) = 2 =>
        LET before == heard[1]
            now == heard[2]
            missing == Head(now.data) - Last(before.data) - 1
            skipped == (now.seq - before.seq - 1) * ChunkFrames
        IN  IF now.session > before.session THEN missing >= 0
            ELSE /\ now.seq > before.seq
                 /\ missing >= skipped
                 /\ now.overruns = before.overruns => missing = skipped
=============================================================================
