----------------------------- MODULE MicCapture -----------------------------
(***************************************************************************)
(* AudioPublisher: the capture-and-publish thread over an ALSA PCM, with    *)
(* short reads, overruns and read errors, and start() and stop().           *)
(*                                                                         *)
(* The microphone's frames (one sample per channel) are numbered 1, 2, ...  *)
(* as time passes, whether anybody records them or not.  ALSA is not in the *)
(* repository: the PCM is a ring that loses everything when it overflows    *)
(* and waits for snd_pcm_prepare, as run() expects.                         *)
(***************************************************************************)
EXTENDS Integers, SequencesExt

CONSTANTS ChunkFrames, \* chunk_frames: sample_rate * chunk_ms / 1000
          RingFrames,  \* size of the PCM's ring
          MaxFrames,   \* bound: frames the microphone produces
          MaxStarts    \* bound: calls of start() that succeed

ASSUME MicAssumption ==
    /\ ChunkFrames \in Nat \ {0} /\ RingFrames \in Nat \ {0}
    /\ MaxFrames \in Nat /\ MaxStarts \in Nat

VARIABLES
    made,      \* number of frames the microphone has produced
    pcm,       \* "closed", "prepared", "running", "xrun"
    ring,      \* frames recorded and not read
    run,       \* "off", "on", "stopping": running_ is run = "on"
    starts,
    thread,    \* "off", "next" (inner loop's condition), "read" (in
               \* snd_pcm_readi), "full" (chunk complete), "write", "ended"
    chunk,     \* what of msg.data has been filled: its first got frames
    published, \* published_
    overruns,  \* overruns_
    topic,     \* history: the chunk written last
    lastRead,  \* history: last frame read in this session, 0 before the first
    gaps       \* history: discontinuities in what was read within a session

device == <<made, pcm, ring>>
owner == <<run, starts>>
counters == <<published, overruns, topic, lastRead, gaps>>
vars == <<device, owner, thread, chunk, counters>>

Frame == 1..MaxFrames

Init ==
    /\ made = 0 /\ pcm = "closed" /\ ring = <<>>
    /\ run = "off" /\ starts = 0
    /\ thread = "off" /\ chunk = <<>>
    /\ published = 0 /\ overruns = 0 /\ topic = <<>>
    /\ lastRead = 0 /\ gaps = 0

-----------------------------------------------------------------------------
\* The microphone and the PCM's ring.

Record ==
    /\ made < MaxFrames
    /\ made' = made + 1
    /\ IF pcm # "running" THEN UNCHANGED <<pcm, ring>>
       ELSE IF Len(ring) < RingFrames
       THEN ring' = Append(ring, made + 1) /\ UNCHANGED pcm
       ELSE pcm' = "xrun" /\ UNCHANGED ring
    /\ UNCHANGED <<owner, thread, chunk, counters>>

-----------------------------------------------------------------------------
\* AudioPublisher::run

Wanted == ChunkFrames - Len(chunk)

\* The chunk is incomplete and running_ set: snd_pcm_readi is called.  The
\* first call after a prepare starts the PCM.
CallRead ==
    /\ thread = "next"
    /\ run = "on"
    /\ thread' = "read"
    /\ pcm' = IF pcm = "prepared" THEN "running" ELSE pcm
    /\ UNCHANGED <<made, ring, owner, chunk, counters>>

Fill(n) ==
    /\ chunk' = chunk \o SubSeq(ring, 1, n)
    /\ ring' = SubSeq(ring, n + 1, Len(ring))
    /\ thread' = IF Len(chunk') >= ChunkFrames THEN "full" ELSE "next"
    /\ gaps' = IF lastRead # 0 /\ Head(ring) # lastRead + 1 THEN gaps + 1 ELSE gaps
    /\ lastRead' = Last(chunk')

\* Mutant: snd_pcm_readi is asked for chunk_frames, not chunk_frames - got.
ReadWholeChunk ==
    /\ thread = "read"
    /\ pcm = "running" /\ ring # <<>>
    /\ \E n \in 1..Len(ring) : n <= ChunkFrames /\ Fill(n)
    /\ UNCHANGED <<made, pcm, owner, published, overruns, topic>>

\* snd_pcm_readi returns n frames, possibly fewer than asked for.
Read ==
    /\ thread = "read"
    /\ pcm = "running" /\ ring # <<>>
    /\ \E n \in 1..Len(ring) : n <= Wanted /\ Fill(n)
    /\ UNCHANGED <<made, pcm, owner, published, overruns, topic>>

\* Mutants: the PCM is not prepared again; the overrun is not counted.
OverrunUnprepared ==
    /\ thread = "read"
    /\ pcm = "xrun"
    /\ overruns < MaxFrames
    /\ overruns' = overruns + 1 /\ thread' = "next"
    /\ UNCHANGED <<device, owner, chunk, published, topic, lastRead, gaps>>
OverrunUncounted ==
    /\ thread = "read"
    /\ pcm = "xrun"
    /\ pcm' = "prepared" /\ ring' = <<>> /\ thread' = "next"
    /\ UNCHANGED <<made, owner, chunk, counters>>

\* -EPIPE: what the ring held is gone, what the chunk holds stays.
Overrun ==
    /\ thread = "read"
    /\ pcm = "xrun"
    /\ overruns' = overruns + 1
    /\ pcm' = "prepared" /\ ring' = <<>> /\ thread' = "next"
    /\ UNCHANGED <<made, owner, chunk, published, topic, lastRead, gaps>>

\* Any other error, and ALSA's time-out when the microphone goes silent: the
\* thread returns, running_ stays.
ReadError ==
    /\ thread = "read"
    /\ pcm \in {"running", "xrun"}
    /\ thread' = "ended"
    /\ UNCHANGED <<device, owner, chunk, counters>>

\* The chunk is complete and running_ still set.
CallWrite ==
    /\ thread = "full"
    /\ run = "on"
    /\ thread' = "write"
    /\ UNCHANGED <<device, owner, chunk, counters>>

\* Mutant: got is not reset for the next chunk.
WriteWithoutReset ==
    /\ thread = "write"
    /\ published < MaxFrames
    /\ topic' = chunk
    /\ published' = published + 1
    /\ thread' = "full"
    /\ UNCHANGED <<device, owner, chunk, overruns, lastRead, gaps>>

Write ==
    /\ thread = "write"
    /\ topic' = chunk
    /\ published' = published + 1
    /\ chunk' = <<>>
    /\ thread' = "next"
    /\ UNCHANGED <<device, owner, overruns, lastRead, gaps>>

\* Mutant: running_ is looked at between chunks only.
ThreadExitsBetweenChunks ==
    /\ thread = "full"
    /\ run = "stopping"
    /\ thread' = "ended"
    /\ UNCHANGED <<device, owner, chunk, counters>>

\* running_ is false: both loops are left, with whatever the chunk holds.
ThreadExits ==
    /\ thread \in {"next", "full"}
    /\ run = "stopping"
    /\ thread' = "ended"
    /\ UNCHANGED <<device, owner, chunk, counters>>

-----------------------------------------------------------------------------
\* AudioPublisher::start and stop

\* When the device or the channel cannot be opened, start() closes the PCM
\* and returns false: nothing has changed.
Start ==
    /\ run = "off"
    /\ starts < MaxStarts
    /\ starts' = starts + 1
    /\ run' = "on"
    /\ pcm' = "prepared"
    /\ thread' = "next" /\ chunk' = <<>>
    /\ lastRead' = 0
    /\ UNCHANGED <<made, ring, published, overruns, topic, gaps>>

Stop ==
    /\ run = "on"
    /\ run' = "stopping"
    /\ UNCHANGED <<device, starts, thread, chunk, counters>>

\* The thread is joined and the PCM closed.
Stopped ==
    /\ run = "stopping"
    /\ thread = "ended"
    /\ run' = "off" /\ thread' = "off"
    /\ pcm' = "closed" /\ ring' = <<>>
    /\ UNCHANGED <<made, starts, chunk, counters>>

-----------------------------------------------------------------------------
\* The microphone has produced what the bound allows.
Horizon == made = MaxFrames /\ UNCHANGED vars

Next ==
    \/ Record
    \/ CallRead \/ Read \/ Overrun \/ ReadError
    \/ CallWrite \/ Write \/ ThreadExits
    \/ Start \/ Stop \/ Stopped
    \/ Horizon

Spec == Init /\ [][Next]_vars

\* The thread runs, a read that can return does, and stop() goes on when the
\* thread has ended.  A blocked read does not last for ever once stop() waits
\* for it: the microphone delivers frames, or ALSA gives up with an error.
\* While the thread is wanted nothing is assumed of errors.
GivesUp == run = "stopping" /\ ring = <<>> /\ ReadError
Fairness ==
    /\ WF_vars(CallRead) /\ WF_vars(Read) /\ WF_vars(Overrun)
    /\ WF_vars(CallWrite) /\ WF_vars(Write) /\ WF_vars(ThreadExits)
    /\ WF_vars(Stopped) /\ WF_vars(GivesUp)

FairSpec == Spec /\ Fairness

-----------------------------------------------------------------------------
\* Properties.

TypeOK ==
    /\ made \in 0..MaxFrames
    /\ pcm \in {"closed", "prepared", "running", "xrun"}
    /\ ring \in Seq(Frame) /\ Len(ring) <= RingFrames
    /\ run \in {"off", "on", "stopping"} /\ starts \in 0..MaxStarts
    /\ thread \in {"off", "next", "read", "full", "write", "ended"}
    /\ chunk \in Seq(Frame) /\ Len(chunk) <= ChunkFrames
    /\ topic \in Seq(Frame) /\ Len(topic) \in {0, ChunkFrames}
    /\ published \in 0..MaxFrames /\ overruns \in 0..MaxFrames
    /\ lastRead \in 0..MaxFrames /\ gaps \in 0..MaxFrames

\* A consumer of every chunk hears no frame twice and none out of order,
\* within a chunk and from one to the next, through short reads, overruns in
\* the middle of a chunk, and restarts.
Increasing(s) == \A i \in 1..(Len(s) - 1) : s[i] < s[i + 1]
FramesInOrder == [][published' # published => Increasing(topic \o topic')]_vars

\* Between the first and the last read of a session audio is missing only where
\* an overrun was counted.  (The chunk that is not full when stop() or a read
\* error ends the session is dropped, and not counted.)
GapsAreCounted == gaps <= overruns

\* audio_publisher.hpp:36-38: an overrun is not a stall.  While the thread is
\* not stopped by an error, everything it can read ends up in a chunk and
\* every full chunk on the topic.
NoStall ==
    <>[](run = "on" /\ thread # "ended") =>
        <>[](pcm = "running" /\ ring = <<>> /\ thread = "read")

\* stop() returns: the thread leaves in the middle of a chunk.
StopReturns == run = "stopping" ~> run = "off"
=============================================================================
