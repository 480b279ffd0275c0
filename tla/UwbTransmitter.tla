--------------------------- MODULE UwbTransmitter ---------------------------
(***************************************************************************)
(* The UWB transmit side: the DWM device and its shell behind a serial      *)
(* line, UwbSerialReader's thread (open, handshake, read, re-open),         *)
(* UwbPublisher's thread, and UwbTransmitter's start() and stop().          *)
(*                                                                         *)
(* What the device prints is a sequence of tokens: the prompt "dwm>", a     *)
(* data line without a fix, or a data line with fix 1, 2, ... .  The        *)
(* sample buffer holds the number of the fix, which also stands for the     *)
(* buffer's timestamp (a timestamp never repeats).  The device's shell is   *)
(* not in the repository; it is what handshake() is written against.        *)
(*                                                                         *)
(* A read takes everything printed so far, which may end within a data      *)
(* line: its head is in the text read, its tail comes with a later read.    *)
(***************************************************************************)
EXTENDS DataBuffer, SequencesExt

CONSTANTS MaxFixes,   \* bound: fixes the device computes
          MaxUnplugs, \* bound: times the device is unplugged
          MaxStarts,  \* bound: calls of UwbTransmitter::start
          MaxLine,    \* bound: unread tokens before the device stops printing lines
          MaxInbox    \* bound: commands the device has not handled yet

ASSUME UwbAssumption ==
    /\ MaxFixes \in Nat /\ MaxUnplugs \in Nat /\ MaxStarts \in Nat
    /\ MaxLine \in Nat \ {0} /\ MaxInbox \in Nat \ {0}

VARIABLES
    responsive, \* whether the device takes every write and answers it before
                \* the next read
    plugged, unplugs,
    dev,        \* the device: "silent" (no shell), "half" (one "\r" seen),
                \* "prompt" or "stream"
    inbox,      \* commands written to the device and not handled yet
    line,       \* tokens printed by the device and not read yet
    first,      \* what is unread of the first: "whole", its "tail" with the
                \* position in it, or its "rest", which holds no position
    fixes,      \* number of fixes printed
    fd,         \* the reader's port: "closed", "good", or of a device that is gone:
                \* "dead" (reads fail) or "hung" (hung up: reads return 0)
    reader,     \* where the reader thread is
    held,       \* whether read_loop's buf ends with the head of the first token
    lines,      \* the lines extracted and not parsed yet
    session,    \* history: the fix before the next one that read_loop can find
    sample,     \* UwbSerialReader::sample_buf
    parsed,     \* history: number of samples put into it
    owner,      \* where UwbTransmitter's owner is; running_ is owner = "on"
    starts,
    pub,        \* the publisher's thread
    pubLast,    \* its last_sample_time
    topic,      \* history: the sample published last
    pubs        \* history: number of messages published

device == <<responsive, plugged, unplugs, dev, inbox, line, first, fixes>>
text == <<held, lines, session>>
serial == <<fd, reader, text, sample, parsed>>
publisher == <<pub, pubLast, topic, pubs>>
assembly == <<owner, starts>>
vars == <<device, serial, publisher, assembly>>

Prompt == 0
NoFix == -1
Token == NoFix..MaxFixes
IsData(t) == t # Prompt

\* At most two commands are written between two reads.
MaxText == MaxLine + MaxInbox + 2

Init ==
    /\ responsive \in BOOLEAN
    /\ plugged = TRUE /\ unplugs = 0 /\ dev \in {"silent", "prompt", "stream"}
    /\ inbox = <<>> /\ line = <<>> /\ first = "whole" /\ fixes = 0
    /\ fd = "closed" /\ reader = "off"
    /\ held = FALSE /\ lines = <<>> /\ session = NoData
    /\ sample = NoData /\ parsed = 0
    /\ pub = "off" /\ pubLast = NoData /\ topic = NoData /\ pubs = 0
    /\ owner = "off" /\ starts = 0

-----------------------------------------------------------------------------
\* The device.

\* What the device prints while no port is open is lost.
Prints(token) == line' = IF fd = "good" THEN Append(line, token) ELSE line

\* Two "\r" open the shell, one more repeats the prompt; "lec" toggles the
\* stream; whatever else arrives is ignored.
Command ==
    /\ plugged
    /\ inbox # <<>>
    /\ inbox' = Tail(inbox)
    /\ \/ /\ Head(inbox) = "enter" /\ dev = "silent"
          /\ dev' = "half" /\ UNCHANGED line
       \/ /\ Head(inbox) = "enter" /\ dev \in {"half", "prompt"}
          /\ dev' = "prompt" /\ Prints(Prompt)
       \/ /\ Head(inbox) = "lec" /\ dev = "prompt"
          /\ dev' = "stream" /\ UNCHANGED line
       \/ /\ Head(inbox) = "lec" /\ dev = "stream"
          /\ dev' = "prompt" /\ Prints(Prompt)
       \/ /\ \/ Head(inbox) = "enter" /\ dev = "stream"
             \/ Head(inbox) = "lec" /\ dev \in {"silent", "half"}
          /\ UNCHANGED <<dev, line>>
    /\ UNCHANGED <<responsive, plugged, unplugs, first, fixes, serial, publisher, assembly>>

\* lec prints a line, with a fix or without; nobody reads a closed port.
PrintLine ==
    /\ dev = "stream" /\ fd = "good"
    /\ Len(line) < MaxLine
    /\ \/ fixes < MaxFixes /\ fixes' = fixes + 1 /\ line' = Append(line, fixes + 1)
       \/ UNCHANGED fixes /\ line' = Append(line, NoFix)
    /\ UNCHANGED <<responsive, plugged, unplugs, dev, inbox, first, serial, publisher,
                   assembly>>

Unplug ==
    /\ plugged
    /\ unplugs < MaxUnplugs
    /\ plugged' = FALSE /\ unplugs' = unplugs + 1
    /\ dev' = "silent" /\ inbox' = <<>> /\ line' = <<>> /\ first' = "whole"
    /\ fd' \in IF fd = "good" THEN {"dead", "hung"} ELSE {fd}
    /\ UNCHANGED <<responsive, fixes, reader, text, sample, parsed, publisher,
                   assembly>>

Plug ==
    /\ ~plugged
    /\ plugged' = TRUE
    /\ UNCHANGED <<responsive, unplugs, dev, inbox, line, first, fixes, serial, publisher,
                   assembly>>

-----------------------------------------------------------------------------
\* UwbSerialReader::reader_loop

Stopping == owner = "stopping"

\* The port is closed: what was not read is lost, and read_loop's buf with it.
Close ==
    /\ fd' = "closed"
    /\ line' = <<>> /\ first' = "whole"
    /\ held' = FALSE /\ session' = NoData
    /\ UNCHANGED <<responsive, plugged, unplugs, dev, inbox, fixes, lines, sample, parsed,
                   publisher, assembly>>

\* Mutant: read_loop does not look at running_.
ReaderExitOuterOnly ==
    /\ reader = "open"
    /\ Stopping
    /\ reader' = "off"
    /\ Close

\* The loop's head, and read_loop's: running_ is false.  (stop() closes the
\* port after it has joined the thread.)
ReaderExit ==
    /\ reader \in {"open", "read"} /\ lines = <<>>
    /\ Stopping
    /\ reader' = "off"
    /\ Close

\* The exception handler: close the port, wait 2 s or for stop().
Throw ==
    /\ reader' = "retry"
    /\ Close

Retry ==
    /\ reader = "retry"
    /\ reader' = "open"
    /\ UNCHANGED <<device, fd, text, sample, parsed, publisher, assembly>>

\* Opening the port may toggle DTR, which resets the device.
OpenPort ==
    /\ reader = "open" /\ ~Stopping
    /\ plugged
    /\ fd' = "good" /\ reader' = "hello"
    /\ dev' \in {dev, "silent"}
    /\ UNCHANGED <<responsive, plugged, unplugs, inbox, line, first, fixes, text,
                   sample, parsed, publisher, assembly>>

OpenFails ==
    /\ reader = "open" /\ ~Stopping
    /\ ~plugged
    /\ Throw

\* Where the reader is in a write_all(), and where it goes from there.
Writing == {"enter", "enter again", "toggle", "lec"}
After(place) ==
    CASE place = "enter" -> "enter again"
      [] place \in {"enter again", "toggle"} -> "wait"
      [] place = "lec" -> "ack"

\* read() or write() fails on a port whose device is gone.  The read of a port
\* that was hung up does not: 0 is taken for "nothing is pending".
IOError ==
    /\ lines = <<>>
    /\ \/ fd = "dead" /\ reader \in {"hello", "wait", "ack", "read"} \cup Writing
       \/ fd = "hung" /\ reader \in {"hello"} \cup Writing
    /\ Throw

\* read_pending: all that was printed, or all but the tail of the last line.
ReadsAll(tokens) ==
    /\ fd = "good"
    /\ tokens = line
    /\ line' = <<>> /\ first' = "whole"

ReadsUpToHead(tokens) ==
    /\ fd = "good"
    /\ line # <<>> /\ IsData(Last(line))
    /\ Len(line) = 1 => first = "whole"
    /\ tokens = Front(line)
    /\ line' = <<Last(line)>> /\ first' \in {"tail", "rest"}

\* write_all returns when the port has taken the command: it retries on EAGAIN,
\* and tcdrain() waits, without looking at running_ or at the time.  (An error
\* of tcdrain() goes unnoticed.)
WriteAll ==
    /\ reader \in Writing
    /\ reader' = After(reader)
    /\ \/ /\ fd = "good" /\ Len(inbox) < MaxInbox
          /\ inbox' = Append(inbox, IF reader \in {"enter", "enter again"}
                                    THEN "enter" ELSE "lec")
       \/ fd # "good" /\ UNCHANGED inbox
    /\ UNCHANGED <<responsive, plugged, unplugs, dev, line, first, fixes, fd, text,
                   sample, parsed, publisher, assembly>>

-----------------------------------------------------------------------------
\* UwbSerialReader::handshake

\* What contains_data() and find("dwm>") see: not a rest, which has no marker.
Shows(tokens) ==
    {IF tokens[n] = Prompt THEN "prompt" ELSE "data" :
        n \in {k \in DOMAIN tokens : k = 1 => first # "rest"}}

\* The handshake's read: a head may be long enough to be seen as data.  A
\* responsive device has handled every command.
Sees(seen) ==
    /\ responsive => inbox = <<>>
    /\ \/ \E tokens \in {line} : ReadsAll(tokens) /\ seen = Shows(tokens)
       \/ \E tokens \in {Front(line)} :
            /\ ReadsUpToHead(tokens)
            /\ seen = Shows(tokens) \/ seen = Shows(tokens) \cup {"data"}

\* read_loop begins after what the handshake has read; of the line that was
\* cut it can still find the position in the tail.
StartsSession ==
    session' = IF reader' # "read" THEN session
               ELSE IF first' = "tail" /\ Head(line') # NoFix THEN fixes - 1
               ELSE fixes

\* Mutant: "lec" is sent to a device that streams already.
HelloAlwaysToggles ==
    /\ reader = "hello"
    /\ \E seen \in SUBSET {"prompt", "data"} :
        /\ Sees(seen)
        /\ reader' = IF seen # {} THEN "lec" ELSE "enter"
    /\ UNCHANGED <<responsive, plugged, unplugs, dev, inbox, fixes, fd, text,
                   sample, parsed, publisher, assembly>>

\* What is on the line tells whether the device streams or is at its prompt.
Hello ==
    /\ reader = "hello"
    /\ \E seen \in SUBSET {"prompt", "data"} :
        /\ Sees(seen)
        /\ \/ "data" \in seen /\ reader' = "read"
           \/ seen = {"prompt"} /\ reader' = "lec"
           \/ seen = {} /\ reader' = "enter"
    /\ StartsSession
    /\ UNCHANGED <<responsive, plugged, unplugs, dev, inbox, fixes, fd, held,
                   lines, sample, parsed, publisher, assembly>>

\* Wait for the prompt; a stream that shows up instead is toggled off.  (A
\* head that shows nothing stays in the handshake's buf, as if not read.)
AwaitPrompt ==
    /\ reader = "wait"
    /\ line # <<>>
    /\ \E seen \in SUBSET {"prompt", "data"} :
        /\ Sees(seen)
        /\ \/ "prompt" \in seen /\ reader' = "lec"
           \/ seen = {"data"} /\ reader' = "toggle"
           \/ seen = {} /\ line' = <<>> /\ UNCHANGED reader
    /\ UNCHANGED <<responsive, plugged, unplugs, dev, inbox, fixes, fd, text,
                   sample, parsed, publisher, assembly>>

\* Any marker counts as the acknowledgement of the last "lec".
AwaitAck ==
    /\ reader = "ack"
    /\ line # <<>>
    /\ \E seen \in SUBSET {"prompt", "data"} :
        /\ Sees(seen)
        /\ \/ seen # {} /\ reader' = "read"
           \/ seen = {} /\ line' = <<>> /\ UNCHANGED reader
    /\ StartsSession
    /\ UNCHANGED <<responsive, plugged, unplugs, dev, inbox, fixes, fd, held,
                   lines, sample, parsed, publisher, assembly>>

\* 3 s have passed; a responsive device that streams prints within 3 s.
HandshakeTimeout ==
    /\ reader \in {"wait", "ack"}
    /\ (responsive /\ fd = "good") => (line = <<>> /\ inbox = <<>> /\ dev # "stream")
    /\ Throw

-----------------------------------------------------------------------------
\* UwbSerialReader::read_loop

\* Mutant: a line without a fix is taken for a sample.
HasFixUnchecked(token) == IsData(token)

\* parse_pos_line: five fields from "POS," on, and a quality above zero.
HasFix(token) == token \in 1..MaxFixes

\* The lines in which parse_pos_line can find a position: what precedes "POS,"
\* in a line (a prompt, say) does not matter, but a rest needs its head.
Extracted(tokens) == IF first = "rest" /\ ~held THEN Tail(tokens) ELSE tokens

\* Mutant: the unfinished line is dropped with the lines before it.
ReadPendingDroppingHead ==
    /\ reader = "read" /\ lines = <<>>
    /\ line # <<>>
    /\ \/ \E tokens \in {line} : ReadsAll(tokens) /\ lines' = Extracted(tokens)
       \/ \E tokens \in {Front(line)} : ReadsUpToHead(tokens) /\ lines' = Extracted(tokens)
    /\ held' = FALSE
    /\ UNCHANGED <<responsive, plugged, unplugs, dev, inbox, fixes, fd, reader,
                   session, sample, parsed, publisher, assembly>>

\* Complete lines are taken from buf, the unfinished one stays in it.
ReadPending ==
    /\ reader = "read" /\ lines = <<>>
    /\ line # <<>>
    /\ \/ \E tokens \in {line} :
            ReadsAll(tokens) /\ lines' = Extracted(tokens) /\ held' = FALSE
       \/ \E tokens \in {Front(line)} :
            ReadsUpToHead(tokens) /\ lines' = Extracted(tokens) /\ held' = TRUE
    /\ UNCHANGED <<responsive, plugged, unplugs, dev, inbox, fixes, fd, reader,
                   session, sample, parsed, publisher, assembly>>

\* Mutant: the lines are taken from the back.
ParseLineBackwards ==
    /\ reader = "read" /\ lines # <<>>
    /\ IF HasFix(Last(lines))
       THEN sample' = Last(lines) /\ session' = sample' /\ parsed' = parsed + 1
       ELSE UNCHANGED <<sample, session, parsed>>
    /\ lines' = Front(lines)
    /\ UNCHANGED <<device, fd, reader, held, publisher, assembly>>

\* The sample of a line that has one is stored.
ParseLine ==
    /\ reader = "read" /\ lines # <<>>
    /\ IF HasFix(Head(lines))
       THEN sample' = Head(lines) /\ session' = sample' /\ parsed' = parsed + 1
       ELSE UNCHANGED <<sample, session, parsed>>
    /\ lines' = Tail(lines)
    /\ UNCHANGED <<device, fd, reader, held, publisher, assembly>>

-----------------------------------------------------------------------------
\* UwbPublisher::publish_loop

\* The loop's head looks at stop_publish_; the sample is read 10 ms later.
PublishLoop ==
    /\ pub = "head"
    /\ pub' = IF owner = "closing" THEN "off" ELSE "poll"
    /\ UNCHANGED <<device, serial, pubLast, topic, pubs, assembly>>

\* Mutant: samples are not told apart by their time.
IsAny(s, last) == s # NoData

IsNew(s, last) == s # NoData /\ s # last

Poll ==
    /\ pub = "poll"
    /\ pub' = "head"
    /\ IF IsNew(sample, pubLast)
       THEN pubLast' = sample /\ topic' = sample /\ pubs' = pubs + 1
       ELSE UNCHANGED <<pubLast, topic, pubs>>
    /\ UNCHANGED <<device, serial, assembly>>

-----------------------------------------------------------------------------
\* UwbTransmitter::start and stop

\* The publisher first; when its channel cannot be opened start() returns
\* false and nothing has changed.
StartPublisher ==
    /\ owner = "off"
    /\ starts < MaxStarts
    /\ starts' = starts + 1
    /\ pub' = "head" /\ pubLast' = NoData
    /\ owner' = "starting"
    /\ UNCHANGED <<device, serial, topic, pubs>>

StartReader ==
    /\ owner = "starting"
    /\ owner' = "on"
    /\ reader' = "open"
    /\ UNCHANGED <<device, fd, text, sample, parsed, publisher, starts>>

StopReader ==
    /\ owner = "on"
    /\ owner' = "stopping"
    /\ UNCHANGED <<device, serial, publisher, starts>>

\* The reader is joined; stop_publish_ is set.
StopPublisher ==
    /\ owner = "stopping"
    /\ reader = "off"
    /\ owner' = "closing"
    /\ UNCHANGED <<device, serial, publisher, starts>>

Stopped ==
    /\ owner = "closing"
    /\ pub = "off"
    /\ owner' = "off"
    /\ UNCHANGED <<device, serial, publisher, starts>>

-----------------------------------------------------------------------------
\* No start() is left.
Horizon == owner = "off" /\ starts = MaxStarts /\ UNCHANGED vars

Next ==
    \/ Command \/ PrintLine \/ Unplug \/ Plug
    \/ ReaderExit \/ Retry \/ OpenPort \/ OpenFails \/ IOError
    \/ Hello \/ AwaitPrompt \/ AwaitAck \/ WriteAll \/ HandshakeTimeout
    \/ ReadPending \/ ParseLine
    \/ PublishLoop \/ Poll
    \/ StartPublisher \/ StartReader \/ StopReader \/ StopPublisher \/ Stopped
    \/ Horizon

Spec == Init /\ [][Next]_vars

\* The threads run, and start() and stop() go on once called.  A responsive
\* device works and takes what is written; nothing is assumed of another one, so
\* its writes may block for ever, nor of reads from a port that was hung up.
\* (Strong for ReaderExit: each turn of the loop looks at running_, however many
\* lines are parsed between.)
Fairness ==
    /\ WF_vars(responsive /\ Command) /\ WF_vars(responsive /\ PrintLine)
    /\ WF_vars(responsive /\ WriteAll)
    /\ SF_vars(ReaderExit) /\ WF_vars(Retry) /\ WF_vars(OpenPort) /\ WF_vars(OpenFails)
    /\ WF_vars(IOError)
    /\ WF_vars(Hello) /\ WF_vars(AwaitPrompt) /\ WF_vars(AwaitAck)
    /\ WF_vars(HandshakeTimeout)
    /\ WF_vars(ReadPending) /\ WF_vars(ParseLine)
    /\ WF_vars(PublishLoop) /\ WF_vars(Poll)
    /\ WF_vars(StartReader) /\ WF_vars(StopPublisher) /\ WF_vars(Stopped)

FairSpec == Spec /\ Fairness

-----------------------------------------------------------------------------
\* Properties.

TypeOK ==
    /\ responsive \in BOOLEAN /\ plugged \in BOOLEAN /\ unplugs \in 0..MaxUnplugs
    /\ dev \in {"silent", "half", "prompt", "stream"}
    /\ inbox \in Seq({"enter", "lec"}) /\ Len(inbox) <= MaxInbox
    /\ line \in Seq(Token) /\ Len(line) <= MaxText
    /\ first \in {"whole", "tail", "rest"} /\ (line = <<>> => first = "whole")
    /\ fixes \in 0..MaxFixes
    /\ fd \in {"closed", "good", "dead", "hung"}
    /\ reader \in {"off", "open", "hello", "wait", "ack", "read", "retry"} \cup Writing
    /\ held \in BOOLEAN /\ (held => first # "whole" \/ fd \in {"dead", "hung"})
    /\ session \in 0..MaxFixes
    /\ lines \in Seq(Token) /\ Len(lines) <= MaxText
    /\ sample \in 0..MaxFixes /\ pubLast \in 0..MaxFixes /\ topic \in 0..MaxFixes
    /\ parsed \in 0..MaxFixes /\ pubs \in Nat
    /\ owner \in {"off", "starting", "on", "stopping", "closing"}
    /\ starts \in 0..MaxStarts
    /\ pub \in {"off", "head", "poll"}

\* Whatever is cut, unplugged, timed out, skipped or restarted on the way, the
\* topic carries fixes that the device printed, never an older one than before.
LW == INSTANCE LatestWins WITH made <- fixes, shown <- topic
ImplementsLatestWins == LW!Spec

\* Wherever the reads cut the text, the read loop stores every fix from where
\* the handshake stopped reading: none is lost, stored twice or out of order.
StoresEveryFix ==
    [][parsed' # parsed => sample' = session + 1]_vars

\* The topic carries what the device computed: a message per parsed fix at
\* most, and one replay for each start() after the first.
Replays(n) == IF n = 0 THEN 0 ELSE n - 1
PublishesWhatWasParsed == pubs <= parsed + Replays(starts)

\* stop() returns if the port does not block a write_all() for ever: every other
\* wait of the reader is bounded or looks at running_, whatever the device
\* answers, and also when it is gone.  (write_all() does neither.)
WritesReturn == []<>(reader \notin Writing)
StopReturns == WritesReturn => (owner = "stopping" ~> owner = "off")

\* Whether read_loop reads a port that was hung up, of which it hears nothing.
ReadsHungPort == reader = "read" /\ fd = "hung"

\* A responsive device that stays plugged in ends up streaming into the read
\* loop, from whatever shell state it was found in and however often it was
\* reset by re-opening: handshake() gets the parity of "lec" right.  Only a
\* read loop whose port was hung up does not get to re-opening.
StreamsInTheEnd ==
    <>[](responsive /\ plugged /\ owner = "on" /\ ~ReadsHungPort)
        => <>[](reader = "read" /\ dev = "stream")

\* What uwb_serial_reader.hpp:37-38 says: a physical disconnect makes the read
\* loop leave and the port be opened again.
DisconnectIsNoticed ==
    (reader = "read" /\ fd \in {"dead", "hung"}) ~> reader # "read" \/ owner # "on"

\* What uwb_publisher.hpp:21-27 says: new samples only are published, and the
\* topic goes silent when the source does.
PublishesOnlyNew == [][pubs' # pubs => topic' > topic]_vars

=============================================================================
