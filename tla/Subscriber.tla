----------------------------- MODULE Subscriber -----------------------------
(***************************************************************************)
(* One receive-side subscriber: UwbSubscriber, AudioSubscriber,             *)
(* ColorSubscriber and DepthSubscriber are the same program over different  *)
(* message types and reader depths.  Two threads share the DataBuffer: the  *)
(* DDS delivery thread (set the buffer, then call the hook) and the         *)
(* watchdog (sleep, snapshot, check the age, clear).                        *)
(*                                                                         *)
(* Messages are numbered 1, 2, ... in the order the publisher writes them.  *)
(* Time is an explicit clock.  The watchdog's std::this_thread::sleep_for   *)
(* returns no earlier than PollMs and the thread is through its loop body   *)
(* no later than LagMs after that: LagMs is the scheduler's and not the     *)
(* code's.                                                                  *)
(***************************************************************************)
EXTENDS DataBuffer, ReaderQueue

CONSTANTS Depth,     \* KEEP_LAST depth given to InitChannel
          StaleMs,   \* stale_ms of watchdog_loop
          PollMs,    \* its sleep_for
          LagMs,     \* how late the watchdog thread may be scheduled
          MaxTime,   \* bound: the horizon of the clock
          MaxMsg,    \* bound: messages the publisher writes
          MaxStarts  \* bound: calls of start()

ASSUME DepthAssumption == Depth \in Nat \ {0}
ASSUME TimeAssumption ==
    /\ StaleMs \in Nat /\ PollMs \in Nat /\ LagMs \in Nat
    /\ LagMs <= StaleMs
ASSUME BoundAssumption == MaxTime \in Nat /\ MaxMsg \in Nat /\ MaxStarts \in Nat

VARIABLES
    now,     \* steady_clock
    sent,    \* number of messages written so far, the last one's identity
    queue,   \* the DDS reader's queue
    cb,      \* message the delivery thread has put in the buffer and not yet
             \* given to the hook; NoData when it is outside the callback
    buf,     \* uwb_buf, color_buf, depth_buf, audio_buf
    hooked,  \* history: last message the hook was given
    run,     \* where the owner is between start() and stop()
    starts,  \* number of calls of start() that opened the channel
    armedAt, \* history: when the watchdog thread was last created
    wd,      \* where the watchdog thread is
    wake,    \* when its current sleep_for may return
    seen     \* its local GetDataWithTime() snapshot

vars == <<now, sent, queue, cb, buf, hooked, run, starts, armedAt, wd, wake, seen>>
owner == <<run, starts, armedAt>>
watchdog == <<wd, wake, seen>>
delivery == <<queue, cb, hooked>>

Msg == 1..MaxMsg
Time == 0..MaxTime

Init ==
    /\ now = 0 /\ sent = 0
    /\ queue = <<>> /\ cb = NoData /\ hooked = NoData
    /\ buf = Empty
    /\ run = "stopped" /\ starts = 0 /\ armedAt = 0
    /\ wd = "off" /\ wake = 0 /\ seen = Empty

-----------------------------------------------------------------------------
\* The environment: the clock, the publisher, the DDS reader's queue.

\* The watchdog thread exists from its creation until it leaves its loop.
WatchdogAlive == wd # "off"

\* Time passes, but not beyond the moment by which the watchdog has run, and
\* start() creates the watchdog without waiting for anything.
Tick ==
    /\ now < MaxTime
    /\ run # "opened"
    /\ WatchdogAlive => now < wake + LagMs
    /\ now' = now + 1
    /\ UNCHANGED <<sent, buf, owner, watchdog, delivery>>

ReaderOpen == run # "stopped"

Write ==
    /\ sent < MaxMsg
    /\ sent' = sent + 1
    /\ queue' = IF ReaderOpen THEN Offer(queue, Depth, sent + 1) ELSE queue
    /\ UNCHANGED <<now, cb, hooked, buf, owner, watchdog>>

-----------------------------------------------------------------------------
\* The delivery thread: on_pose_update and its siblings.

\* Mutant: the newest message first.
ReceiveNewestFirst ==
    /\ ReaderOpen
    /\ cb = NoData
    /\ queue # <<>>
    /\ cb' = queue[Len(queue)]
    /\ queue' = SubSeq(queue, 1, Len(queue) - 1)
    /\ buf' = SetData(queue[Len(queue)], now)
    /\ UNCHANGED <<now, sent, hooked, owner, watchdog>>

\* Mutant: a buffer that holds a value is not overwritten.
ReceiveFirstWins ==
    /\ ReaderOpen
    /\ cb = NoData
    /\ queue # <<>>
    /\ cb' = Head(queue)
    /\ queue' = Tail(queue)
    /\ buf' = IF HasData(buf) THEN buf ELSE SetData(Head(queue), now)
    /\ UNCHANGED <<now, sent, hooked, owner, watchdog>>

\* The message is converted and stored; uwb_buf.SetData takes the mutex.
Receive ==
    /\ ReaderOpen
    /\ cb = NoData
    /\ queue # <<>>
    /\ cb' = Head(queue)
    /\ queue' = Tail(queue)
    /\ buf' = SetData(Head(queue), now)
    /\ UNCHANGED <<now, sent, hooked, owner, watchdog>>

\* on_position_ / on_chunk_ / on_frame_ runs on the same thread afterwards.
CallHook ==
    /\ cb # NoData
    /\ hooked' = cb
    /\ cb' = NoData
    /\ UNCHANGED <<now, sent, queue, buf, owner, watchdog>>

-----------------------------------------------------------------------------
\* The owner: start() and stop().

\* InitChannel: callbacks may arrive from here on.  When it throws, start()
\* returns false and the state is that of before.
OpenChannel ==
    /\ run = "stopped"
    /\ starts < MaxStarts
    /\ starts' = starts + 1
    /\ run' = "opened"
    /\ UNCHANGED <<now, sent, buf, armedAt, watchdog, delivery>>

StartWatchdog ==
    /\ run = "opened"
    /\ run' = "running"
    /\ armedAt' = now
    /\ wd' = "sleep"
    /\ wake' = now + PollMs
    /\ seen' = Empty
    /\ UNCHANGED <<now, sent, buf, starts, delivery>>

\* stop_watchdog_ = true; stop() then joins the thread.
StopWatchdog ==
    /\ run = "running"
    /\ run' = "joining"
    /\ UNCHANGED <<now, sent, buf, starts, armedAt, watchdog, delivery>>

\* The thread is joined and the reader destroyed, which waits for a callback
\* in progress and drops what is queued.  The buffer keeps its value.
CloseChannel ==
    /\ run = "joining"
    /\ ~WatchdogAlive
    /\ cb = NoData
    /\ run' = "stopped"
    /\ queue' = <<>>
    /\ UNCHANGED <<now, sent, cb, hooked, buf, starts, armedAt, watchdog>>

-----------------------------------------------------------------------------
\* The watchdog thread.

\* sleep_for has returned: GetDataWithTime().
Snapshot ==
    /\ wd = "sleep"
    /\ now >= wake
    /\ seen' = buf
    /\ wd' = "check"
    /\ UNCHANGED <<now, sent, buf, wake, owner, delivery>>

\* The loop's head: leave when asked to, else sleep again.
Loop ==
    /\ wd' = IF run = "joining" THEN "off" ELSE "sleep"
    /\ wake' = now + PollMs
    /\ seen' = Empty

\* Mutants: the operands of the age swapped; the threshold off by one.
IsStaleReversed(b) == HasData(b) /\ b.at - now > StaleMs
IsStaleEarly(b) == HasData(b) /\ Age(b, now) >= StaleMs

IsStale(b) == HasData(b) /\ Age(b, now) > StaleMs

\* The age of the snapshot is taken now, after the lock was released.
FoundFresh ==
    /\ wd = "check"
    /\ ~IsStale(seen)
    /\ Loop
    /\ UNCHANGED <<now, sent, buf, owner, delivery>>

FoundStale ==
    /\ wd = "check"
    /\ IsStale(seen)
    /\ wd' = "clear"
    /\ UNCHANGED <<now, sent, buf, wake, seen, owner, delivery>>

\* Clear() takes the lock again and drops whatever the buffer then holds.
Clear ==
    /\ wd = "clear"
    /\ buf' = Cleared
    /\ Loop
    /\ UNCHANGED <<now, sent, owner, delivery>>

-----------------------------------------------------------------------------
\* The horizon: nothing more is asked of the system.
Horizon == now = MaxTime /\ UNCHANGED vars

Next ==
    \/ Tick \/ Write
    \/ Receive \/ CallHook
    \/ OpenChannel \/ StartWatchdog \/ StopWatchdog \/ CloseChannel
    \/ Snapshot \/ FoundFresh \/ FoundStale \/ Clear
    \/ Horizon

Spec == Init /\ [][Next]_vars

-----------------------------------------------------------------------------
\* Properties.

TypeOK ==
    /\ now \in Time
    /\ sent \in 0..MaxMsg
    /\ queue \in Seq(Msg) /\ Len(queue) <= Depth
    /\ cb \in Msg \cup {NoData} /\ hooked \in Msg \cup {NoData}
    /\ buf \in Buffer(Msg, Time) /\ seen \in Buffer(Msg, Time)
    /\ run \in {"stopped", "opened", "running", "joining"}
    /\ starts \in 0..MaxStarts
    /\ armedAt \in Time
    /\ wd \in {"off", "sleep", "check", "clear"}
    /\ wake \in 0..(MaxTime + PollMs)

\* While a watchdog runs, a consumer that reads the buffer gets a sample no
\* older than StaleMs plus one poll period (and what the scheduler added):
\* the promise behind "1 s of silence clears the buffer".  The one exception
\* is what an earlier session left in the buffer, which stop() does not
\* clear: that lasts until the first pass of the new watchdog.
NoStaleData ==
    (WatchdogAlive /\ HasData(buf)) =>
        \/ Age(buf, now) <= StaleMs + PollMs + LagMs
        \/ now - armedAt <= PollMs + LagMs

\* The watchdog decides on a snapshot and clears after the lock was released,
\* so it can drop a sample that is not the one it looked at; but only a
\* sample that arrived during this very pass, never one that an earlier pass
\* had already seen and kept.
ClearDropsStaleOrJustArrived ==
    [][(HasData(buf) /\ ~HasData(buf')) =>
          \/ Age(buf, now) > StaleMs
          \/ Age(buf, now) <= LagMs]_vars

\* The hook gets each message at most once and in the order they were
\* written, across reader-queue overflow, stop() and start() again: when a
\* callback returns, the message it handed over is newer than all before.
HookInOrder == [][(cb # NoData /\ cb' = NoData) => cb > hooked]_vars

\* A hook that reads the buffer finds the message it was called for or a
\* newer one (or nothing, when the watchdog came in between): the buffer is
\* never behind the hook.
BufferNotBehindHook == HasData(buf) => buf.data >= hooked

\* What data_buffer.hpp:5-6 says of the watchdogs: they Clear() stale streams,
\* so that an empty buffer means there is no live data.
ClearsOnlyStale ==
    [][(HasData(buf) /\ ~HasData(buf')) => Age(buf, now) > StaleMs]_vars
=============================================================================
