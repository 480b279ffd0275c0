-------------------------- MODULE SubscriberProofs --------------------------
(***************************************************************************)
(* What holds of Subscriber for every depth, staleness, poll period, lag    *)
(* and bound: type correctness, the staleness bound, what a clear may drop, *)
(* and the order in which buffer and hook see the messages.                 *)
(***************************************************************************)
EXTENDS Subscriber, ReaderQueueProofs

\* The parts of the inductive invariant.

\* The watchdog is inside its session, its sleep is at most one poll long,
\* and it is never later than the scheduler allows.
WatchdogOnTime ==
    /\ run \in {"stopped", "opened"} => wd = "off"
    /\ armedAt <= now
    /\ WatchdogAlive => wake <= now + PollMs /\ now <= wake + LagMs
    /\ wd \in {"check", "clear"} => wake <= now

\* Samples come from the past.
FromThePast == (HasData(buf) => buf.at <= now) /\ (HasData(seen) => seen.at <= now)

\* Between the snapshot and the clear the buffer holds the snapshot or a
\* sample that arrived since: only the watchdog clears.
SnapshotHolds ==
    wd \in {"check", "clear"} =>
        /\ HasData(seen) => HasData(buf)
        /\ HasData(buf) => buf = seen \/ buf.at >= wake

DecidedOnStale == wd = "clear" => IsStale(seen)

\* What a pass kept is fresh enough to last until the end of the next sleep.
KeptFresh ==
    (WatchdogAlive /\ HasData(buf)) =>
        wake <= buf.at + StaleMs + PollMs \/ wake = armedAt + PollMs

TimeInv == WatchdogOnTime /\ FromThePast /\ SnapshotHolds /\ DecidedOnStale /\ KeptFresh

\* What is queued is in write order and newer than all that was delivered.
QueueInOrder ==
    /\ \A i \in 1..Len(queue) : queue[i] <= sent /\ queue[i] > cb /\ queue[i] > hooked
    /\ \A i, j \in 1..Len(queue) : i < j => queue[i] < queue[j]

\* During a callback the buffer holds the callback's message or nothing.
CallbackInBuffer ==
    /\ cb <= sent /\ hooked <= sent
    /\ cb # NoData => cb > hooked
    /\ (cb # NoData /\ HasData(buf)) => buf.data = cb

OrderInv == QueueInOrder /\ CallbackInBuffer /\ BufferNotBehindHook

-----------------------------------------------------------------------------
\* Every variable stays in its type, and the reader's queue within its depth.
THEOREM TypeCorrect == Spec => []TypeOK
<1>1. Init => TypeOK
  BY DepthAssumption, TimeAssumption, BoundAssumption
  DEF Init, TypeOK, DepthAssumption, TimeAssumption, BoundAssumption, Time, Msg,
      Buffer, Empty, NoData, NoTime
<1>2. TypeOK /\ [Next]_vars => TypeOK'
  <2> SUFFICES ASSUME TypeOK, [Next]_vars PROVE TypeOK'
    OBVIOUS
  <2> USE DepthAssumption, TimeAssumption, BoundAssumption
      DEF TypeOK, DepthAssumption, TimeAssumption, BoundAssumption, Time, Msg, Buffer,
          NoData, NoTime, owner, watchdog, delivery
  <2>1. CASE Tick
    BY <2>1 DEF Tick
  <2>2. CASE Write
    <3>1. /\ sent' \in 0..MaxMsg /\ sent' \in Msg /\ sent' = sent + 1
          /\ UNCHANGED <<now, cb, hooked, buf, owner, watchdog>>
      BY <2>2 DEF Write
    <3>2. queue' \in Seq(Msg) /\ Len(queue') <= Depth
      <4>1. CASE ReaderOpen
        BY <2>2, <3>1, <4>1, OfferProperties DEF Write
      <4>2. CASE ~ReaderOpen
        BY <2>2, <4>2 DEF Write
      <4>3. QED  BY <4>1, <4>2
    <3>3. QED  BY <3>1, <3>2
  <2>3. CASE Receive
    BY <2>3 DEF Receive, SetData
  <2>4. CASE CallHook
    BY <2>4 DEF CallHook
  <2>5. CASE OpenChannel
    BY <2>5 DEF OpenChannel
  <2>13. CASE StartWatchdog
    BY <2>13 DEF StartWatchdog, Empty
  <2>14. CASE StopWatchdog
    BY <2>14 DEF StopWatchdog
  <2>6. CASE CloseChannel
    BY <2>6 DEF CloseChannel
  <2>7. CASE Snapshot
    BY <2>7 DEF Snapshot
  <2>8. CASE FoundFresh
    BY <2>8 DEF FoundFresh, Loop, Empty
  <2>9. CASE FoundStale
    BY <2>9 DEF FoundStale
  <2>10. CASE Clear
    BY <2>10 DEF Clear, Loop, Cleared, Empty
  <2>11. CASE UNCHANGED vars
    BY <2>11 DEF vars
  <2>12. QED
    BY <2>1, <2>2, <2>3, <2>4, <2>5, <2>6, <2>7, <2>8, <2>9, <2>10, <2>11,
       <2>13, <2>14
    DEF Next, Horizon
<1>3. QED  BY <1>1, <1>2, PTL DEF Spec

-----------------------------------------------------------------------------
\* The watchdog's clockwork is an invariant.
THEOREM TimeInvariant == Spec => [](TypeOK /\ TimeInv)
<1> USE TimeAssumption DEF TimeAssumption, HasData, NoData, WatchdogAlive
<1>1. Init => TimeInv
  BY DEF Init, TimeInv, WatchdogOnTime, FromThePast, SnapshotHolds, DecidedOnStale,
         KeptFresh, Empty, NoTime
<1>2. TypeOK /\ TypeOK' /\ TimeInv /\ [Next]_vars => TimeInv'
  <2> SUFFICES ASSUME TypeOK, TypeOK', TimeInv, [Next]_vars PROVE TimeInv'
    OBVIOUS
  <2> USE DEF TypeOK, TimeInv, Buffer, Time, Msg, owner, watchdog, delivery
  <2>1. CASE Tick
    <3>1. now' = now + 1 /\ UNCHANGED <<buf, run, armedAt, wd, wake, seen>>
      BY <2>1 DEF Tick
    <3>2. WatchdogOnTime'
      BY <2>1, <3>1 DEF Tick, WatchdogOnTime
    <3>3. FromThePast' /\ SnapshotHolds' /\ KeptFresh'
      BY <3>1 DEF FromThePast, SnapshotHolds, KeptFresh
    <3>4. DecidedOnStale'
      BY <3>1 DEF DecidedOnStale, IsStale, Age, FromThePast
    <3>5. QED  BY <3>2, <3>3, <3>4
  <2>2. CASE Receive
    <3>7. queue # <<>> /\ queue \in Seq(Msg)
      BY <2>2 DEF Receive
    <3>0. Head(queue) \in Msg
      BY <3>7, HeadTailProperties
    <3>1. /\ buf' = [data |-> cb', at |-> now] /\ cb' # 0
          /\ UNCHANGED <<now, run, armedAt, wd, wake, seen>>
      BY <2>2, <3>0 DEF Receive, SetData
    <3>2. buf'.at = now /\ buf'.data # 0
      BY <3>1
    <3>3. WatchdogOnTime' /\ FromThePast' /\ SnapshotHolds'
      BY <3>1, <3>2 DEF WatchdogOnTime, FromThePast, SnapshotHolds
    <3>4. DecidedOnStale'
      BY <3>1 DEF DecidedOnStale, IsStale, Age
    <3>5. KeptFresh'
      BY <3>1, <3>2 DEF KeptFresh, WatchdogOnTime
    <3>6. QED  BY <3>3, <3>4, <3>5
  <2>3. CASE StartWatchdog
    BY <2>3 DEF StartWatchdog, WatchdogOnTime, FromThePast, SnapshotHolds,
                DecidedOnStale, KeptFresh, Empty, NoTime
  <2>4. CASE Snapshot
    <3>1. /\ wd = "sleep" /\ wd' = "check" /\ seen' = buf /\ now >= wake
          /\ UNCHANGED <<now, buf, wake, run, armedAt>>
      BY <2>4 DEF Snapshot
    <3>2. WatchdogOnTime' /\ KeptFresh'
      BY <3>1 DEF WatchdogOnTime, KeptFresh
    <3>3. FromThePast' /\ SnapshotHolds' /\ DecidedOnStale'
      BY <3>1 DEF FromThePast, SnapshotHolds, DecidedOnStale
    <3>4. QED  BY <3>2, <3>3
  <2>5. CASE FoundFresh
    <3>1. /\ wd = "check" /\ wd' \in {"off", "sleep"} /\ wake' = now + PollMs
          /\ (run = "joining" => wd' = "off") /\ seen' = [data |-> 0, at |-> 0]
          /\ UNCHANGED <<now, buf, run, armedAt>>
      BY <2>5 DEF FoundFresh, Loop, Empty, NoTime
    <3>2. ~HasData(seen) \/ now <= seen.at + StaleMs
      BY <2>5 DEF FoundFresh, IsStale, Age
    <3>3. HasData(buf) => now <= buf.at + StaleMs
      BY <3>1, <3>2 DEF SnapshotHolds, WatchdogOnTime
    <3>4. KeptFresh'
      BY <3>1, <3>3 DEF KeptFresh
    <3>5. WatchdogOnTime' /\ FromThePast' /\ SnapshotHolds' /\ DecidedOnStale'
      BY <3>1 DEF WatchdogOnTime, FromThePast, SnapshotHolds, DecidedOnStale
    <3>6. QED  BY <3>4, <3>5
  <2>6. CASE FoundStale
    BY <2>6 DEF FoundStale, WatchdogOnTime, FromThePast, SnapshotHolds, DecidedOnStale,
                KeptFresh, IsStale, Age
  <2>7. CASE Clear
    BY <2>7 DEF Clear, Loop, Cleared, Empty, NoTime, WatchdogOnTime, FromThePast,
                SnapshotHolds, DecidedOnStale, KeptFresh
  <2>8. CASE Write \/ CallHook \/ UNCHANGED vars
    <3>1. UNCHANGED <<now, buf, run, armedAt, wd, wake, seen>>
      BY <2>8 DEF Write, CallHook, vars
    <3>2. QED
      BY <3>1 DEF WatchdogOnTime, FromThePast, SnapshotHolds, DecidedOnStale,
                  KeptFresh, IsStale, Age
  <2>9. CASE OpenChannel \/ StopWatchdog \/ CloseChannel
    <3>1. /\ UNCHANGED <<now, buf, armedAt, wd, wake, seen>>
          /\ wd = "off" \/ run' = "joining"
      BY <2>9 DEF OpenChannel, StopWatchdog, CloseChannel, WatchdogOnTime
    <3>2. QED
      BY <3>1 DEF WatchdogOnTime, FromThePast, SnapshotHolds, DecidedOnStale,
                  KeptFresh, IsStale, Age
  <2>10. QED
    BY <2>1, <2>2, <2>3, <2>4, <2>5, <2>6, <2>7, <2>8, <2>9 DEF Next, Horizon
<1>3. QED  BY <1>1, <1>2, TypeCorrect, PTL DEF Spec

\* A running watchdog bounds the age of what a consumer can read.
THEOREM StalenessBounded == Spec => []NoStaleData
<1>1. TypeOK /\ TimeInv => NoStaleData
  BY TimeAssumption
  DEF TimeAssumption, TypeOK, TimeInv, Buffer, Time, Msg, WatchdogOnTime, KeptFresh,
      NoStaleData, Age, HasData, NoData
<1>2. QED  BY <1>1, TimeInvariant, PTL

\* A clear drops a stale sample or one that arrived in the same pass.
THEOREM ClearIsHarmless == Spec => ClearDropsStaleOrJustArrived
<1> DEFINE A == HasData(buf) /\ ~HasData(buf') =>
                    Age(buf, now) > StaleMs \/ Age(buf, now) <= LagMs
<1>1. TypeOK /\ TypeOK' /\ TimeInv /\ [Next]_vars => [A]_vars
  <2> SUFFICES ASSUME TypeOK, TypeOK', TimeInv, Next, HasData(buf), ~HasData(buf')
               PROVE  Age(buf, now) > StaleMs \/ Age(buf, now) <= LagMs
    BY DEF vars
  <2>1. CASE Clear
    <3>1. wd = "clear"
      BY <2>1 DEF Clear
    <3>2. IsStale(seen) /\ now <= wake + LagMs /\ (buf = seen \/ buf.at >= wake)
      BY <3>1 DEF TimeInv, DecidedOnStale, WatchdogOnTime, WatchdogAlive, SnapshotHolds
    <3>3. /\ now \in Int /\ wake \in Int /\ buf.at \in Int /\ LagMs \in Int
      BY TimeAssumption, BoundAssumption
      DEF TimeAssumption, BoundAssumption, TypeOK, Buffer, Time, NoTime
    <3>4. CASE buf = seen
      BY <3>2, <3>4 DEF IsStale
    <3>5. CASE buf.at >= wake
      BY <3>2, <3>3, <3>5 DEF Age
    <3>6. QED  BY <3>2, <3>4, <3>5
  <2>2. CASE Receive
    <3>1. queue # <<>> /\ queue \in Seq(Msg) /\ buf'.data = Head(queue)
      BY <2>2 DEF Receive, SetData, TypeOK
    <3>2. Head(queue) \in Msg
      BY <3>1
    <3>3. QED  BY <3>1, <3>2, BoundAssumption DEF BoundAssumption, HasData, NoData, Msg
  <2>3. CASE ~Clear /\ ~Receive
    <3>1. UNCHANGED buf
      BY <2>3 DEF Next, Tick, Write, CallHook, OpenChannel, StartWatchdog, StopWatchdog,
                  CloseChannel, Snapshot, FoundFresh, FoundStale, Horizon, vars
    <3>2. QED  BY <3>1 DEF HasData
  <2>4. QED  BY <2>1, <2>2, <2>3
<1>2. QED
  BY <1>1, TypeCorrect, TimeInvariant, PTL DEF Spec, ClearDropsStaleOrJustArrived

-----------------------------------------------------------------------------
\* Messages travel in order: what is queued is newer than what was delivered,
\* and a callback's message is the buffer's.
THEOREM OrderInvariant == Spec => [](TypeOK /\ OrderInv)
<1> USE DEF HasData, NoData
<1>1. Init => OrderInv
  BY DEF Init, OrderInv, QueueInOrder, CallbackInBuffer, BufferNotBehindHook, Empty
<1>2. TypeOK /\ TypeOK' /\ OrderInv /\ [Next]_vars => OrderInv'
  <2> SUFFICES ASSUME TypeOK, TypeOK', OrderInv, [Next]_vars PROVE OrderInv'
    OBVIOUS
  <2>0. /\ queue \in Seq(Msg) /\ Len(queue) <= Depth /\ Len(queue) \in Nat
        /\ sent \in Int /\ cb \in Int /\ hooked \in Int /\ buf.data \in Int
        /\ \A i \in 1..Len(queue) : queue[i] \in Msg
        /\ \A m \in Msg : m \in Int /\ m > 0
    BY BoundAssumption DEF BoundAssumption, TypeOK, Buffer, Msg
  <2> USE DEF OrderInv, owner, watchdog, delivery
  <2>1. CASE Write
    <3>1. sent' = sent + 1 /\ sent' \in Msg /\ UNCHANGED <<cb, hooked, buf>>
      BY <2>1, BoundAssumption DEF BoundAssumption, Write, TypeOK, Msg
    <3>2. CallbackInBuffer' /\ BufferNotBehindHook'
      BY <2>0, <3>1 DEF CallbackInBuffer, BufferNotBehindHook
    <3>3. QueueInOrder'
      <4>1. CASE ReaderOpen
        <5>1. queue' = Offer(queue, Depth, sent + 1)
          BY <2>1, <4>1 DEF Write
        <5>2. PICK d \in {0, 1} :
                /\ Len(queue') = Len(queue) + 1 - d
                /\ \A i \in 1..(Len(queue) + 1 - d) :
                      queue'[i] = IF i + d <= Len(queue) THEN queue[i + d] ELSE sent + 1
          <6>1. Depth \in Nat \ {0} /\ sent + 1 \in Msg
            BY <3>1, DepthAssumption DEF DepthAssumption
          <6>2. queue \in Seq(Msg) /\ Len(queue) <= Depth
            BY <2>0
          <6>3. \E d \in {0, 1} :
                  /\ Len(Offer(queue, Depth, sent + 1)) = Len(queue) + 1 - d
                  /\ \A i \in 1..(Len(queue) + 1 - d) :
                        Offer(queue, Depth, sent + 1)[i] =
                            IF i + d <= Len(queue) THEN queue[i + d] ELSE sent + 1
            BY <6>1, <6>2, OfferProperties
          <6>4. QED  BY <5>1, <6>3
        <5>3. \A i \in 1..Len(queue') :
                /\ i + d \in 1..Len(queue) => queue'[i] = queue[i + d]
                /\ i + d \notin 1..Len(queue) => queue'[i] = sent + 1 /\ i = Len(queue')
          BY <2>0, <5>2
        <5>4. \A i \in 1..Len(queue') : queue'[i] <= sent' /\ queue'[i] > cb' /\ queue'[i] > hooked'
          <6> TAKE i \in 1..Len(queue')
          <6>1. CASE i + d \in 1..Len(queue)
            <7>1. /\ queue'[i] = queue[i + d] /\ queue[i + d] \in Int
                  /\ queue[i + d] <= sent /\ queue[i + d] > cb /\ queue[i + d] > hooked
              BY <2>0, <5>3, <6>1 DEF QueueInOrder
            <7>2. QED  BY <2>0, <3>1, <7>1
          <6>2. CASE i + d \notin 1..Len(queue)
            BY <2>0, <3>1, <5>3, <6>2 DEF CallbackInBuffer
          <6>3. QED  BY <6>1, <6>2
        <5>5. \A i, j \in 1..Len(queue') : i < j => queue'[i] < queue'[j]
          <6> TAKE i, j \in 1..Len(queue')
          <6> HAVE i < j
          <6>1. i + d \in 1..Len(queue) /\ i + d < j + d /\ queue'[i] = queue[i + d]
            BY <2>0, <5>2, <5>3
          <6>2. queue[i + d] <= sent /\ queue[i + d] \in Int
            BY <2>0, <6>1 DEF QueueInOrder
          <6>3. CASE j + d \in 1..Len(queue)
            BY <5>3, <6>1, <6>3 DEF QueueInOrder
          <6>4. CASE j + d \notin 1..Len(queue)
            BY <2>0, <5>3, <6>1, <6>2, <6>4
          <6>5. QED  BY <6>3, <6>4
        <5>6. QED  BY <5>4, <5>5 DEF QueueInOrder
      <4>2. CASE ~ReaderOpen
        <5>1. UNCHANGED queue
          BY <2>1, <4>2 DEF Write
        <5>2. \A i \in 1..Len(queue) : queue[i] \in Int
          BY <2>0
        <5>3. \A i \in 1..Len(queue) : queue[i] <= sent + 1 /\ queue[i] > cb /\ queue[i] > hooked
          BY <2>0, <5>2 DEF QueueInOrder
        <5>4. QED  BY <3>1, <5>1, <5>3 DEF QueueInOrder
      <4>3. QED  BY <4>1, <4>2
    <3>4. QED  BY <3>2, <3>3
  <2>2. CASE Receive
    <3>1. /\ queue # <<>> /\ cb = 0 /\ cb' = Head(queue) /\ queue' = Tail(queue)
          /\ buf'.data = Head(queue) /\ UNCHANGED <<sent, hooked>>
      BY <2>2 DEF Receive, SetData
    <3>2. /\ Len(queue) >= 1 /\ cb' = queue[1] /\ cb' \in Msg
          /\ Len(queue') = Len(queue) - 1
          /\ \A i \in 1..Len(queue') : queue'[i] = queue[i + 1]
      BY <2>0, <3>1
    <3>3. cb' <= sent /\ cb' > hooked
      BY <2>0, <3>2 DEF QueueInOrder
    <3>4. QueueInOrder'
      <4>1. \A i \in 1..Len(queue') : i + 1 \in 1..Len(queue) /\ 1 < i + 1
        BY <2>0, <3>2
      <4>2. \A i \in 1..Len(queue') : queue'[i] > cb'
        BY <2>0, <3>2, <4>1 DEF QueueInOrder
      <4>3. \A i \in 1..Len(queue') : queue'[i] <= sent /\ queue'[i] > hooked
        BY <3>2, <4>1 DEF QueueInOrder
      <4>4. \A i, j \in 1..Len(queue') : i < j => queue'[i] < queue'[j]
        <5> TAKE i, j \in 1..Len(queue')
        <5> HAVE i < j
        <5>1. i + 1 < j + 1
          BY <2>0, <3>2
        <5>2. QED  BY <3>2, <4>1, <5>1 DEF QueueInOrder
      <4>5. QED  BY <3>1, <4>2, <4>3, <4>4 DEF QueueInOrder
    <3>5. CallbackInBuffer' /\ BufferNotBehindHook'
      BY <2>0, <3>1, <3>2, <3>3 DEF CallbackInBuffer, BufferNotBehindHook
    <3>6. QED  BY <3>4, <3>5
  <2>3. CASE CallHook
    <3>1. cb # 0 /\ hooked' = cb /\ cb' = 0 /\ UNCHANGED <<sent, queue, buf>>
      BY <2>3 DEF CallHook
    <3>2. QueueInOrder'
      BY <2>0, <3>1 DEF QueueInOrder, Msg
    <3>3. CallbackInBuffer' /\ BufferNotBehindHook'
      BY <2>0, <3>1, BoundAssumption
      DEF CallbackInBuffer, BufferNotBehindHook, TypeOK, BoundAssumption
    <3>4. QED  BY <3>2, <3>3
  <2>4. CASE CloseChannel
    BY <2>4 DEF CloseChannel, QueueInOrder, CallbackInBuffer, BufferNotBehindHook
  <2>5. CASE Clear
    BY <2>5 DEF Clear, Cleared, Empty, QueueInOrder, CallbackInBuffer, BufferNotBehindHook
  <2>6. CASE UNCHANGED <<sent, queue, cb, hooked, buf>>
    BY <2>6 DEF QueueInOrder, CallbackInBuffer, BufferNotBehindHook
  <2>7. QED
    BY <2>1, <2>2, <2>3, <2>4, <2>5, <2>6
    DEF Next, vars, Tick, OpenChannel, StartWatchdog, StopWatchdog, Snapshot, FoundFresh,
        FoundStale, Horizon
<1>3. QED  BY <1>1, <1>2, TypeCorrect, PTL DEF Spec

\* A hook never finds the buffer behind the message it was called for.
THEOREM HookSeesBuffer == Spec => []BufferNotBehindHook
BY OrderInvariant, PTL DEF OrderInv

\* The hook is given strictly newer messages, each at most once.
THEOREM HookOrdered == Spec => HookInOrder
<1>1. OrderInv /\ [Next]_vars => [(cb # NoData /\ cb' = NoData) => cb > hooked]_vars
  BY DEF OrderInv, CallbackInBuffer
<1>2. QED  BY <1>1, OrderInvariant, PTL DEF Spec, HookInOrder
=============================================================================
