-------------------------- MODULE LifecycleProofs --------------------------
(***************************************************************************)
(* What holds of Lifecycle for every configuration file and every order of   *)
(* the owner's calls: which of them leave no thread behind, that start()     *)
(* tells the truth, that buffers outlive their pollers, and what it takes to *)
(* reach std::terminate.                                                     *)
(*                                                                         *)
(* The order of each assembly's parts enters through a few facts (sources     *)
(* first, and so on).  An assembly that no function is at work on is either  *)
(* all started, or all stopped, or what an exception has left of it.         *)
(***************************************************************************)
EXTENDS Lifecycle, TLAPS

Used(k) == {StartOrder(k)[i] : i \in DOMAIN StartOrder(k)}

AtWork(s) == job # NoJob /\ job.s = s

CameraPolls == DOMAIN SourceOf \ {"uwbPub"}

\* Of these parts none comes after what it polls.
SourcesAfter(order, polls) ==
    \A i, j \in DOMAIN order :
        (i <= j /\ order[j] \in polls) => SourceOf[order[j]] # order[i]

\* Nothing is left of an earlier start().
Fresh(s) == s \notin running /\ s \notin broken

\* Only the owner of an assembly can start it when it is not fresh.
Startable(s) ==
    /\ s \in running => ~ext /\ Kind(s) \in StartsUnguarded
    /\ s \in broken => ~ext

\* start() has started what is behind it, and of a fresh assembly nothing else.
Starting ==
    job.do = "start" =>
        /\ call = "start" /\ Startable(job.s)
        /\ job.order = StartOrder(Kind(job.s))
        /\ \A i \in DOMAIN job.order : i <= job.done => part[job.s][job.order[i]] # "off"
        /\ Fresh(job.s) =>
              \A i \in DOMAIN job.order : i > job.done => part[job.s][job.order[i]] = "off"
        /\ job.s \in running => AllStarted(job.s)

\* The function still has to come to every part that is not off.
ToCome ==
    \A p \in Parts : part[job.s][p] # "off" =>
        \E i \in DOMAIN job.order : i > job.done /\ job.order[i] = p

PollersToCome ==
    \A p \in CameraPolls : part[job.s][p] # "off" =>
        \E i \in DOMAIN job.order : i > job.done /\ job.order[i] = p

\* So do destructors, stop() and a failing start(); but for what an earlier
\* start() has left.
Stopping ==
    job.do \in {"undo", "stop", "destroy"} =>
        /\ SourcesAfter(job.order, CameraPolls)
        /\ \/ ToCome
           \/ job.do = "undo" /\ ~Fresh(job.s) /\ (job.order = <<>> \/ PollersToCome)
           \/ job.do = "stop" /\ job.order = <<>> /\ ~ext
                 /\ job.s \in broken /\ job.s \notin running
        /\ job.do = "undo" =>
              /\ call = "start" /\ Startable(job.s)
              /\ job.s \in running => job.order = <<>> /\ AllStarted(job.s)
        /\ job.do = "stop" => call = "stop"
        /\ job.do = "destroy" =>
              /\ SourcesAfter(job.order, DOMAIN SourceOf)
              /\ call = "destroy" \/ (ext /\ (job.s \notin running \/ IsUwb(job.s)))

Resting(s) ==
    /\ s \notin held => AllOff(s)
    /\ s \in running => AllStarted(s)
    /\ s \in held \ running => AllOff(s) \/ s \in broken

OthersRest == \A s \in Assembly : AtWork(s) \/ Resting(s)

\* Parts that an assembly does not start.
UnusedOff == \A s \in Assembly : \A p \in Parts \ Used(Kind(s)) : part[s][p] = "off"

\* The decoders run between a start() that returns true and stop() only.
DecodersRun ==
    \A s \in Assembly : \A p \in NoDestructor : part[s][p] # "off" =>
        \/ s \in running
        \/ AtWork(s) /\ job.do = "start"
              /\ \E i \in DOMAIN job.order : i <= job.done /\ job.order[i] = p

\* Of what an exception has left no color encoder runs, and an ExtSensorIoTx/Rx
\* keeps a UWB assembly only.
BrokenOnes ==
    \A s \in broken :
        /\ \/ part[s]["color"] = "off"
           \/ AtWork(s) /\ job.do = "start"
                 /\ \E i \in DOMAIN job.order : i <= job.done /\ job.order[i] = "color"
        /\ ~ext \/ Kind(s) = "uwb_tx" \/ (AtWork(s) /\ job.do = "destroy")

\* Only the threads that read a device end by themselves.
OnlyDevicesDie == \A s \in Assembly : \A p \in Parts \ MayEnd : part[s][p] # "dead"

\* How far the host's loop is.
Progress ==
    /\ job # NoJob => job.s \notin ahead
    /\ ~ext => held \cup ahead \subseteq {<<1, 0>>}
    /\ ext => \A s \in held \cup ahead : s[2] <= starts
    /\ call \in {"none", "unwind", "destroy"} => ahead = {}
    /\ call = "start" =>
          /\ ~hostUp
          /\ \A s \in held \ ahead :
                \/ AtWork(s) \/ s \in running
                \/ ext /\ IsUwb(s) /\ \E t \in ahead : IsUwb(t)
          /\ \A s \in ahead : Startable(s) /\ (ext => s \notin held)
    /\ call = "stop" =>
          /\ ahead \subseteq held
          /\ \A s \in held \ ahead : AtWork(s) \/ s \notin running
    /\ call = "unwind" => ~hostUp
    /\ call \in {"none", "unwind"} /\ ext /\ ~hostUp =>
          \A s \in held : AtWork(s) \/ s \in running \/ IsUwb(s)
    /\ call = "none" =>
          /\ job = NoJob
          /\ hostUp => ext /\ held # {} /\ running = held
          /\ ext /\ ~hostUp /\ ret # "thrown" => held = {}
          /\ ret = "true" => held # {} /\ running = held
          /\ ret \in {"none", "stopped", "destroyed"} => running = {}
          /\ ret = "destroyed" => held = {}
          /\ ret = "false" => \A s \in running : ~ext /\ Kind(s) \in StartsUnguarded

LifeInv ==
    /\ Starting
    /\ Stopping
    /\ CameraSourcesRun
    /\ OthersRest
    /\ UnusedOff
    /\ DecodersRun
    /\ BrokenOnes
    /\ OnlyDevicesDie
    /\ Progress
    /\ OnlyMisuseTerminates
-----------------------------------------------------------------------------
\* The orders.

\* What the table of StartOrder says, row by row.
LEMMA StartTable ==
    /\ StartOrder("realsense_tx") = <<"capture", "depth", "color">>
    /\ StartOrder("depth_tx") = <<"capture", "depth">>
    /\ StartOrder("mic_tx") = <<"audio">>
    /\ StartOrder("uwb_tx") = <<"uwbPub", "serial">>
    /\ StartOrder("realsense_rx") = <<"colorSub", "depthSub", "colorDec", "depthDec">>
    /\ StartOrder("uwb_rx") = <<"uwbSub">>
    /\ StartOrder("mic_rx") = <<"audioSub">>
  BY DEF StartOrder

\* What that of StopOrder says, with the rows it takes from StartOrder.
LEMMA StopTable ==
    /\ StopOrder("realsense_tx") = <<"color", "depth", "capture">>
    /\ StopOrder("depth_tx") = <<"color", "depth", "capture">>
    /\ StopOrder("mic_tx") = <<"audio">>
    /\ StopOrder("uwb_tx") = <<"serial", "uwbPub">>
    /\ StopOrder("realsense_rx") = <<"colorDec", "depthDec", "colorSub", "depthSub">>
    /\ StopOrder("uwb_rx") = <<"uwbSub">>
    /\ StopOrder("mic_rx") = <<"audioSub">>
  BY StartTable DEF StopOrder

\* What that of DestroyOrder says.
LEMMA DestroyTable ==
    /\ DestroyOrder("realsense_tx") = <<"depth", "color", "capture">>
    /\ DestroyOrder("depth_tx") = <<"depth", "color", "capture">>
    /\ DestroyOrder("mic_tx") = <<"audio">>
    /\ DestroyOrder("uwb_tx") = <<"uwbPub", "serial">>
    /\ DestroyOrder("realsense_rx") = <<"depthDec", "colorDec", "depthSub", "colorSub">>
    /\ DestroyOrder("uwb_rx") = <<"uwbSub">>
    /\ DestroyOrder("mic_rx") = <<"audioSub">>
  BY StartTable DEF DestroyOrder

\* What that of Rollback says.
LEMMA RollbackTable ==
    \A k :
        /\ Rollback(k, "depth") = <<"capture">>
        /\ Rollback(k, "color") = <<"depth", "capture">>
        /\ Rollback(k, "depthSub") = <<"colorSub">>
        /\ \A p : p # "depth" /\ p # "color" /\ p # "depthSub" => Rollback(k, p) = <<>>
  BY DEF Rollback

\* The kinds, one by one, for proofs by cases.
LEMMA EveryKind ==
    Kinds = {"realsense_tx", "depth_tx", "mic_tx", "uwb_tx", "realsense_rx", "uwb_rx", "mic_rx"}
  BY DEF Kinds, Tx, Rx

\* No part is in a start order twice.
LEMMA StartsOnce ==
    ASSUME NEW k \in Kinds
    PROVE  /\ StartOrder(k) \in Seq(Parts)
           /\ \A i, j \in DOMAIN StartOrder(k) : StartOrder(k)[i] = StartOrder(k)[j] => i = j
  <1>1. CASE k = "realsense_tx"
    <2>1. StartOrder(k) = <<"capture", "depth", "color">>  BY <1>1, StartTable
    <2>2. QED  BY <2>1 DEF Parts
  <1>2. CASE k = "depth_tx"
    <2>1. StartOrder(k) = <<"capture", "depth">>  BY <1>2, StartTable
    <2>2. QED  BY <2>1 DEF Parts
  <1>3. CASE k = "uwb_tx"
    <2>1. StartOrder(k) = <<"uwbPub", "serial">>  BY <1>3, StartTable
    <2>2. QED  BY <2>1 DEF Parts
  <1>4. CASE k = "realsense_rx"
    <2>1. StartOrder(k) = <<"colorSub", "depthSub", "colorDec", "depthDec">>  BY <1>4, StartTable
    <2>2. QED  BY <2>1 DEF Parts
  <1>5. CASE k = "mic_tx"
    <2>1. StartOrder(k) = <<"audio">>  BY <1>5, StartTable
    <2>2. QED  BY <2>1 DEF Parts
  <1>6. CASE k = "uwb_rx"
    <2>1. StartOrder(k) = <<"uwbSub">>  BY <1>6, StartTable
    <2>2. QED  BY <2>1 DEF Parts
  <1>7. CASE k = "mic_rx"
    <2>1. StartOrder(k) = <<"audioSub">>  BY <1>7, StartTable
    <2>2. QED  BY <2>1 DEF Parts
  <1>8. QED  BY <1>1, <1>2, <1>3, <1>4, <1>5, <1>6, <1>7, EveryKind

\* A camera's sources start first.
LEMMA StartsSourceFirst ==
    ASSUME NEW k \in Kinds, NEW j \in DOMAIN StartOrder(k),
           StartOrder(k)[j] \in CameraPolls
    PROVE  \E i \in DOMAIN StartOrder(k) :
              i < j /\ StartOrder(k)[i] = SourceOf[StartOrder(k)[j]]
  <1>1. CASE k = "realsense_tx"
    <2>1. StartOrder(k) = <<"capture", "depth", "color">>  BY <1>1, StartTable
    <2>2. QED  BY <2>1 DEF SourceOf, CameraPolls
  <1>2. CASE k = "depth_tx"
    <2>1. StartOrder(k) = <<"capture", "depth">>  BY <1>2, StartTable
    <2>2. QED  BY <2>1 DEF SourceOf, CameraPolls
  <1>3. CASE k = "uwb_tx"
    <2>1. StartOrder(k) = <<"uwbPub", "serial">>  BY <1>3, StartTable
    <2>2. QED  BY <2>1 DEF SourceOf, CameraPolls
  <1>4. CASE k = "realsense_rx"
    <2>1. StartOrder(k) = <<"colorSub", "depthSub", "colorDec", "depthDec">>  BY <1>4, StartTable
    <2>2. QED  BY <2>1 DEF SourceOf, CameraPolls
  <1>5. CASE k = "mic_tx"
    <2>1. StartOrder(k) = <<"audio">>  BY <1>5, StartTable
    <2>2. QED  BY <2>1 DEF SourceOf, CameraPolls
  <1>6. CASE k = "uwb_rx"
    <2>1. StartOrder(k) = <<"uwbSub">>  BY <1>6, StartTable
    <2>2. QED  BY <2>1 DEF SourceOf, CameraPolls
  <1>7. CASE k = "mic_rx"
    <2>1. StartOrder(k) = <<"audioSub">>  BY <1>7, StartTable
    <2>2. QED  BY <2>1 DEF SourceOf, CameraPolls
  <1>8. QED  BY <1>1, <1>2, <1>3, <1>4, <1>5, <1>6, <1>7, EveryKind

\* stop() comes to every part that start() may have started, to a camera's
\* source after what polls it.
LEMMA StopsEverything ==
    ASSUME NEW k \in Kinds
    PROVE  /\ StopOrder(k) \in Seq(Parts)
           /\ \A p \in Used(k) : \E i \in DOMAIN StopOrder(k) : StopOrder(k)[i] = p
           /\ SourcesAfter(StopOrder(k), CameraPolls)
  <1>1. CASE k = "realsense_tx"
    <2>1. StartOrder(k) = <<"capture", "depth", "color">>  BY <1>1, StartTable
    <2>2. StopOrder(k) = <<"color", "depth", "capture">>  BY <1>1, StopTable
    <2>3. \A p \in Used(k) : \E i \in DOMAIN StopOrder(k) : StopOrder(k)[i] = p
      BY <2>1, <2>2 DEF Used
    <2>4. SourcesAfter(StopOrder(k), CameraPolls)  BY <2>2 DEF SourceOf, SourcesAfter, CameraPolls
    <2>5. QED  BY <2>2, <2>3, <2>4 DEF Parts
  <1>2. CASE k = "depth_tx"
    <2>1. StartOrder(k) = <<"capture", "depth">>  BY <1>2, StartTable
    <2>2. StopOrder(k) = <<"color", "depth", "capture">>  BY <1>2, StopTable
    <2>3. \A p \in Used(k) : \E i \in DOMAIN StopOrder(k) : StopOrder(k)[i] = p
      BY <2>1, <2>2 DEF Used
    <2>4. SourcesAfter(StopOrder(k), CameraPolls)  BY <2>2 DEF SourceOf, SourcesAfter, CameraPolls
    <2>5. QED  BY <2>2, <2>3, <2>4 DEF Parts
  <1>3. CASE k = "uwb_tx"
    <2>1. StartOrder(k) = <<"uwbPub", "serial">>  BY <1>3, StartTable
    <2>2. StopOrder(k) = <<"serial", "uwbPub">>  BY <1>3, StopTable
    <2>3. \A p \in Used(k) : \E i \in DOMAIN StopOrder(k) : StopOrder(k)[i] = p
      BY <2>1, <2>2 DEF Used
    <2>4. SourcesAfter(StopOrder(k), CameraPolls)  BY <2>2 DEF SourceOf, SourcesAfter, CameraPolls
    <2>5. QED  BY <2>2, <2>3, <2>4 DEF Parts
  <1>4. CASE k = "realsense_rx"
    <2>1. StartOrder(k) = <<"colorSub", "depthSub", "colorDec", "depthDec">>  BY <1>4, StartTable
    <2>2. StopOrder(k) = <<"colorDec", "depthDec", "colorSub", "depthSub">>  BY <1>4, StopTable
    <2>3. \A p \in Used(k) : \E i \in DOMAIN StopOrder(k) : StopOrder(k)[i] = p
      BY <2>1, <2>2 DEF Used
    <2>4. SourcesAfter(StopOrder(k), CameraPolls)  BY <2>2 DEF SourceOf, SourcesAfter, CameraPolls
    <2>5. QED  BY <2>2, <2>3, <2>4 DEF Parts
  <1>5. CASE k = "mic_tx"
    <2>1. StartOrder(k) = <<"audio">>  BY <1>5, StartTable
    <2>2. StopOrder(k) = <<"audio">>  BY <1>5, StopTable
    <2>3. \A p \in Used(k) : \E i \in DOMAIN StopOrder(k) : StopOrder(k)[i] = p
      BY <2>1, <2>2 DEF Used
    <2>4. SourcesAfter(StopOrder(k), CameraPolls)  BY <2>2 DEF SourceOf, SourcesAfter, CameraPolls
    <2>5. QED  BY <2>2, <2>3, <2>4 DEF Parts
  <1>6. CASE k = "uwb_rx"
    <2>1. StartOrder(k) = <<"uwbSub">>  BY <1>6, StartTable
    <2>2. StopOrder(k) = <<"uwbSub">>  BY <1>6, StopTable
    <2>3. \A p \in Used(k) : \E i \in DOMAIN StopOrder(k) : StopOrder(k)[i] = p
      BY <2>1, <2>2 DEF Used
    <2>4. SourcesAfter(StopOrder(k), CameraPolls)  BY <2>2 DEF SourceOf, SourcesAfter, CameraPolls
    <2>5. QED  BY <2>2, <2>3, <2>4 DEF Parts
  <1>7. CASE k = "mic_rx"
    <2>1. StartOrder(k) = <<"audioSub">>  BY <1>7, StartTable
    <2>2. StopOrder(k) = <<"audioSub">>  BY <1>7, StopTable
    <2>3. \A p \in Used(k) : \E i \in DOMAIN StopOrder(k) : StopOrder(k)[i] = p
      BY <2>1, <2>2 DEF Used
    <2>4. SourcesAfter(StopOrder(k), CameraPolls)  BY <2>2 DEF SourceOf, SourcesAfter, CameraPolls
    <2>5. QED  BY <2>2, <2>3, <2>4 DEF Parts
  <1>8. QED  BY <1>1, <1>2, <1>3, <1>4, <1>5, <1>6, <1>7, EveryKind

\* So does destruction, for the UWB side as well.
LEMMA DestroysEverything ==
    ASSUME NEW k \in Kinds
    PROVE  /\ DestroyOrder(k) \in Seq(Parts)
           /\ \A p \in Used(k) : \E i \in DOMAIN DestroyOrder(k) : DestroyOrder(k)[i] = p
           /\ SourcesAfter(DestroyOrder(k), DOMAIN SourceOf)
  <1>1. CASE k = "realsense_tx"
    <2>1. StartOrder(k) = <<"capture", "depth", "color">>  BY <1>1, StartTable
    <2>2. DestroyOrder(k) = <<"depth", "color", "capture">>  BY <1>1, DestroyTable
    <2>3. \A p \in Used(k) : \E i \in DOMAIN DestroyOrder(k) : DestroyOrder(k)[i] = p
      BY <2>1, <2>2 DEF Used
    <2>4. SourcesAfter(DestroyOrder(k), DOMAIN SourceOf)  BY <2>2 DEF SourceOf, SourcesAfter
    <2>5. QED  BY <2>2, <2>3, <2>4 DEF Parts
  <1>2. CASE k = "depth_tx"
    <2>1. StartOrder(k) = <<"capture", "depth">>  BY <1>2, StartTable
    <2>2. DestroyOrder(k) = <<"depth", "color", "capture">>  BY <1>2, DestroyTable
    <2>3. \A p \in Used(k) : \E i \in DOMAIN DestroyOrder(k) : DestroyOrder(k)[i] = p
      BY <2>1, <2>2 DEF Used
    <2>4. SourcesAfter(DestroyOrder(k), DOMAIN SourceOf)  BY <2>2 DEF SourceOf, SourcesAfter
    <2>5. QED  BY <2>2, <2>3, <2>4 DEF Parts
  <1>3. CASE k = "uwb_tx"
    <2>1. StartOrder(k) = <<"uwbPub", "serial">>  BY <1>3, StartTable
    <2>2. DestroyOrder(k) = <<"uwbPub", "serial">>  BY <1>3, DestroyTable
    <2>3. \A p \in Used(k) : \E i \in DOMAIN DestroyOrder(k) : DestroyOrder(k)[i] = p
      BY <2>1, <2>2 DEF Used
    <2>4. SourcesAfter(DestroyOrder(k), DOMAIN SourceOf)  BY <2>2 DEF SourceOf, SourcesAfter
    <2>5. QED  BY <2>2, <2>3, <2>4 DEF Parts
  <1>4. CASE k = "realsense_rx"
    <2>1. StartOrder(k) = <<"colorSub", "depthSub", "colorDec", "depthDec">>  BY <1>4, StartTable
    <2>2. DestroyOrder(k) = <<"depthDec", "colorDec", "depthSub", "colorSub">>  BY <1>4, DestroyTable
    <2>3. \A p \in Used(k) : \E i \in DOMAIN DestroyOrder(k) : DestroyOrder(k)[i] = p
      BY <2>1, <2>2 DEF Used
    <2>4. SourcesAfter(DestroyOrder(k), DOMAIN SourceOf)  BY <2>2 DEF SourceOf, SourcesAfter
    <2>5. QED  BY <2>2, <2>3, <2>4 DEF Parts
  <1>5. CASE k = "mic_tx"
    <2>1. StartOrder(k) = <<"audio">>  BY <1>5, StartTable
    <2>2. DestroyOrder(k) = <<"audio">>  BY <1>5, DestroyTable
    <2>3. \A p \in Used(k) : \E i \in DOMAIN DestroyOrder(k) : DestroyOrder(k)[i] = p
      BY <2>1, <2>2 DEF Used
    <2>4. SourcesAfter(DestroyOrder(k), DOMAIN SourceOf)  BY <2>2 DEF SourceOf, SourcesAfter
    <2>5. QED  BY <2>2, <2>3, <2>4 DEF Parts
  <1>6. CASE k = "uwb_rx"
    <2>1. StartOrder(k) = <<"uwbSub">>  BY <1>6, StartTable
    <2>2. DestroyOrder(k) = <<"uwbSub">>  BY <1>6, DestroyTable
    <2>3. \A p \in Used(k) : \E i \in DOMAIN DestroyOrder(k) : DestroyOrder(k)[i] = p
      BY <2>1, <2>2 DEF Used
    <2>4. SourcesAfter(DestroyOrder(k), DOMAIN SourceOf)  BY <2>2 DEF SourceOf, SourcesAfter
    <2>5. QED  BY <2>2, <2>3, <2>4 DEF Parts
  <1>7. CASE k = "mic_rx"
    <2>1. StartOrder(k) = <<"audioSub">>  BY <1>7, StartTable
    <2>2. DestroyOrder(k) = <<"audioSub">>  BY <1>7, DestroyTable
    <2>3. \A p \in Used(k) : \E i \in DOMAIN DestroyOrder(k) : DestroyOrder(k)[i] = p
      BY <2>1, <2>2 DEF Used
    <2>4. SourcesAfter(DestroyOrder(k), DOMAIN SourceOf)  BY <2>2 DEF SourceOf, SourcesAfter
    <2>5. QED  BY <2>2, <2>3, <2>4 DEF Parts
  <1>8. QED  BY <1>1, <1>2, <1>3, <1>4, <1>5, <1>6, <1>7, EveryKind

\* What a failing start() undoes: parts, a source after what polls it.
LEMMA UndoIsOrder ==
    ASSUME NEW k, NEW p
    PROVE  Rollback(k, p) \in Seq(Parts) /\ SourcesAfter(Rollback(k, p), CameraPolls)
  <1>1. PICK undo : undo = Rollback(k, p)  OBVIOUS
  <1>2. \/ undo = <<"capture">> \/ undo = <<"depth", "capture">>
        \/ undo = <<"colorSub">> \/ undo = <<>>
    BY <1>1, RollbackTable
  <1>3. undo \in Seq(Parts)
    <2>1. <<"capture">> \in Seq(Parts) /\ <<"depth", "capture">> \in Seq(Parts)  BY DEF Parts
    <2>2. <<"colorSub">> \in Seq(Parts) /\ <<>> \in Seq(Parts)  BY DEF Parts
    <2>3. QED  BY <1>2, <2>1, <2>2, Zenon
  <1>4. SourcesAfter(undo, CameraPolls)  BY <1>2 DEF SourceOf, SourcesAfter, CameraPolls
  <1>5. QED  BY <1>1, <1>3, <1>4

\* A start() that fails undoes what it has started.
LEMMA UndoesEverything ==
    ASSUME NEW k \in Kinds, NEW j \in DOMAIN StartOrder(k), StartOrder(k)[j] \in MayRefuse,
           NEW undo, undo = Rollback(k, StartOrder(k)[j])
    PROVE  \A i \in DOMAIN StartOrder(k) : i < j =>
              \E m \in DOMAIN undo : undo[m] = StartOrder(k)[i]
  <1>1. CASE k = "realsense_tx"
    <2>1. StartOrder(k) = <<"capture", "depth", "color">>  BY <1>1, StartTable
    <2>2. QED  BY <2>1, RollbackTable DEF MayRefuse
  <1>2. CASE k = "depth_tx"
    <2>1. StartOrder(k) = <<"capture", "depth">>  BY <1>2, StartTable
    <2>2. QED  BY <2>1, RollbackTable DEF MayRefuse
  <1>3. CASE k = "uwb_tx"
    <2>1. StartOrder(k) = <<"uwbPub", "serial">>  BY <1>3, StartTable
    <2>2. QED  BY <2>1, RollbackTable DEF MayRefuse
  <1>4. CASE k = "realsense_rx"
    <2>1. StartOrder(k) = <<"colorSub", "depthSub", "colorDec", "depthDec">>  BY <1>4, StartTable
    <2>2. QED  BY <2>1, RollbackTable DEF MayRefuse
  <1>5. CASE k = "mic_tx"
    <2>1. StartOrder(k) = <<"audio">>  BY <1>5, StartTable
    <2>2. QED  BY <2>1, RollbackTable DEF MayRefuse
  <1>6. CASE k = "uwb_rx"
    <2>1. StartOrder(k) = <<"uwbSub">>  BY <1>6, StartTable
    <2>2. QED  BY <2>1, RollbackTable DEF MayRefuse
  <1>7. CASE k = "mic_rx"
    <2>1. StartOrder(k) = <<"audioSub">>  BY <1>7, StartTable
    <2>2. QED  BY <2>1, RollbackTable DEF MayRefuse
  <1>8. QED  BY <1>1, <1>2, <1>3, <1>4, <1>5, <1>6, <1>7, EveryKind

\* What may refuse or throw comes before the decoders.
LEMMA DecodersLast ==
    ASSUME NEW k \in Kinds, NEW j \in DOMAIN StartOrder(k),
           StartOrder(k)[j] \in MayRefuse \cup MayThrow
    PROVE  \A i \in DOMAIN StartOrder(k) : i < j => StartOrder(k)[i] \notin NoDestructor
  <1>1. CASE k = "realsense_tx"
    <2>1. StartOrder(k) = <<"capture", "depth", "color">>  BY <1>1, StartTable
    <2>2. QED  BY <2>1 DEF MayRefuse, MayThrow, NoDestructor
  <1>2. CASE k = "depth_tx"
    <2>1. StartOrder(k) = <<"capture", "depth">>  BY <1>2, StartTable
    <2>2. QED  BY <2>1 DEF MayRefuse, MayThrow, NoDestructor
  <1>3. CASE k = "uwb_tx"
    <2>1. StartOrder(k) = <<"uwbPub", "serial">>  BY <1>3, StartTable
    <2>2. QED  BY <2>1 DEF MayRefuse, MayThrow, NoDestructor
  <1>4. CASE k = "realsense_rx"
    <2>1. StartOrder(k) = <<"colorSub", "depthSub", "colorDec", "depthDec">>  BY <1>4, StartTable
    <2>2. QED  BY <2>1 DEF MayRefuse, MayThrow, NoDestructor
  <1>5. CASE k = "mic_tx"
    <2>1. StartOrder(k) = <<"audio">>  BY <1>5, StartTable
    <2>2. QED  BY <2>1 DEF MayRefuse, MayThrow, NoDestructor
  <1>6. CASE k = "uwb_rx"
    <2>1. StartOrder(k) = <<"uwbSub">>  BY <1>6, StartTable
    <2>2. QED  BY <2>1 DEF MayRefuse, MayThrow, NoDestructor
  <1>7. CASE k = "mic_rx"
    <2>1. StartOrder(k) = <<"audioSub">>  BY <1>7, StartTable
    <2>2. QED  BY <2>1 DEF MayRefuse, MayThrow, NoDestructor
  <1>8. QED  BY <1>1, <1>2, <1>3, <1>4, <1>5, <1>6, <1>7, EveryKind

\* Only one kind has decoders.
LEMMA DecodersOfReceiver ==
    ASSUME NEW k \in Kinds, NEW i \in DOMAIN StartOrder(k),
           StartOrder(k)[i] \in NoDestructor
    PROVE  k = "realsense_rx"
  <1>1. CASE k = "realsense_tx"
    <2>1. StartOrder(k) = <<"capture", "depth", "color">>  BY <1>1, StartTable
    <2>2. QED  BY <2>1, <1>1 DEF NoDestructor
  <1>2. CASE k = "depth_tx"
    <2>1. StartOrder(k) = <<"capture", "depth">>  BY <1>2, StartTable
    <2>2. QED  BY <2>1, <1>2 DEF NoDestructor
  <1>3. CASE k = "uwb_tx"
    <2>1. StartOrder(k) = <<"uwbPub", "serial">>  BY <1>3, StartTable
    <2>2. QED  BY <2>1, <1>3 DEF NoDestructor
  <1>4. CASE k = "realsense_rx"
    <2>1. StartOrder(k) = <<"colorSub", "depthSub", "colorDec", "depthDec">>  BY <1>4, StartTable
    <2>2. QED  BY <2>1, <1>4 DEF NoDestructor
  <1>5. CASE k = "mic_tx"
    <2>1. StartOrder(k) = <<"audio">>  BY <1>5, StartTable
    <2>2. QED  BY <2>1, <1>5 DEF NoDestructor
  <1>6. CASE k = "uwb_rx"
    <2>1. StartOrder(k) = <<"uwbSub">>  BY <1>6, StartTable
    <2>2. QED  BY <2>1, <1>6 DEF NoDestructor
  <1>7. CASE k = "mic_rx"
    <2>1. StartOrder(k) = <<"audioSub">>  BY <1>7, StartTable
    <2>2. QED  BY <2>1, <1>7 DEF NoDestructor
  <1>8. QED  BY <1>1, <1>2, <1>3, <1>4, <1>5, <1>6, <1>7, EveryKind

\* The color encoder is the last part of the assembly that has one.
LEMMA ColorLast ==
    ASSUME NEW k \in Kinds, NEW j \in DOMAIN StartOrder(k), StartOrder(k)[j] = "color"
    PROVE  j = Len(StartOrder(k))
  <1>1. CASE k = "realsense_tx"
    <2>1. StartOrder(k) = <<"capture", "depth", "color">>  BY <1>1, StartTable
    <2>2. QED  BY <2>1
  <1>2. CASE k = "depth_tx"
    <2>1. StartOrder(k) = <<"capture", "depth">>  BY <1>2, StartTable
    <2>2. QED  BY <2>1
  <1>3. CASE k = "uwb_tx"
    <2>1. StartOrder(k) = <<"uwbPub", "serial">>  BY <1>3, StartTable
    <2>2. QED  BY <2>1
  <1>4. CASE k = "realsense_rx"
    <2>1. StartOrder(k) = <<"colorSub", "depthSub", "colorDec", "depthDec">>  BY <1>4, StartTable
    <2>2. QED  BY <2>1
  <1>5. CASE k = "mic_tx"
    <2>1. StartOrder(k) = <<"audio">>  BY <1>5, StartTable
    <2>2. QED  BY <2>1
  <1>6. CASE k = "uwb_rx"
    <2>1. StartOrder(k) = <<"uwbSub">>  BY <1>6, StartTable
    <2>2. QED  BY <2>1
  <1>7. CASE k = "mic_rx"
    <2>1. StartOrder(k) = <<"audioSub">>  BY <1>7, StartTable
    <2>2. QED  BY <2>1
  <1>8. QED  BY <1>1, <1>2, <1>3, <1>4, <1>5, <1>6, <1>7, EveryKind

\* What comes before the depth publisher undoes nothing when it refuses.
LEMMA BeforeDepth ==
    ASSUME NEW k \in Kinds, NEW j \in DOMAIN StartOrder(k), NEW i \in DOMAIN StartOrder(k),
           j < i, StartOrder(k)[i] = "depth"
    PROVE  Rollback(k, StartOrder(k)[j]) = <<>>
  <1>0. SUFFICES StartOrder(k)[j] = "capture"  BY RollbackTable
  <1>1. CASE k = "realsense_tx"
    <2>1. StartOrder(k) = <<"capture", "depth", "color">>  BY <1>1, StartTable
    <2>2. QED  BY <2>1
  <1>2. CASE k = "depth_tx"
    <2>1. StartOrder(k) = <<"capture", "depth">>  BY <1>2, StartTable
    <2>2. QED  BY <2>1
  <1>3. CASE k = "uwb_tx"
    <2>1. StartOrder(k) = <<"uwbPub", "serial">>  BY <1>3, StartTable
    <2>2. QED  BY <2>1
  <1>4. CASE k = "realsense_rx"
    <2>1. StartOrder(k) = <<"colorSub", "depthSub", "colorDec", "depthDec">>  BY <1>4, StartTable
    <2>2. QED  BY <2>1
  <1>5. CASE k = "mic_tx"
    <2>1. StartOrder(k) = <<"audio">>  BY <1>5, StartTable
    <2>2. QED  BY <2>1
  <1>6. CASE k = "uwb_rx"
    <2>1. StartOrder(k) = <<"uwbSub">>  BY <1>6, StartTable
    <2>2. QED  BY <2>1
  <1>7. CASE k = "mic_rx"
    <2>1. StartOrder(k) = <<"audioSub">>  BY <1>7, StartTable
    <2>2. QED  BY <2>1
  <1>8. QED  BY <1>1, <1>2, <1>3, <1>4, <1>5, <1>6, <1>7, EveryKind

\* A UwbTransmitter's start() undoes nothing.
LEMMA UwbUndoesNothing ==
    ASSUME NEW k \in StartsUnguarded, NEW j \in DOMAIN StartOrder(k),
           StartOrder(k)[j] \in MayRefuse
    PROVE  Rollback(k, StartOrder(k)[j]) = <<>>
  <1>1. StartOrder(k) = <<"uwbPub", "serial">>  BY StartTable DEF StartsUnguarded
  <1>2. StartOrder(k)[j] = "uwbPub" \/ StartOrder(k)[j] = "serial"  BY <1>1
  <1>3. QED  BY <1>2, RollbackTable

-----------------------------------------------------------------------------
\* The machine.

\* An assembly without a machine has an empty file.
LEMMA NothingConfigured == NoFile \in ConfigFile
  <1>1. ASSUME NEW Entry, NEW bound \in Nat
        PROVE  <<>> \in Lists(Entry, bound)
    <2>1. <<>> \in [1..0 -> Entry]  OBVIOUS
    <2>2. 0 \in 0..bound  OBVIOUS
    <2>3. QED  BY <2>1, <2>2 DEF Lists
  <1>2. QED  BY <1>1, ConfigAssumption DEF NoFile, ConfigFile

\* A list is as long as its bound allows.
LEMMA KeptInBounds ==
    ASSUME NEW Entry, NEW bound \in Nat, NEW list \in Lists(Entry, bound)
    PROVE  DOMAIN list \subseteq 1..bound
  <1>1. PICK n \in 0..bound : list \in [1..n -> Entry]  BY DEF Lists
  <1>2. QED  BY <1>1

\* Both sides find the same sensors under the same names.
LEMMA SidesAgree ==
    ASSUME NEW root \in ConfigFile
    PROVE  /\ DOMAIN RunTx(root) = DOMAIN RunRx(root)
           /\ \A s \in DOMAIN RunTx(root) :
                 /\ RunTx(root)[s].kind \in Tx /\ RunRx(root)[s].kind \in Rx
                 /\ RunRx(root)[s] = [kind |-> PeerOf[RunTx(root)[s].kind],
                                      name |-> RunTx(root)[s].name]
                 /\ RunTx(root)[s] = [kind |-> PeerOf[RunRx(root)[s].kind],
                                      name |-> RunRx(root)[s].name]
  <1> DEFINE cameras == CameraNamesFromYaml(root)
             mics == MicNamesFromYaml(root)
             where == {n \in {0} : UwbEnabled(root)} \cup DOMAIN cameras
                          \cup {MaxCameras + i : i \in DOMAIN mics}
  <1>1. Names(CamerasFromYaml(root)) = cameras /\ Names(MicsFromYaml(root)) = mics
    BY DEF CamerasFromYaml, CameraNamesFromYaml, MicNamesFromYaml
  <1>2. /\ DOMAIN cameras \subseteq 1..MaxCameras
        /\ DOMAIN mics \subseteq 1..MaxMics
    BY KeptInBounds, ConfigAssumption
       DEF CameraNamesFromYaml, MicNamesFromYaml, MicsFromYaml, Names, Kept, ConfigFile
  <1>3. \A s \in where : s = 0 \/ s \in 1..MaxCameras \/ (s > MaxCameras /\ s - MaxCameras \in DOMAIN mics)
    BY <1>2, ConfigAssumption
  <1> HIDE DEF cameras, mics
  <1>4. /\ RunTx(root) = Sensors(TxKinds, UwbEnabled(root), cameras, mics)
        /\ RunRx(root) = Sensors(RxKinds, UwbEnabled(root), cameras, mics)
    BY <1>1 DEF RunTx, RunRx, cameras, mics
  <1>5. ASSUME NEW kinds
        PROVE  /\ DOMAIN Sensors(kinds, UwbEnabled(root), cameras, mics) = where
               /\ \A s \in where :
                    Sensors(kinds, UwbEnabled(root), cameras, mics)[s] =
                      CASE s = 0 -> [kind |-> kinds.uwb, name |-> NoName]
                        [] s \in 1..MaxCameras -> [kind |-> kinds.camera, name |-> cameras[s]]
                        [] s > MaxCameras -> [kind |-> kinds.mic, name |-> mics[s - MaxCameras]]
    BY DEF Sensors
  <1> HIDE DEF where
  <1>6. DOMAIN RunTx(root) = where /\ DOMAIN RunRx(root) = where
    BY <1>4, <1>5
  <1>7. SUFFICES ASSUME NEW s \in where
                 PROVE  /\ RunTx(root)[s].kind \in Tx /\ RunRx(root)[s].kind \in Rx
                        /\ RunRx(root)[s] = [kind |-> PeerOf[RunTx(root)[s].kind],
                                             name |-> RunTx(root)[s].name]
                        /\ RunTx(root)[s] = [kind |-> PeerOf[RunRx(root)[s].kind],
                                             name |-> RunRx(root)[s].name]
    BY <1>6
  <1>8. PICK name :
          \/ /\ RunTx(root)[s] = [kind |-> "uwb_tx", name |-> name]
             /\ RunRx(root)[s] = [kind |-> "uwb_rx", name |-> name]
          \/ /\ RunTx(root)[s] = [kind |-> "realsense_tx", name |-> name]
             /\ RunRx(root)[s] = [kind |-> "realsense_rx", name |-> name]
          \/ /\ RunTx(root)[s] = [kind |-> "mic_tx", name |-> name]
             /\ RunRx(root)[s] = [kind |-> "mic_rx", name |-> name]
    <2>1. CASE s = 0
      <3>1. s \notin 1..MaxCameras /\ ~(s > MaxCameras)  BY <2>1, ConfigAssumption
      <3>2. /\ RunTx(root)[s] = [kind |-> "uwb_tx", name |-> NoName]
            /\ RunRx(root)[s] = [kind |-> "uwb_rx", name |-> NoName]
        BY <2>1, <3>1, <1>4, <1>5 DEF TxKinds, RxKinds
      <3>3. QED  BY <3>2
    <2>2. CASE s # 0 /\ s \in 1..MaxCameras
      <3>1. ~(s > MaxCameras)  BY <2>2, ConfigAssumption
      <3>2. /\ RunTx(root)[s] = [kind |-> "realsense_tx", name |-> cameras[s]]
            /\ RunRx(root)[s] = [kind |-> "realsense_rx", name |-> cameras[s]]
        BY <2>2, <3>1, <1>4, <1>5 DEF TxKinds, RxKinds
      <3>3. QED  BY <3>2
    <2>3. CASE s # 0 /\ s \notin 1..MaxCameras /\ s > MaxCameras
      BY <2>3, <1>4, <1>5 DEF TxKinds, RxKinds
    <2>4. QED  BY <2>1, <2>2, <2>3, <1>3
  <1>9. QED  BY <1>8 DEF PeerOf, Tx, Rx

-----------------------------------------------------------------------------
\* Types.

\* The fields of a job, whose operator is a record.
LEMMA JobFields ==
    ASSUME NEW do, NEW s, NEW order
    PROVE  /\ Job(do, s, order).do = do /\ Job(do, s, order).s = s
           /\ Job(do, s, order).order = order /\ Job(do, s, order).done = 0
  BY DEF Job

\* What going on to the next part changes in a job.
LEMMA NextPartFields ==
    ASSUME TypeOK, job # NoJob, NextPart
    PROVE  /\ job'.do = job.do /\ job'.s = job.s /\ job'.order = job.order
           /\ job'.done = job.done + 1
  BY DEF TypeOK, NextPart

\* What the steps have in common.
LEMMA InJob ==
    ASSUME TypeOK, NEW what \in SUBSET {"start", "undo", "stop", "destroy"}, In(what)
    PROVE  /\ job # NoJob /\ job.do \in what /\ call # "none" /\ ~terminated
           /\ job.s \in held /\ job.s \in Assembly /\ Kind(job.s) \in Kinds
           /\ job.order \in Seq(Parts) /\ job.done \in 0..Len(job.order)
           /\ PartsLeft => job.done + 1 \in DOMAIN job.order /\ ThePart \in Parts
  <1>1. NoJob.do \notin what  BY JobFields DEF NoJob
  <1>2. job # NoJob /\ job.do \in what /\ ~terminated  BY <1>1 DEF In
  <1>3. QED  BY <1>2 DEF TypeOK, PartsLeft, ThePart

\* A job that goes on to its next part remains a job.
LEMMA NextKeepsJob ==
    ASSUME TypeOK, NEW what \in SUBSET {"start", "undo", "stop", "destroy"}, In(what),
           PartsLeft, NextPart, UNCHANGED <<held, call>>
    PROVE  /\ job' \in [do : {"start", "undo", "stop", "destroy"}, s : held',
                        order : Seq(Parts), done : Nat]
           /\ job'.done <= Len(job'.order) /\ call' # "none"
  BY InJob DEF TypeOK, NextPart, PartsLeft

\* The plan stays what it is.
LEMMA HostStays ==
    ASSUME UNCHANGED host
    PROVE  /\ ext' = ext /\ Sensor' = Sensor /\ Assembly' = Assembly
           /\ \A s : Kind(s)' = Kind(s) /\ IsUwb(s)' = IsUwb(s)
  BY DEF host, Sensor, Assembly, Kind, IsUwb, List

\* Type correctness, for which Progress adds what the host's loop is at when an
\* assembly's function begins.
LEMMA LifeTypes ==
    /\ Init => TypeOK
    /\ TypeOK /\ Progress /\ [Next]_vars => TypeOK' /\ UNCHANGED host
  <1>1. ASSUME Init PROVE TypeOK
    <2>1. ext \in BOOLEAN /\ machine.file \in ConfigFile /\ \A s \in Assembly : Kind(s) \in Kinds
      <3>1. CASE ext = FALSE
        <4>1. PICK k \in Kinds : machine = [file |-> NoFile,
                                     plan |-> [s \in {1} |-> [kind |-> k, name |-> NoName]]]
          BY <1>1, <3>1 DEF Init
        <4>2. QED  BY <3>1, <4>1, NothingConfigured DEF Sensor, Assembly, Kind
      <3>2. CASE ext = TRUE
        <4>1. PICK root \in ConfigFile : \E plan \in {RunTx(root), RunRx(root)} :
                  machine = [file |-> root, plan |-> plan]
          BY <1>1, <3>2 DEF Init
        <4>2. PICK plan \in {RunTx(root), RunRx(root)} : machine = [file |-> root, plan |-> plan]
          BY <4>1
        <4>3. machine.file = root /\ machine.plan = plan  BY <4>2
        <4>4. \A s \in DOMAIN plan : plan[s].kind \in Kinds  BY <4>2, SidesAgree DEF Kinds
        <4>5. QED  BY <3>2, <4>3, <4>4 DEF Sensor, Assembly, Kind
      <3>3. QED  BY <1>1, <3>1, <3>2 DEF Init
    <2>2. part \in [Assembly -> [Parts -> {"off", "up", "dead"}]]  BY <1>1 DEF Init
    <2>3. held \subseteq Assembly /\ running \subseteq held /\ broken \subseteq held
          /\ ahead \subseteq Assembly
      BY <1>1 DEF Init
    <2>4. hostUp \in BOOLEAN /\ terminated \in BOOLEAN  BY <1>1 DEF Init
    <2>5. call = "none" /\ job = NoJob /\ ret = "none" /\ starts \in 0..MaxStarts
      BY <1>1, LifecycleAssumption DEF Init
    <2>6. QED  BY <2>1, <2>2, <2>3, <2>4, <2>5 DEF TypeOK
  <1>2. ASSUME TypeOK, Progress, [Next]_vars PROVE TypeOK' /\ UNCHANGED host
    <2> USE <1>2
    <2>1. CASE CallStart \/ CallStop \/ CallDestroy
      <3>1. /\ UNCHANGED <<host, part, held, running, broken, hostUp, job, terminated>>
            /\ call' \in {"none", "start", "stop", "destroy", "unwind"}
            /\ ahead' \subseteq Assembly
            /\ ret' \in {"none", "true", "false", "thrown", "stopped", "destroyed"}
            /\ starts' \in 0..MaxStarts /\ call = "none"
        BY <2>1, LifecycleAssumption DEF CallStart, CallStop, CallDestroy, Idle, TypeOK
      <3>2. QED  BY <3>1, HostStays DEF TypeOK, host
    <2>2. CASE StartNext
      <3>1. PICK s \in ahead : /\ held' = held \cup {s} /\ ahead' = ahead \ {s}
                               /\ Begin("start", s, StartOrder(Kind(s)))
        BY <2>2 DEF StartNext
      <3>2. job' = Job("start", s, StartOrder(Kind(s))) /\ s \in Assembly /\ call' = "start"
        BY <2>2, <3>1 DEF StartNext, Between, Begin, TypeOK
      <3>3. job'.done <= Len(job'.order) /\
            job' \in [do : {"start", "undo", "stop", "destroy"}, s : held',
                     order : Seq(Parts), done : Nat]
        BY <3>1, <3>2, StartsOnce DEF Job, TypeOK
      <3>4. QED  BY <3>1, <3>2, <3>3, HostStays DEF Begin, TypeOK, host
    <2>3. CASE StopNext
      <3>1. PICK s \in ahead : ahead' = ahead \ {s} /\ held' = held /\
              Begin("stop", s, IF s \in running \/ Kind(s) \in StopsUnguarded
                               THEN StopOrder(Kind(s)) ELSE <<>>)
        BY <2>3 DEF StopNext
      <3>2. PICK order : /\ order = IF s \in running \/ Kind(s) \in StopsUnguarded
                                    THEN StopOrder(Kind(s)) ELSE <<>>
                         /\ job' = Job("stop", s, order)
        BY <3>1 DEF Begin
      <3>3. s \in held /\ call = "stop"  BY <2>3, <3>1 DEF StopNext, Between, Progress
      <3>4. order \in Seq(Parts)  BY <3>2, <3>3, StopsEverything DEF TypeOK
      <3>5. job'.done <= Len(job'.order) /\
            job' \in [do : {"start", "undo", "stop", "destroy"}, s : held',
                     order : Seq(Parts), done : Nat]
        BY <3>1, <3>2, <3>3, <3>4 DEF Job
      <3>6. QED  BY <3>1, <3>3, <3>5, HostStays DEF Begin, TypeOK, host
    <2>4. CASE ClearNext \/ DestroyNext \/ ReplaceNext
      <3>1. PICK s \in held : Begin("destroy", s, DestroyOrder(Kind(s)))
        BY <2>4 DEF ClearNext, DestroyNext, ReplaceNext
      <3>2. call # "none" /\ UNCHANGED <<held, ahead>>
        BY <2>4 DEF ClearNext, DestroyNext, ReplaceNext, Between
      <3>3. job'.done <= Len(job'.order) /\
            job' \in [do : {"start", "undo", "stop", "destroy"}, s : held',
                     order : Seq(Parts), done : Nat]
        BY <3>1, <3>2, DestroysEverything DEF Job, TypeOK, Begin
      <3>4. QED  BY <3>1, <3>2, <3>3, HostStays DEF Begin, TypeOK, host
    <2>5. CASE ReturnFromStart \/ ReturnOtherwise
      <3>1. /\ UNCHANGED <<host, part, held, running, broken, job, starts, terminated>>
            /\ call' = "none" /\ ahead' = {} /\ job = NoJob /\ hostUp' \in BOOLEAN
            /\ ret' \in {"true", "false", "thrown", "stopped", "destroyed"}
        BY <2>5 DEF ReturnFromStart, ReturnOtherwise, ReturnAs, Between, TypeOK
      <3>2. QED  BY <3>1, HostStays DEF TypeOK, host
    <2>6. CASE StartPart
      <3>1. PartsLeft /\ In({"start"}) /\ NextPart  BY <2>6 DEF StartPart
      <3>2. part' \in [Assembly -> [Parts -> {"off", "up", "dead"}]] /\ terminated' \in BOOLEAN
        <4>1. job.s \in Assembly /\ ThePart \in Parts  BY <3>1, InJob
        <4>2. \/ part' = part
              \/ part' = [part EXCEPT ![job.s][ThePart] = IF @ = "off" THEN "up" ELSE @]
          BY <2>6 DEF StartPart
        <4>3. terminated' \in BOOLEAN  BY <2>6 DEF StartPart, TypeOK
        <4>4. QED  BY <4>1, <4>2, <4>3 DEF TypeOK
      <3>3. UNCHANGED <<host, held, running, broken, hostUp, call, ahead, ret, starts>>
        BY <2>6 DEF StartPart
      <3>4. QED  BY <3>1, <3>2, <3>3, NextKeepsJob, HostStays DEF TypeOK, host
    <2>7. CASE Started \/ Stopped \/ Destroyed
      <3>1. job' = NoJob /\ held' \subseteq held /\ running' \subseteq held' /\ broken' \subseteq held'
        BY <2>7, InJob DEF Started, Stopped, Destroyed, TypeOK
      <3>2. UNCHANGED <<host, part, hostUp, call, ahead, ret, starts, terminated>>
        BY <2>7 DEF Started, Stopped, Destroyed
      <3>3. QED  BY <3>1, <3>2, HostStays DEF TypeOK, host
    <2>8. CASE PartRefuses
      <3>1. PartsLeft /\ In({"start"}) /\ ThePart \in MayRefuse
            /\ job' = Job("undo", job.s, Rollback(Kind(job.s), ThePart))
        BY <2>8 DEF PartRefuses
      <3>2. Rollback(Kind(job.s), ThePart) \in Seq(Parts)  BY UndoIsOrder
      <3>3. job'.done <= Len(job'.order) /\
            job' \in [do : {"start", "undo", "stop", "destroy"}, s : held,
                     order : Seq(Parts), done : Nat]
        BY <3>1, <3>2, InJob DEF Job
      <3>4. call # "none"  BY <3>1, InJob
      <3>5. UNCHANGED <<host, part, held, running, broken, hostUp, call, ahead, ret, starts,
                        terminated>>
        BY <2>8 DEF PartRefuses
      <3>6. QED  BY <3>3, <3>4, <3>5, HostStays DEF TypeOK, host
    <2>9. CASE Refused
      <3>1. In({"undo"}) /\ held' = held  BY <2>9 DEF Refused
      <3>2. CASE ext
        <4>1. Begin("destroy", job.s, DestroyOrder(Kind(job.s))) /\ ahead' = ahead
          BY <2>9, <3>2 DEF Refused
        <4>2. job'.done <= Len(job'.order) /\
              job' \in [do : {"start", "undo", "stop", "destroy"}, s : held,
                       order : Seq(Parts), done : Nat]
          BY <4>1, <3>1, InJob, DestroysEverything DEF Begin, Job
        <4>3. call # "none"  BY <3>1, InJob
        <4>4. QED  BY <3>1, <4>1, <4>2, <4>3, HostStays DEF Begin, TypeOK, host
      <3>3. CASE ~ext
        BY <2>9, <3>1, <3>3, HostStays DEF Refused, ReturnAs, TypeOK, host
      <3>4. QED  BY <3>2, <3>3
    <2>10. CASE PartThrows
      <3>1. In({"start"}) /\ call' = "unwind" /\ ahead' = {} /\ broken' = broken \cup {job.s}
            /\ UNCHANGED <<host, part, held, running, hostUp, ret, starts, terminated>>
        BY <2>10 DEF PartThrows
      <3>2. \/ job' = NoJob
            \/ job'.done <= Len(job'.order) /\
               job' \in [do : {"start", "undo", "stop", "destroy"}, s : held,
                        order : Seq(Parts), done : Nat]
        <4>1. CASE ext /\ Kind(job.s) # "uwb_tx"
          BY <2>10, <3>1, <4>1, InJob, DestroysEverything DEF PartThrows, Job
        <4>2. CASE ~(ext /\ Kind(job.s) # "uwb_tx")  BY <2>10, <4>2 DEF PartThrows
        <4>3. QED  BY <4>1, <4>2
      <3>3. job.s \in held  BY <3>1, InJob
      <3>4. QED  BY <3>1, <3>2, <3>3, HostStays DEF TypeOK, host
    <2>11. CASE StopPart
      <3>1. PartsLeft /\ In({"undo", "stop", "destroy"})  BY <2>11 DEF StopPart
      <3>2. UNCHANGED <<host, held, running, broken, hostUp, call, ahead, ret, starts>>
        BY <2>11 DEF StopPart
      <3>3. CASE terminated' = TRUE /\ UNCHANGED <<part, job>>
        BY <3>2, <3>3, HostStays DEF TypeOK, host
      <3>4. CASE part' = [part EXCEPT ![job.s][ThePart] = "off"] /\ NextPart
                 /\ UNCHANGED terminated
        <4>1. part' \in [Assembly -> [Parts -> {"off", "up", "dead"}]]
          BY <3>1, <3>4, InJob DEF TypeOK
        <4>2. QED  BY <3>1, <3>2, <3>4, <4>1, NextKeepsJob, HostStays DEF TypeOK, host
      <3>5. QED  BY <2>11, <3>3, <3>4 DEF StopPart
    <2>12. CASE ThreadEnds
      <3>1. UNCHANGED <<host, held, running, broken, hostUp, call, ahead, job, ret, starts,
                        terminated>>
        BY <2>12 DEF ThreadEnds
      <3>2. part' \in [Assembly -> [Parts -> {"off", "up", "dead"}]]
        BY <2>12 DEF ThreadEnds, TypeOK, MayEnd, Parts
      <3>3. QED  BY <3>1, <3>2, HostStays DEF TypeOK, host
    <2>13. CASE UNCHANGED vars
      BY <2>13, HostStays DEF vars, TypeOK, host
    <2>14. QED
      BY <2>1, <2>2, <2>3, <2>4, <2>5, <2>6, <2>7, <2>8, <2>9, <2>10, <2>11, <2>12, <2>13
         DEF Next, Horizon
  <1>3. QED  BY <1>1, <1>2
-----------------------------------------------------------------------------
\* The inductive invariant.

\* A step that leaves the parts alone keeps what is said of the parts only.
LEMMA PartsStay ==
    ASSUME TypeOK, CameraSourcesRun, UnusedOff, OnlyDevicesDie, UNCHANGED <<host, part>>
    PROVE  /\ CameraSourcesRun' /\ UnusedOff' /\ OnlyDevicesDie'
           /\ Assembly' = Assembly /\ ext' = ext
           /\ \A s : Kind(s)' = Kind(s) /\ IsUwb(s)' = IsUwb(s)
           /\ \A s : (AllOff(s)' <=> AllOff(s)) /\ (AllStarted(s)' <=> AllStarted(s))
  <1>1. /\ Assembly' = Assembly /\ ext' = ext
        /\ \A s : Kind(s)' = Kind(s) /\ IsUwb(s)' = IsUwb(s)
    BY HostStays
  <1>2. part' = part  OBVIOUS
  <1>3. QED  BY <1>1, <1>2 DEF CameraSourcesRun, UnusedOff, OnlyDevicesDie, AllOff, AllStarted

\* Nothing is said of an assembly's function when there is none.
LEMMA NothingAtWork ==
    ASSUME job' = NoJob, ~terminated'
    PROVE  Starting' /\ Stopping' /\ OnlyMisuseTerminates'
  <1>1. job'.do = "none"  BY JobFields DEF NoJob
  <1>2. QED  BY <1>1 DEF Starting, Stopping, OnlyMisuseTerminates

\* The owner calls start(): nothing that an ExtSensorIoTx/Rx is going to start
\* exists, and an owner's assembly that runs is a UwbTransmitter.
LEMMA LifeStart ==
    ASSUME TypeOK, LifeInv, CallStart
    PROVE  LifeInv'
  <1>1. job = NoJob /\ call = "none" /\ ~terminated
    BY DEF CallStart, Idle, LifeInv, Progress
  <1>2. UNCHANGED <<host, part, held, running, broken, hostUp, job, terminated>>
    BY DEF CallStart
  <1>3. /\ CameraSourcesRun' /\ UnusedOff' /\ OnlyDevicesDie' /\ Assembly' = Assembly /\ ext' = ext
        /\ \A s : Kind(s)' = Kind(s) /\ IsUwb(s)' = IsUwb(s)
        /\ \A s : (AllOff(s)' <=> AllOff(s)) /\ (AllStarted(s)' <=> AllStarted(s))
    BY <1>2, PartsStay DEF LifeInv
  <1>4. Starting' /\ Stopping' /\ OnlyMisuseTerminates'  BY <1>1, <1>2, NothingAtWork
  <1>5. OthersRest' /\ DecodersRun' /\ BrokenOnes'
    BY <1>1, <1>2, <1>3 DEF LifeInv, OthersRest, DecodersRun, BrokenOnes, AtWork, Resting
  <1>6. Progress'
    <2>1. starts \in Nat /\ starts' = starts + 1 /\ starts' \in 0..MaxStarts
          /\ \A s \in Assembly : s[2] \in 0..MaxStarts
      BY LifecycleAssumption DEF CallStart, TypeOK, Assembly
    <2>2. \A s : AtWork(s)' <=> FALSE  BY <1>1, <1>2 DEF AtWork
    <2>3. held \subseteq Assembly /\ running \subseteq held /\ broken \subseteq held
      BY DEF TypeOK
    <2>4. ext => \A s \in held : s[2] <= starts /\ s[2] <= starts' /\ s[2] \in Int
      BY <2>1, <2>3 DEF LifeInv, Progress
    <2>5. CASE /\ hostUp \/ (~ext /\ \E s \in running : Kind(s) \notin StartsUnguarded)
               /\ ret' = "true" /\ UNCHANGED <<call, ahead>>
      <3>1. held # {} /\ running = held
        BY <1>1, <2>3, <2>5 DEF LifeInv, Progress
      <3>2. ext => hostUp  BY <2>5
      <3>3. ~ext => held \subseteq {<<1, 0>>}  BY DEF LifeInv, Progress
      <3>4. hostUp => ext  BY <1>1 DEF LifeInv, Progress
      <3>5. ahead' = {}  BY <1>1, <2>5 DEF LifeInv, Progress
      <3>6. QED
        BY <1>1, <1>2, <1>3, <2>2, <2>4, <2>5, <3>1, <3>2, <3>3, <3>4, <3>5 DEF Progress
    <2>6. CASE /\ ~hostUp /\ ~(~ext /\ \E s \in running : Kind(s) \notin StartsUnguarded)
               /\ ret' = "none" /\ call' = "start"
               /\ ahead' = IF ext THEN {s \in Assembly : s[2] = starts'} ELSE held
      <3>1. ~ext => held \subseteq {<<1, 0>>}  BY DEF LifeInv, Progress
      <3>2. ASSUME NEW s \in held \ ahead'
            PROVE  s \in running \/ (ext /\ IsUwb(s) /\ \E t \in ahead' : IsUwb(t))
        <4>1. ext  BY <2>6, <3>2
        <4>2. CASE s \in running  BY <4>2
        <4>3. CASE IsUwb(s)
          <5>1. PICK t : t = <<s[1], starts'>>  OBVIOUS
          <5>2. t \in Assembly /\ t[2] = starts' /\ t[1] = s[1]
            BY <2>1, <2>3, <3>2, <5>1 DEF Assembly
          <5>3. IsUwb(t)  BY <4>3, <5>2 DEF IsUwb, List, Kind
          <5>4. QED  BY <2>6, <4>1, <4>3, <5>2, <5>3
        <4>4. s \in running \/ IsUwb(s)
          BY <1>1, <2>6, <3>2, <4>1 DEF LifeInv, Progress, AtWork
        <4>5. QED  BY <4>2, <4>3, <4>4
      <3>3. ASSUME NEW s \in ahead' PROVE Startable(s) /\ (ext => s \notin held)
        <4>1. CASE ext
          <5>1. s[2] = starts + 1  BY <2>1, <2>6, <3>3, <4>1
          <5>2. s \notin held  BY <2>1, <2>4, <4>1, <5>1
          <5>3. QED  BY <2>3, <5>2 DEF Startable
        <4>2. CASE ~ext  BY <2>6, <4>2 DEF Startable
        <4>3. QED  BY <4>1, <4>2
      <3>4. \A s : Startable(s)' <=> Startable(s)  BY <1>2, <1>3 DEF Startable
      <3>5. ext => \A s \in ahead' : s[2] <= starts'  BY <2>1, <2>6
      <3>6. QED
        BY <1>1, <1>2, <1>3, <2>2, <2>4, <2>6, <3>1, <3>2, <3>3, <3>4, <3>5 DEF Progress, NoJob
    <2>7. QED  BY <2>5, <2>6 DEF CallStart
  <1>7. QED  BY <1>3, <1>4, <1>5, <1>6 DEF LifeInv

\* The owner calls stop() or destroys the host.
LEMMA LifeStopOrDestroy ==
    ASSUME TypeOK, LifeInv, CallStop \/ CallDestroy
    PROVE  LifeInv'
  <1>1. /\ job = NoJob /\ call = "none" /\ call' \in {"stop", "destroy"} /\ ~terminated
        /\ call' = "stop" => ahead' = held
        /\ call' = "destroy" => ahead' = ahead
    BY DEF CallStop, CallDestroy, Idle, LifeInv, Progress
  <1>2. UNCHANGED <<host, part, held, running, broken, hostUp, job, starts, terminated>>
    BY DEF CallStop, CallDestroy
  <1>3. /\ CameraSourcesRun' /\ UnusedOff' /\ OnlyDevicesDie' /\ Assembly' = Assembly /\ ext' = ext
        /\ \A s : Kind(s)' = Kind(s) /\ IsUwb(s)' = IsUwb(s)
        /\ \A s : (AllOff(s)' <=> AllOff(s)) /\ (AllStarted(s)' <=> AllStarted(s))
    BY <1>2, PartsStay DEF LifeInv
  <1>4. Starting' /\ Stopping' /\ OnlyMisuseTerminates'  BY <1>1, <1>2, NothingAtWork
  <1>5. OthersRest' /\ DecodersRun' /\ BrokenOnes'
    BY <1>1, <1>2, <1>3 DEF LifeInv, OthersRest, DecodersRun, BrokenOnes, AtWork, Resting
  <1>6. Progress'
    BY <1>1, <1>2, <1>3 DEF Progress, LifeInv, TypeOK
  <1>7. QED  BY <1>3, <1>4, <1>5, <1>6 DEF LifeInv

\* The host comes to the next assembly: of a fresh one no part is started.
LEMMA LifeStartNext ==
    ASSUME TypeOK, LifeInv, StartNext
    PROVE  LifeInv'
  <1>1. PICK s \in ahead : /\ IsUwb(s) => ~\E t \in held \ {s} : IsUwb(t)
                           /\ held' = held \cup {s} /\ ahead' = ahead \ {s}
                           /\ Begin("start", s, StartOrder(Kind(s)))
    BY DEF StartNext
  <1>2. /\ job = NoJob /\ call = "start" /\ s \in Assembly /\ ~terminated
        /\ job' = Job("start", s, StartOrder(Kind(s)))
        /\ UNCHANGED <<host, part, running, broken, hostUp, call, ret, starts, terminated>>
    BY <1>1 DEF StartNext, Between, Begin, TypeOK
  <1>3. /\ CameraSourcesRun' /\ UnusedOff' /\ OnlyDevicesDie' /\ Assembly' = Assembly /\ ext' = ext
        /\ \A t : Kind(t)' = Kind(t) /\ IsUwb(t)' = IsUwb(t)
        /\ \A t : (AllOff(t)' <=> AllOff(t)) /\ (AllStarted(t)' <=> AllStarted(t))
    BY <1>2, PartsStay DEF LifeInv
  <1>4. /\ job'.do = "start" /\ job'.s = s /\ job'.done = 0
        /\ job'.order = StartOrder(Kind(s)) /\ job' # NoJob
    BY <1>2, JobFields DEF NoJob
  <1>5. Startable(s) /\ Resting(s)
    BY <1>1, <1>2 DEF LifeInv, Progress, OthersRest, AtWork
  <1>6. Starting'
    <2>1. StartOrder(Kind(s)) \in Seq(Parts)  BY <1>2, StartsOnce DEF TypeOK
    <2>2. \A i \in DOMAIN job'.order : ~(i <= job'.done) /\ job'.order[i] \in Parts
      BY <1>4, <2>1
    <2>3. Fresh(s) => AllOff(s)  BY <1>5 DEF Fresh, Resting
    <2>4. (Startable(s)' <=> Startable(s)) /\ (Fresh(s)' <=> Fresh(s))
      BY <1>2, <1>3 DEF Startable, Fresh
    <2>5. s \in running => AllStarted(s)  BY <1>5 DEF Resting
    <2>6. Fresh(s) => \A i \in DOMAIN job'.order : part[s][job'.order[i]] = "off"
      BY <2>2, <2>3 DEF AllOff
    <2>7. QED  BY <1>2, <1>3, <1>4, <1>5, <2>2, <2>4, <2>5, <2>6 DEF Starting
  <1>7. Stopping' /\ OnlyMisuseTerminates'
    BY <1>2, <1>4 DEF Stopping, OnlyMisuseTerminates
  <1>8. OthersRest'
    <2>1. ASSUME NEW t \in Assembly, t # s PROVE Resting(t)'
      <3>1. Resting(t)  BY <1>2 DEF LifeInv, OthersRest, AtWork
      <3>2. QED  BY <1>1, <1>2, <1>3, <2>1, <3>1 DEF Resting
    <2>2. QED  BY <1>3, <1>4, <2>1 DEF OthersRest, AtWork
  <1>9. DecodersRun' /\ BrokenOnes'
    <2>1. /\ \A t \in Assembly : \A p \in NoDestructor : part[t][p] # "off" => t \in running
          /\ \A t \in broken : part[t]["color"] = "off" /\ (~ext \/ Kind(t) = "uwb_tx")
      BY <1>2 DEF LifeInv, DecodersRun, BrokenOnes, AtWork
    <2>2. QED  BY <1>2, <1>3, <2>1 DEF DecodersRun, BrokenOnes
  <1>10. Progress'
    <2>1. ASSUME NEW t \in held' \ ahead'
          PROVE  AtWork(t)' \/ t \in running \/ (ext /\ IsUwb(t) /\ \E u \in ahead' : IsUwb(u))
      <3>1. CASE t = s  BY <1>4, <3>1 DEF AtWork
      <3>2. CASE t # s
        <4>1. t \in held \ ahead  BY <1>1, <2>1, <3>2
        <4>2. CASE t \in running  BY <4>2
        <4>3. CASE ext /\ IsUwb(t) /\ \E u \in ahead : IsUwb(u)
          BY <1>1, <3>2, <4>1, <4>3
        <4>4. QED  BY <1>2, <4>1, <4>2, <4>3 DEF LifeInv, Progress, AtWork
      <3>3. QED  BY <3>1, <3>2
    <2>2. \A t : Startable(t)' <=> Startable(t)  BY <1>2, <1>3 DEF Startable
    <2>3. \A t \in ahead' : Startable(t)' /\ (ext => t \notin held')
      BY <1>1, <1>2, <2>2 DEF LifeInv, Progress
    <2>4. held' \cup ahead' = held \cup ahead  BY <1>1
    <2>5. QED
      BY <1>1, <1>2, <1>3, <1>4, <2>1, <2>3, <2>4 DEF LifeInv, Progress
  <1>11. QED  BY <1>3, <1>6, <1>7, <1>8, <1>9, <1>10 DEF LifeInv

\* Any function but start() has to come to all parts that are not off, or it is
\* a stop() that does nothing after an exception.
LEMMA LifeBegin ==
    ASSUME TypeOK, LifeInv, job = NoJob, ~terminated, NEW s \in Assembly, s \notin ahead',
           NEW do \in {"stop", "destroy"}, NEW order \in Seq(Parts),
           SourcesAfter(order, CameraPolls),
           \/ \A p \in Parts : part[s][p] # "off" => \E i \in DOMAIN order : order[i] = p
           \/ do = "stop" /\ order = <<>> /\ ~ext /\ s \in broken /\ s \notin running,
           do = "stop" => call = "stop",
           do = "destroy" => /\ SourcesAfter(order, DOMAIN SourceOf)
                             /\ call = "destroy" \/ (ext /\ (s \notin running \/ IsUwb(s))),
           ahead' = ahead \ {s}, held' = held,
           call \in {"start", "stop", "destroy"}, call = "start" => s \notin ahead,
           Begin(do, s, order)
    PROVE  LifeInv'
  <1>1. /\ job' = Job(do, s, order)
        /\ UNCHANGED <<host, part, running, broken, hostUp, call, ret, starts, terminated>>
    BY DEF Begin
  <1>2. /\ job'.do = do /\ job'.s = s /\ job'.done = 0 /\ job'.order = order /\ job' # NoJob
    BY <1>1, JobFields DEF NoJob
  <1>3. /\ CameraSourcesRun' /\ UnusedOff' /\ OnlyDevicesDie' /\ Assembly' = Assembly /\ ext' = ext
        /\ \A t : Kind(t)' = Kind(t) /\ IsUwb(t)' = IsUwb(t)
        /\ \A t : (AllOff(t)' <=> AllOff(t)) /\ (AllStarted(t)' <=> AllStarted(t))
    BY <1>1, PartsStay DEF LifeInv
  <1>4. Starting' /\ OnlyMisuseTerminates'  BY <1>1, <1>2 DEF Starting, OnlyMisuseTerminates
  <1>5. Stopping'
    <2>1. \A polls : SourcesAfter(job'.order, polls) <=> SourcesAfter(order, polls)
      BY <1>2 DEF SourcesAfter
    <2>2. ASSUME \A p \in Parts : part[s][p] # "off" => \E i \in DOMAIN order : order[i] = p
          PROVE  ToCome'
      <3>1. \A i \in DOMAIN order : i > 0  OBVIOUS
      <3>2. QED  BY <1>1, <1>2, <2>2, <3>1 DEF ToCome
    <2>3. job'.do # "undo"  BY <1>2
    <2>4. SourcesAfter(job.order, CameraPolls)' <=> SourcesAfter(job'.order, CameraPolls)
      BY DEF SourcesAfter, CameraPolls
    <2>5. SourcesAfter(job.order, DOMAIN SourceOf)' <=> SourcesAfter(job'.order, DOMAIN SourceOf)
      BY DEF SourcesAfter
    <2>6. \/ ToCome'
          \/ do = "stop" /\ order = <<>> /\ ~ext /\ s \in broken /\ s \notin running
      BY <2>2
    <2>7. QED  BY <1>1, <1>2, <1>3, <2>1, <2>3, <2>4, <2>5, <2>6 DEF Stopping
  <1>6. OthersRest'
    <2>1. ASSUME NEW t \in Assembly, t # s PROVE Resting(t)'
      <3>1. Resting(t)  BY DEF LifeInv, OthersRest, AtWork
      <3>2. QED  BY <1>1, <1>3, <2>1, <3>1 DEF Resting
    <2>2. QED  BY <1>2, <1>3, <2>1 DEF OthersRest, AtWork
  <1>7. DecodersRun' /\ BrokenOnes'
    <2>1. /\ \A t \in Assembly : \A p \in NoDestructor : part[t][p] # "off" => t \in running
          /\ \A t \in broken : part[t]["color"] = "off" /\ (~ext \/ Kind(t) = "uwb_tx")
      BY DEF LifeInv, DecodersRun, BrokenOnes, AtWork
    <2>2. QED  BY <1>1, <1>3, <2>1 DEF DecodersRun, BrokenOnes
  <1>8. Progress'
    <2>1. CASE call = "start"
      <3>1. ahead' = ahead  BY <2>1
      <3>2. \A t : Startable(t)' <=> Startable(t)  BY <1>1, <1>3 DEF Startable
      <3>3. QED  BY <1>1, <1>2, <1>3, <2>1, <3>1, <3>2 DEF Progress, LifeInv, AtWork
    <2>2. CASE call = "stop"
      BY <1>1, <1>2, <1>3, <2>2 DEF Progress, LifeInv, AtWork
    <2>3. CASE call = "destroy"
      BY <1>1, <1>2, <1>3, <2>3 DEF Progress, LifeInv, AtWork
    <2>4. QED  BY <2>1, <2>2, <2>3
  <1>9. QED  BY <1>3, <1>4, <1>5, <1>6, <1>7, <1>8 DEF LifeInv

\* stop(), clear(), the assignment to uwb_ and the destructors come to the next
\* assembly.
LEMMA LifeNext ==
    ASSUME TypeOK, LifeInv, StopNext \/ ClearNext \/ DestroyNext \/ ReplaceNext
    PROVE  LifeInv'
  <1>1. job = NoJob /\ ~terminated
    BY DEF StopNext, ClearNext, DestroyNext, ReplaceNext, Between
  <1>2. ASSUME NEW s \in Assembly, NEW order, \A p \in Used(Kind(s)) :
                                   \E i \in DOMAIN order : order[i] = p
        PROVE  \A p \in Parts : part[s][p] # "off" => \E i \in DOMAIN order : order[i] = p
    BY <1>2 DEF LifeInv, UnusedOff
  <1>3. CASE StopNext
    <2>1. PICK s \in ahead : ahead' = ahead \ {s} /\ held' = held /\
            Begin("stop", s, IF s \in running \/ Kind(s) \in StopsUnguarded
                             THEN StopOrder(Kind(s)) ELSE <<>>)
      BY <1>3 DEF StopNext
    <2>2. PICK order : /\ order = IF s \in running \/ Kind(s) \in StopsUnguarded
                                  THEN StopOrder(Kind(s)) ELSE <<>>
                       /\ Begin("stop", s, order)
      BY <2>1
    <2>3. s \in held /\ s \in Assembly /\ call = "stop" /\ Kind(s) \in Kinds
      BY <1>3, <2>1 DEF StopNext, Between, LifeInv, Progress, TypeOK
    <2>4. /\ order \in Seq(Parts) /\ SourcesAfter(order, CameraPolls)
          /\ \/ \A p \in Parts : part[s][p] # "off" => \E i \in DOMAIN order : order[i] = p
             \/ order = <<>> /\ ~ext /\ s \in broken /\ s \notin running
      <3>1. CASE s \in running \/ Kind(s) \in StopsUnguarded
        BY <1>2, <2>2, <2>3, <3>1, StopsEverything
      <3>2. CASE ~(s \in running \/ Kind(s) \in StopsUnguarded)
        <4>1. order = <<>>  BY <2>2, <3>2
        <4>2. SourcesAfter(order, CameraPolls) /\ order \in Seq(Parts)
          BY <4>1 DEF SourcesAfter
        <4>3. Resting(s)  BY <1>1, <2>3 DEF LifeInv, OthersRest, AtWork
        <4>4. AllOff(s) \/ (s \in broken /\ ~ext)
          BY <1>1, <2>3, <3>2, <4>3 DEF Resting, StopsUnguarded, LifeInv, BrokenOnes, AtWork
        <4>5. QED  BY <3>2, <4>1, <4>2, <4>4 DEF AllOff
      <3>3. QED  BY <3>1, <3>2
    <2>5. QED  BY <1>1, <2>1, <2>2, <2>3, <2>4, LifeBegin
  <1>4. CASE ClearNext \/ DestroyNext \/ ReplaceNext
    <2>1. PICK s \in held : /\ Begin("destroy", s, DestroyOrder(Kind(s)))
                            /\ \/ call = "destroy"
                               \/ call = "stop" /\ ext /\ s \notin ahead
                               \/ call = "start" /\ IsUwb(s) /\ \E t \in ahead \ {s} : IsUwb(t)
      BY <1>4 DEF ClearNext, DestroyNext, ReplaceNext, Between
    <2>2. UNCHANGED <<held, ahead>>  BY <1>4 DEF ClearNext, DestroyNext, ReplaceNext
    <2>3. s \in Assembly /\ Kind(s) \in Kinds  BY DEF TypeOK
    <2>4. /\ DestroyOrder(Kind(s)) \in Seq(Parts)
          /\ SourcesAfter(DestroyOrder(Kind(s)), DOMAIN SourceOf)
          /\ \A p \in Parts : part[s][p] # "off" =>
                \E i \in DOMAIN DestroyOrder(Kind(s)) : DestroyOrder(Kind(s))[i] = p
      BY <1>2, <2>3, DestroysEverything
    <2>5. SourcesAfter(DestroyOrder(Kind(s)), CameraPolls)
      BY <2>4 DEF SourcesAfter, CameraPolls
    <2>6. s \notin ahead /\ (call = "destroy" \/ (ext /\ (s \notin running \/ IsUwb(s))))
      <3>1. CASE call = "destroy"  BY <3>1 DEF LifeInv, Progress
      <3>2. CASE call = "stop" /\ ext /\ s \notin ahead
        BY <1>1, <3>2 DEF LifeInv, Progress, AtWork
      <3>3. CASE call = "start" /\ IsUwb(s) /\ \E t \in ahead \ {s} : IsUwb(t)
        <4>1. ext  BY <3>3 DEF LifeInv, Progress
        <4>2. s \notin ahead  BY <3>3, <4>1 DEF LifeInv, Progress
        <4>3. QED  BY <3>3, <4>1, <4>2
      <3>4. QED  BY <2>1, <3>1, <3>2, <3>3
    <2>7. ahead' = ahead \ {s}  BY <2>2, <2>6
    <2>8. call \in {"start", "stop", "destroy"}  BY <2>1
    <2>9. QED  BY <1>1, <2>1, <2>2, <2>3, <2>4, <2>5, <2>6, <2>7, <2>8, LifeBegin
  <1>5. QED  BY <1>3, <1>4

\* A call returns: what its result says of every assembly holds.
LEMMA LifeReturn ==
    ASSUME TypeOK, LifeInv, ReturnFromStart \/ ReturnOtherwise
    PROVE  LifeInv'
  <1>1. job = NoJob /\ call' = "none" /\ ahead' = {} /\ ~terminated
        /\ UNCHANGED <<host, part, held, running, broken, job, starts, terminated>>
    BY DEF ReturnFromStart, ReturnOtherwise, ReturnAs, Between
  <1>2. /\ CameraSourcesRun' /\ UnusedOff' /\ OnlyDevicesDie' /\ Assembly' = Assembly /\ ext' = ext
        /\ \A s : Kind(s)' = Kind(s) /\ IsUwb(s)' = IsUwb(s)
        /\ \A s : (AllOff(s)' <=> AllOff(s)) /\ (AllStarted(s)' <=> AllStarted(s))
    BY <1>1, PartsStay DEF LifeInv
  <1>3. Starting' /\ Stopping' /\ OnlyMisuseTerminates'  BY <1>1, NothingAtWork
  <1>4. OthersRest' /\ DecodersRun' /\ BrokenOnes'
    BY <1>1, <1>2 DEF LifeInv, OthersRest, DecodersRun, BrokenOnes, AtWork, Resting
  <1>5. CASE ReturnFromStart
    <2>1. /\ call = "start" /\ ahead = {} /\ hostUp' = (ext /\ held # {})
          /\ ret' = IF held = {} THEN "false" ELSE "true"
      BY <1>5 DEF ReturnFromStart, Between, ReturnAs
    <2>2. held = running
      BY <1>1, <2>1 DEF LifeInv, Progress, AtWork, TypeOK
    <2>3. Progress'  BY <1>1, <1>2, <2>1, <2>2 DEF LifeInv, Progress, TypeOK
    <2>4. QED  BY <1>2, <1>3, <1>4, <2>3 DEF LifeInv
  <1>6. CASE ReturnOtherwise
    <2>1. /\ hostUp' = FALSE
          /\ \/ call = "stop" /\ ahead = {} /\ (ext => held = {}) /\ ret' = "stopped"
             \/ call = "destroy" /\ held = {} /\ ret' = "destroyed"
             \/ call = "unwind" /\ ret' = "thrown"
      BY <1>6 DEF ReturnOtherwise, Between, ReturnAs
    <2>2. call # "unwind" => running = {}
      BY <1>1, <2>1 DEF LifeInv, Progress, AtWork, TypeOK
    <2>3. Progress'  BY <1>1, <1>2, <2>1, <2>2 DEF LifeInv, Progress, TypeOK, AtWork
    <2>4. QED  BY <1>2, <1>3, <1>4, <2>3 DEF LifeInv
  <1>7. QED  BY <1>5, <1>6

\* The other assemblies rest while a function works on one.
LEMMA OthersKeepResting ==
    ASSUME TypeOK, LifeInv, NEW t \in Assembly, ~AtWork(t),
           Kind(t)' = Kind(t),
           \A p \in Parts : part'[t][p] # "off" <=> part[t][p] # "off",
           t \in held' <=> t \in held, t \in running' <=> t \in running,
           t \in broken' <=> t \in broken
    PROVE  Resting(t)'
  <1>1. Resting(t)  BY DEF LifeInv, OthersRest
  <1>2. AllOff(t)' <=> AllOff(t)  BY DEF AllOff
  <1>3. StartOrder(Kind(t)) \in Seq(Parts)  BY StartsOnce DEF TypeOK
  <1>4. \A i \in DOMAIN StartOrder(Kind(t)) : StartOrder(Kind(t))[i] \in Parts  BY <1>3
  <1>5. AllStarted(t)' <=> AllStarted(t)  BY <1>4 DEF AllStarted
  <1>6. QED  BY <1>1, <1>2, <1>5 DEF Resting

\* A capture thread ends: a dead part is still one that is not off.
LEMMA LifeThreadEnds ==
    ASSUME TypeOK, LifeInv, ThreadEnds
    PROVE  LifeInv'
  <1>1. PICK s \in held, p \in MayEnd : part[s][p] = "up"
                                        /\ part' = [part EXCEPT ![s][p] = "dead"]
    BY DEF ThreadEnds
  <1>2. UNCHANGED <<host, held, running, broken, hostUp, call, ahead, job, ret, starts,
                    terminated>> /\ ~terminated
    BY DEF ThreadEnds
  <1>3. s \in Assembly /\ p \in Parts  BY DEF TypeOK, MayEnd, Parts
  <1>4. \A t \in Assembly, q \in Parts :
            /\ part'[t][q] # "off" <=> part[t][q] # "off"
            /\ q \notin MayEnd => part'[t][q] = part[t][q]
    BY <1>1, <1>3 DEF TypeOK
  <1>5. Assembly' = Assembly /\ ext' = ext /\ \A t : Kind(t)' = Kind(t) /\ IsUwb(t)' = IsUwb(t)
    BY <1>2, HostStays
  <1>6. \A t : AtWork(t)' <=> AtWork(t)  BY <1>2, JobFields DEF AtWork, NoJob, Job
  <1>7. \A t \in Assembly : AllStarted(t)' <=> AllStarted(t)
    <2>1. ASSUME NEW t \in Assembly PROVE AllStarted(t)' <=> AllStarted(t)
      <3>1. StartOrder(Kind(t)) \in Seq(Parts)  BY StartsOnce DEF TypeOK
      <3>2. \A i \in DOMAIN StartOrder(Kind(t)) : StartOrder(Kind(t))[i] \in Parts  BY <3>1
      <3>3. QED  BY <1>4, <1>5, <3>2 DEF AllStarted
    <2>2. QED  BY <2>1
  <1>8. Starting' /\ Stopping'
    <2>1. CASE job = NoJob  BY <1>2, <2>1, NothingAtWork
    <2>2. CASE job # NoJob
      <3>1. job.s \in Assembly /\ \A i \in DOMAIN job.order : job.order[i] \in Parts
        BY <2>2 DEF TypeOK
      <3>2. /\ Startable(job.s)' <=> Startable(job.s)
            /\ Fresh(job.s)' <=> Fresh(job.s)
        BY <1>2, <1>5 DEF Startable, Fresh
      <3>3. Starting'
        BY <1>2, <1>4, <1>5, <1>7, <3>1, <3>2 DEF LifeInv, Starting
      <3>4. \A q \in CameraPolls : q \in Parts  BY DEF CameraPolls, SourceOf, Parts
      <3>5. (ToCome' <=> ToCome) /\ (PollersToCome' <=> PollersToCome)
        BY <1>2, <1>4, <3>1, <3>4 DEF ToCome, PollersToCome
      <3>6. Stopping'
        BY <1>2, <1>5, <1>7, <3>1, <3>2, <3>5
           DEF LifeInv, Stopping, SourcesAfter, CameraPolls
      <3>7. QED  BY <3>3, <3>6
    <2>3. QED  BY <2>1, <2>2
  <1>9. CameraSourcesRun' /\ UnusedOff' /\ OnlyDevicesDie'
    <2>1. \A q \in DOMAIN SourceOf : q \in Parts /\ SourceOf[q] \in Parts  BY DEF SourceOf, Parts
    <2>2. CameraSourcesRun'  BY <1>4, <1>5, <2>1 DEF LifeInv, CameraSourcesRun
    <2>3. UnusedOff' /\ OnlyDevicesDie'
      BY <1>4, <1>5 DEF LifeInv, UnusedOff, OnlyDevicesDie
    <2>4. QED  BY <2>2, <2>3
  <1>10. OthersRest'
    <2>1. ASSUME NEW t \in Assembly, ~AtWork(t) PROVE Resting(t)'
      BY <1>2, <1>4, <1>5, <2>1, OthersKeepResting
    <2>2. QED  BY <1>5, <1>6, <2>1 DEF OthersRest
  <1>11. DecodersRun' /\ BrokenOnes'
    <2>1. NoDestructor \subseteq Parts /\ "color" \in Parts  BY DEF NoDestructor, Parts
    <2>2. DecodersRun'  BY <1>2, <1>4, <1>5, <1>6, <2>1 DEF LifeInv, DecodersRun
    <2>3. BrokenOnes'
      BY <1>2, <1>4, <1>5, <1>6, <2>1 DEF LifeInv, BrokenOnes, TypeOK
    <2>4. QED  BY <2>2, <2>3
  <1>12. Progress'
    <2>1. \A t : Startable(t)' <=> Startable(t)  BY <1>2, <1>5 DEF Startable
    <2>2. QED  BY <1>2, <1>5, <1>6, <2>1 DEF LifeInv, Progress
  <1>13. OnlyMisuseTerminates'  BY <1>2 DEF OnlyMisuseTerminates
  <1>14. QED  BY <1>8, <1>9, <1>10, <1>11, <1>12, <1>13 DEF LifeInv

\* A part starts, after what it polls; or its thread was not joined, and the
\* assembly is not fresh.
LEMMA LifeStartPart ==
    ASSUME TypeOK, LifeInv, StartPart
    PROVE  LifeInv'
  <1>1. In({"start"}) /\ PartsLeft /\ NextPart
        /\ UNCHANGED <<host, held, running, broken, hostUp, call, ahead, ret, starts>>
    BY DEF StartPart
  <1>2. /\ job # NoJob /\ job.do = "start" /\ job.s \in Assembly /\ ThePart \in Parts
        /\ job.done + 1 \in DOMAIN job.order /\ job.order \in Seq(Parts) /\ job.done \in Nat
        /\ ~terminated
    BY <1>1, InJob
  <1>3. /\ job'.do = job.do /\ job'.s = job.s /\ job'.order = job.order
        /\ job'.done = job.done + 1 /\ job' # NoJob
    BY <1>1, <1>2, NextPartFields, JobFields DEF NoJob
  <1>4. /\ job.order = StartOrder(Kind(job.s)) /\ Kind(job.s) \in Kinds
        /\ call = "start" /\ Startable(job.s)
        /\ \A i \in DOMAIN job.order : i <= job.done => part[job.s][job.order[i]] # "off"
        /\ Fresh(job.s) =>
              \A i \in DOMAIN job.order : i > job.done => part[job.s][job.order[i]] = "off"
        /\ job.s \in running => AllStarted(job.s)
    BY <1>2 DEF LifeInv, Starting, TypeOK
  <1>5. \/ /\ part' = [part EXCEPT ![job.s][ThePart] = IF @ = "off" THEN "up" ELSE @]
           /\ UNCHANGED terminated
        \/ part[job.s][ThePart] # "off" /\ UNCHANGED part /\ terminated' = TRUE
    BY <1>2 DEF StartPart
  <1>6. /\ part'[job.s][ThePart] # "off"
        /\ part'[job.s][ThePart] = "up" \/ part'[job.s][ThePart] = part[job.s][ThePart]
        /\ \A s \in Assembly, p \in Parts :
              s # job.s \/ p # ThePart => part'[s][p] = part[s][p]
    <2>1. CASE part[job.s][ThePart] # "off" /\ UNCHANGED part  BY <2>1
    <2>2. CASE part' = [part EXCEPT ![job.s][ThePart] = IF @ = "off" THEN "up" ELSE @]
      BY <1>2, <2>2 DEF TypeOK
    <2>3. QED  BY <1>5, <2>1, <2>2
  <1>7. Assembly' = Assembly /\ ext' = ext /\ \A s : Kind(s)' = Kind(s) /\ IsUwb(s)' = IsUwb(s)
    BY <1>1, HostStays
  <1>8. \A s : /\ AtWork(s)' <=> AtWork(s)
               /\ Startable(s)' <=> Startable(s)
               /\ Fresh(s)' <=> Fresh(s)
    BY <1>1, <1>2, <1>3, <1>7 DEF AtWork, Startable, Fresh
  <1>9. \A s \in Assembly, p \in Parts : part[s][p] # "off" => part'[s][p] # "off"
    BY <1>6
  <1>10. Starting'
    <2>1. ASSUME NEW i \in DOMAIN job.order
          PROVE  /\ i <= job.done + 1 => part'[job.s][job.order[i]] # "off"
                 /\ Fresh(job.s) /\ i > job.done + 1 => part'[job.s][job.order[i]] = "off"
      <3>1. CASE i = job.done + 1  BY <1>2, <1>6, <3>1 DEF ThePart
      <3>2. CASE i # job.done + 1
        <4>1. job.order[i] # ThePart /\ job.order[i] \in Parts
          BY <1>2, <1>4, <3>2, StartsOnce DEF ThePart
        <4>2. part'[job.s][job.order[i]] = part[job.s][job.order[i]]  BY <1>2, <1>6, <4>1
        <4>3. (i <= job.done + 1 => i <= job.done) /\ (i > job.done + 1 => i > job.done)
          BY <1>2, <3>2
        <4>4. QED  BY <1>4, <4>2, <4>3
      <3>3. QED  BY <3>1, <3>2
    <2>2. job.s \in running => AllStarted(job.s)'
      <3>1. \A i \in DOMAIN job.order : job.order[i] \in Parts  BY <1>2
      <3>2. QED  BY <1>2, <1>4, <1>7, <1>9, <1>3, <3>1 DEF AllStarted
    <2>3. QED  BY <1>1, <1>2, <1>3, <1>4, <1>7, <1>8, <2>1, <2>2 DEF Starting
  <1>11. Stopping'  BY <1>2, <1>3 DEF Stopping
  <1>12. CameraSourcesRun'
    <2>1. \A p \in DOMAIN SourceOf : p \in Parts /\ SourceOf[p] \in Parts  BY DEF SourceOf, Parts
    <2>2. ASSUME NEW s \in Assembly, NEW p \in CameraPolls, part'[s][p] # "off"
          PROVE  part'[s][SourceOf[p]] # "off"
      <3>1. CASE s = job.s /\ p = ThePart
        <4>1. PICK i \in DOMAIN job.order : i < job.done + 1 /\ job.order[i] = SourceOf[p]
          BY <1>2, <1>4, <2>2, <3>1, StartsSourceFirst DEF ThePart
        <4>2. i <= job.done  BY <1>2, <4>1
        <4>3. part[s][SourceOf[p]] # "off"  BY <1>4, <3>1, <4>1, <4>2
        <4>4. QED  BY <1>9, <2>1, <2>2, <4>3 DEF CameraPolls
      <3>2. CASE s # job.s \/ p # ThePart
        <4>1. part[s][p] # "off"  BY <1>6, <2>1, <2>2, <3>2 DEF CameraPolls
        <4>2. part[s][SourceOf[p]] # "off"
          BY <4>1, <2>2 DEF LifeInv, CameraSourcesRun, CameraPolls
        <4>3. QED  BY <1>9, <2>1, <2>2, <4>2 DEF CameraPolls
      <3>3. QED  BY <3>1, <3>2
    <2>3. QED  BY <1>7, <2>2 DEF CameraSourcesRun, CameraPolls
  <1>13. UnusedOff' /\ OnlyDevicesDie'
    <2>1. ThePart \in Used(Kind(job.s))  BY <1>2, <1>4 DEF Used, ThePart
    <2>2. UnusedOff'  BY <1>6, <1>7, <2>1 DEF LifeInv, UnusedOff
    <2>3. OnlyDevicesDie'  BY <1>2, <1>6, <1>7 DEF LifeInv, OnlyDevicesDie
    <2>4. QED  BY <2>2, <2>3
  <1>14. OthersRest'
    <2>1. ASSUME NEW t \in Assembly, ~AtWork(t) PROVE Resting(t)'
      <3>1. t # job.s  BY <1>2, <2>1 DEF AtWork
      <3>2. QED  BY <1>1, <1>6, <1>7, <2>1, <3>1, OthersKeepResting
    <2>2. QED  BY <1>7, <1>8, <2>1 DEF OthersRest
  <1>15. DecodersRun' /\ BrokenOnes'
    <2>1. ASSUME NEW s \in Assembly, NEW p \in Parts, part'[s][p] # "off",
                 part[s][p] # "off" =>
                   \/ s \in running
                   \/ AtWork(s) /\ job.do = "start"
                         /\ \E i \in DOMAIN job.order : i <= job.done /\ job.order[i] = p
          PROVE  \/ s \in running
                 \/ AtWork(s)' /\ job'.do = "start"
                       /\ \E i \in DOMAIN job'.order : i <= job'.done /\ job'.order[i] = p
      <3>1. CASE s = job.s /\ p = ThePart
        BY <1>2, <1>3, <3>1 DEF AtWork, ThePart
      <3>2. CASE s # job.s \/ p # ThePart
        <4>1. \A i \in DOMAIN job.order : i <= job.done => i <= job.done + 1  BY <1>2
        <4>2. part[s][p] # "off"  BY <1>6, <2>1, <3>2
        <4>3. QED  BY <1>2, <1>3, <1>8, <2>1, <4>1, <4>2
      <3>3. QED  BY <3>1, <3>2
    <2>2. NoDestructor \subseteq Parts /\ "color" \in Parts  BY DEF NoDestructor, Parts
    <2>3. DecodersRun'
      BY <1>1, <1>7, <2>1, <2>2 DEF LifeInv, DecodersRun
    <2>4. ASSUME NEW s \in broken, part'[s]["color"] # "off"
          PROVE  AtWork(s)' /\ job'.do = "start"
                   /\ \E i \in DOMAIN job'.order : i <= job'.done /\ job'.order[i] = "color"
      <3>1. s \in Assembly  BY DEF TypeOK
      <3>2. CASE s = job.s /\ ThePart = "color"
        BY <1>2, <1>3, <3>2 DEF AtWork, ThePart
      <3>3. CASE s # job.s \/ ThePart # "color"
        <4>1. \A i \in DOMAIN job.order : i <= job.done => i <= job.done + 1  BY <1>2
        <4>2. part[s]["color"] # "off"  BY <1>6, <2>2, <2>4, <3>1, <3>3
        <4>3. QED  BY <1>2, <1>3, <1>8, <4>1, <4>2 DEF LifeInv, BrokenOnes
      <3>4. QED  BY <3>2, <3>3
    <2>5. \A s \in broken : ~ext \/ Kind(s) = "uwb_tx"
      BY <1>2 DEF LifeInv, BrokenOnes
    <2>6. BrokenOnes'  BY <1>1, <1>7, <2>4, <2>5 DEF BrokenOnes
    <2>7. QED  BY <2>3, <2>6
  <1>16. Progress'
    BY <1>1, <1>2, <1>3, <1>7, <1>8 DEF LifeInv, Progress
  <1>17. OnlyMisuseTerminates'
    <2>1. SUFFICES ASSUME terminated' PROVE OnlyMisuseTerminates'
      BY DEF OnlyMisuseTerminates
    <2>2. part[job.s][ThePart] # "off"  BY <1>2, <1>5, <2>1
    <2>3. job.done + 1 > job.done  BY <1>2
    <2>4. ~Fresh(job.s)  BY <1>2, <1>4, <2>2, <2>3 DEF ThePart
    <2>5. ~ext /\ (job.s \in broken \/ (job.s \in running /\ Kind(job.s) \in StartsUnguarded))
      BY <1>4, <2>4 DEF Startable, Fresh
    <2>6. QED  BY <1>1, <1>2, <1>3, <1>7, <2>5 DEF OnlyMisuseTerminates
  <1>18. QED
    BY <1>10, <1>11, <1>12, <1>13, <1>14, <1>15, <1>16, <1>17 DEF LifeInv

\* A decoder that runs is destroyed: the owner has destroyed a receiver that
\* was not stopped.
LEMMA LifeDestroysDecoder ==
    ASSUME TypeOK, LifeInv, StopPart, terminated', UNCHANGED <<part, job>>
    PROVE  LifeInv'
  <1>1. In({"undo", "stop", "destroy"}) /\ PartsLeft
        /\ UNCHANGED <<host, part, held, running, broken, hostUp, call, ahead, job, ret, starts>>
    BY DEF StopPart
  <1>2. /\ job # NoJob /\ job.s \in Assembly /\ Kind(job.s) \in Kinds /\ ThePart \in Parts
        /\ job.done + 1 \in DOMAIN job.order /\ ~terminated
    BY <1>1, InJob
  <1>3. job.do = "destroy" /\ ThePart \in NoDestructor /\ part[job.s][ThePart] # "off"
    <2>1. \/ job.do = "destroy" /\ ThePart \in NoDestructor /\ part[job.s][ThePart] # "off"
          \/ UNCHANGED terminated
      BY DEF StopPart
    <2>2. QED  BY <1>2, <2>1
  <1>4. Kind(job.s) = "realsense_rx"
    <2>1. PICK i \in DOMAIN StartOrder(Kind(job.s)) : StartOrder(Kind(job.s))[i] = ThePart
      BY <1>2, <1>3 DEF LifeInv, UnusedOff, Used
    <2>2. QED  BY <1>2, <1>3, <2>1, DecodersOfReceiver
  <1>5. job.s \in running /\ call = "destroy"
    <2>1. job.s \in running  BY <1>2, <1>3 DEF LifeInv, DecodersRun
    <2>2. ~IsUwb(job.s)  BY <1>4 DEF IsUwb, List
    <2>3. QED  BY <1>3, <2>1, <2>2 DEF LifeInv, Stopping
  <1>6. /\ CameraSourcesRun' /\ UnusedOff' /\ OnlyDevicesDie' /\ Assembly' = Assembly /\ ext' = ext
        /\ \A s : Kind(s)' = Kind(s) /\ IsUwb(s)' = IsUwb(s)
        /\ \A s : (AllOff(s)' <=> AllOff(s)) /\ (AllStarted(s)' <=> AllStarted(s))
    BY <1>1, PartsStay DEF LifeInv
  <1>7. \A s : AtWork(s)' <=> AtWork(s)  BY <1>1, JobFields DEF AtWork, NoJob, Job
  <1>8. Starting'  BY <1>1, <1>3 DEF Starting
  <1>9. Stopping'
    BY <1>1, <1>3, <1>6 DEF LifeInv, Stopping, SourcesAfter, CameraPolls, ToCome
  <1>10. OthersRest' /\ DecodersRun' /\ BrokenOnes'
    <2>1. OthersRest'  BY <1>1, <1>6, <1>7 DEF LifeInv, OthersRest, Resting
    <2>2. DecodersRun'  BY <1>1, <1>6, <1>7 DEF LifeInv, DecodersRun
    <2>3. BrokenOnes'  BY <1>1, <1>6, <1>7 DEF LifeInv, BrokenOnes
    <2>4. QED  BY <2>1, <2>2, <2>3
  <1>11. Progress'
    <2>1. \A s : Startable(s)' <=> Startable(s)  BY <1>1, <1>6 DEF Startable
    <2>2. QED  BY <1>1, <1>2, <1>6, <1>7, <2>1 DEF LifeInv, Progress
  <1>12. OnlyMisuseTerminates'
    BY <1>1, <1>3, <1>4, <1>5, <1>6 DEF OnlyMisuseTerminates
  <1>13. QED  BY <1>6, <1>8, <1>9, <1>10, <1>11, <1>12 DEF LifeInv

\* A part stops: what polls it is stopped already.
LEMMA LifeStopPart ==
    ASSUME TypeOK, LifeInv, StopPart,
           part' = [part EXCEPT ![job.s][ThePart] = "off"], NextPart, UNCHANGED terminated
    PROVE  LifeInv'
  <1>1. In({"undo", "stop", "destroy"}) /\ PartsLeft /\ NextPart
        /\ UNCHANGED <<host, held, running, broken, hostUp, call, ahead, ret, starts, terminated>>
    BY DEF StopPart
  <1>2. /\ job # NoJob /\ job.do \in {"undo", "stop", "destroy"} /\ job.s \in Assembly
        /\ ThePart \in Parts /\ ~terminated
        /\ job.done + 1 \in DOMAIN job.order /\ job.order \in Seq(Parts) /\ job.done \in Nat
        /\ job.order # <<>>
    <2>1. job.done + 1 \in DOMAIN job.order /\ job.order \in Seq(Parts)  BY <1>1, InJob
    <2>2. job.order # <<>>  BY <2>1
    <2>3. QED  BY <1>1, <2>1, <2>2, InJob
  <1>3. /\ job'.do = job.do /\ job'.s = job.s /\ job'.order = job.order
        /\ job'.done = job.done + 1 /\ job' # NoJob
    BY <1>1, <1>2, NextPartFields, JobFields DEF NoJob
  <1>4. /\ SourcesAfter(job.order, CameraPolls)
        /\ ToCome \/ (job.do = "undo" /\ ~Fresh(job.s) /\ PollersToCome)
    BY <1>2 DEF LifeInv, Stopping
  <1>5. /\ part'[job.s][ThePart] = "off"
        /\ \A s \in Assembly, p \in Parts :
              s # job.s \/ p # ThePart => part'[s][p] = part[s][p]
    BY <1>2 DEF TypeOK
  <1>6. Assembly' = Assembly /\ ext' = ext /\ \A s : Kind(s)' = Kind(s) /\ IsUwb(s)' = IsUwb(s)
    BY <1>1, HostStays
  <1>7. \A s : /\ AtWork(s)' <=> AtWork(s)
               /\ Startable(s)' <=> Startable(s)
               /\ Fresh(s)' <=> Fresh(s)
    BY <1>1, <1>2, <1>3, <1>6 DEF AtWork, Startable, Fresh
  <1>8. Starting'  BY <1>2, <1>3 DEF Starting
  <1>9. DOMAIN SourceOf \subseteq Parts /\ CameraPolls \subseteq DOMAIN SourceOf
        /\ \A p \in DOMAIN SourceOf : SourceOf[p] \in Parts
    BY DEF SourceOf, Parts, CameraPolls
  <1>10. Stopping'
    <2>1. ASSUME NEW p \in Parts, part'[job.s][p] # "off",
                 part[job.s][p] # "off" => \E i \in DOMAIN job.order : i > job.done /\ job.order[i] = p
          PROVE  \E i \in DOMAIN job'.order : i > job'.done /\ job'.order[i] = p
      <3>1. p # ThePart /\ part[job.s][p] # "off"  BY <1>2, <1>5, <2>1
      <3>2. PICK i \in DOMAIN job.order : i > job.done /\ job.order[i] = p  BY <2>1, <3>1
      <3>3. i # job.done + 1  BY <3>1, <3>2 DEF ThePart
      <3>4. i > job.done + 1  BY <1>2, <3>2, <3>3
      <3>5. QED  BY <1>3, <3>2, <3>4
    <2>2. ToCome => ToCome'  BY <1>3, <2>1 DEF ToCome
    <2>3. PollersToCome => PollersToCome'
      <3>1. SUFFICES ASSUME PollersToCome, NEW p \in CameraPolls, part'[job.s][p] # "off"
                     PROVE  \E i \in DOMAIN job'.order : i > job'.done /\ job'.order[i] = p
        BY <1>3 DEF PollersToCome, CameraPolls
      <3>2. QED  BY <1>9, <2>1, <3>1 DEF PollersToCome
    <2>4. SourcesAfter(job.order, CameraPolls)' <=> SourcesAfter(job.order, CameraPolls)
      BY <1>3 DEF SourcesAfter, CameraPolls
    <2>5. SourcesAfter(job.order, DOMAIN SourceOf)' <=> SourcesAfter(job.order, DOMAIN SourceOf)
      BY <1>3 DEF SourcesAfter
    <2>6. job.do = "undo" => job.s \notin running  BY <1>2 DEF LifeInv, Stopping
    <2>7. job.do = "destroy" =>
              /\ SourcesAfter(job.order, DOMAIN SourceOf)
              /\ call = "destroy" \/ (ext /\ (job.s \notin running \/ IsUwb(job.s)))
      BY <1>2 DEF LifeInv, Stopping
    <2>8. /\ job.do = "undo" => call = "start" /\ Startable(job.s)
          /\ job.do = "stop" => call = "stop"
      BY <1>2 DEF LifeInv, Stopping
    <2>9. ToCome' \/ (job.do = "undo" /\ ~Fresh(job.s) /\ PollersToCome')
      BY <1>4, <2>2, <2>3
    <2>10. QED
      BY <1>1, <1>3, <1>4, <1>6, <1>7, <2>4, <2>5, <2>6, <2>7, <2>8, <2>9 DEF Stopping
  <1>11. CameraSourcesRun'
    <2>1. ASSUME NEW s \in Assembly, NEW p \in CameraPolls, part'[s][p] # "off"
          PROVE  part'[s][SourceOf[p]] # "off"
      <3>1. part[s][p] # "off" /\ (s # job.s \/ p # ThePart)  BY <1>2, <1>5, <1>9, <2>1
      <3>2. part[s][SourceOf[p]] # "off"
        BY <1>9, <3>1 DEF LifeInv, CameraSourcesRun, CameraPolls
      <3>3. ~(s = job.s /\ SourceOf[p] = ThePart)
        <4>1. SUFFICES ASSUME s = job.s, SourceOf[p] = ThePart PROVE FALSE  OBVIOUS
        <4>2. PICK j \in DOMAIN job.order : j > job.done /\ job.order[j] = p
          BY <1>4, <1>9, <3>1, <4>1 DEF ToCome, PollersToCome
        <4>3. job.done + 1 <= j  BY <1>2, <4>2
        <4>4. QED  BY <1>2, <1>4, <4>1, <4>2, <4>3 DEF SourcesAfter, ThePart
      <3>4. QED  BY <1>5, <1>9, <2>1, <3>2, <3>3
    <2>2. QED  BY <1>6, <2>1 DEF CameraSourcesRun, CameraPolls
  <1>12. UnusedOff' /\ OnlyDevicesDie'
    BY <1>2, <1>5, <1>6 DEF LifeInv, UnusedOff, OnlyDevicesDie
  <1>13. OthersRest'
    <2>1. ASSUME NEW t \in Assembly, ~AtWork(t) PROVE Resting(t)'
      <3>1. t # job.s  BY <1>2, <2>1 DEF AtWork
      <3>2. QED  BY <1>1, <1>5, <1>6, <2>1, <3>1, OthersKeepResting
    <2>2. QED  BY <1>6, <1>7, <2>1 DEF OthersRest
  <1>14. DecodersRun' /\ BrokenOnes'
    <2>1. NoDestructor \subseteq Parts /\ "color" \in Parts  BY DEF NoDestructor, Parts
    <2>2. \A s \in Assembly, p \in Parts : part'[s][p] # "off" => part[s][p] # "off"
      BY <1>2, <1>5
    <2>3. DecodersRun'
      BY <1>1, <1>2, <1>3, <1>6, <2>1, <2>2 DEF LifeInv, DecodersRun
    <2>4. BrokenOnes'
      BY <1>1, <1>2, <1>3, <1>6, <1>7, <2>1, <2>2 DEF LifeInv, BrokenOnes, TypeOK
    <2>5. QED  BY <2>3, <2>4
  <1>15. Progress'
    BY <1>1, <1>2, <1>3, <1>6, <1>7 DEF LifeInv, Progress
  <1>16. OnlyMisuseTerminates'  BY <1>1, <1>2 DEF OnlyMisuseTerminates
  <1>17. QED
    BY <1>8, <1>10, <1>11, <1>12, <1>13, <1>14, <1>15, <1>16 DEF LifeInv

\* When the last part is behind it, what stops has left none on, but for what
\* an earlier start() has left.
LEMMA StoppedAtTheEnd ==
    ASSUME TypeOK, LifeInv, In({"undo", "stop", "destroy"}), ~PartsLeft
    PROVE  /\ job # NoJob /\ job.s \in held /\ job.do \in {"undo", "stop", "destroy"}
           /\ \/ AllOff(job.s)
              \/ job.do = "undo" /\ ~Fresh(job.s)
              \/ job.do = "stop" /\ job.order = <<>> /\ ~ext
                    /\ job.s \in broken /\ job.s \notin running
  <1>1. /\ job # NoJob /\ job.do \in {"undo", "stop", "destroy"} /\ job.s \in held
        /\ job.order \in Seq(Parts) /\ job.done \in 0..Len(job.order)
    BY InJob
  <1>2. job.done = Len(job.order)  BY <1>1 DEF PartsLeft
  <1>3. \A i \in DOMAIN job.order : ~(i > job.done)  BY <1>1, <1>2
  <1>4. ToCome => AllOff(job.s)  BY <1>3 DEF ToCome, AllOff
  <1>5. QED  BY <1>1, <1>4 DEF LifeInv, Stopping

\* A function ends: all started, or all off, or as an exception had left it.
LEMMA LifeEnd ==
    ASSUME TypeOK, LifeInv, Started \/ Stopped \/ Destroyed
    PROVE  LifeInv'
  <1>1. job' = NoJob /\ UNCHANGED <<host, part, hostUp, call, ahead, ret, starts, terminated>>
    BY DEF Started, Stopped, Destroyed
  <1>2. /\ CameraSourcesRun' /\ UnusedOff' /\ OnlyDevicesDie' /\ Assembly' = Assembly /\ ext' = ext
        /\ \A s : Kind(s)' = Kind(s) /\ IsUwb(s)' = IsUwb(s)
        /\ \A s : (AllOff(s)' <=> AllOff(s)) /\ (AllStarted(s)' <=> AllStarted(s))
    BY <1>1, PartsStay DEF LifeInv
  <1>3. job # NoJob /\ job.s \in held /\ job.s \notin ahead /\ call # "none" /\ ~terminated
    BY InJob DEF Started, Stopped, Destroyed, LifeInv, Progress
  <1>4. Starting' /\ Stopping' /\ OnlyMisuseTerminates'  BY <1>1, <1>3, NothingAtWork
  <1>5. \A t \in Assembly : t # job.s => Resting(t)  BY DEF LifeInv, OthersRest, AtWork
  <1>6. \A t : ~AtWork(t)'  BY <1>1 DEF AtWork
  <1>7. /\ held \subseteq Assembly /\ running \subseteq held /\ broken \subseteq held
    BY DEF TypeOK
  <1>8. CASE Started
    <2>1. /\ In({"start"}) /\ ~PartsLeft /\ held' = held
          /\ running' = running \cup {job.s} /\ broken' = broken \ {job.s}
      BY <1>8 DEF Started
    <2>2. /\ job.do = "start" /\ job.order \in Seq(Parts) /\ job.done = Len(job.order)
      BY <2>1, InJob DEF PartsLeft
    <2>3. AllStarted(job.s) /\ call = "start"
      BY <2>2 DEF LifeInv, Starting, AllStarted
    <2>4. OthersRest'
      BY <1>2, <1>3, <1>5, <2>1, <2>3 DEF OthersRest, Resting
    <2>5. DecodersRun' /\ BrokenOnes'
      BY <1>2, <1>1, <2>1, <2>2 DEF LifeInv, DecodersRun, BrokenOnes, AtWork
    <2>6. \A t \in ahead : Startable(t)' <=> Startable(t)
      BY <1>2, <1>3, <2>1 DEF Startable
    <2>7. Progress'
      BY <1>1, <1>2, <1>3, <1>6, <2>1, <2>3, <2>6 DEF LifeInv, Progress, AtWork
    <2>8. QED  BY <1>2, <1>4, <2>4, <2>5, <2>7 DEF LifeInv
  <1>9. CASE Stopped
    <2>1. /\ In({"stop"}) /\ ~PartsLeft /\ running' = running \ {job.s} /\ held' = held
          /\ broken' = IF job.order = <<>> THEN broken ELSE broken \ {job.s}
      BY <1>9 DEF Stopped
    <2>2. /\ job.do = "stop"
          /\ AllOff(job.s) \/ (job.order = <<>> /\ job.s \in broken /\ job.s \notin running)
      BY <2>1, StoppedAtTheEnd DEF In
    <2>3. call = "stop"  BY <2>2 DEF LifeInv, Stopping
    <2>4. OthersRest'
      BY <1>2, <1>3, <1>5, <1>7, <2>1, <2>2 DEF OthersRest, Resting
    <2>5. DecodersRun'
      <3>1. ASSUME NEW t \in Assembly, NEW p \in NoDestructor, part[t][p] # "off"
            PROVE  t \in running \ {job.s}
        <4>1. t \in running  BY <2>2, <3>1 DEF LifeInv, DecodersRun
        <4>2. p \in Parts  BY DEF NoDestructor, Parts
        <4>3. t # job.s  BY <2>2, <3>1, <4>1, <4>2 DEF AllOff
        <4>4. QED  BY <4>1, <4>3
      <3>2. QED  BY <1>1, <1>2, <2>1, <3>1 DEF DecodersRun
    <2>6. BrokenOnes'
      BY <1>1, <1>2, <2>1, <2>2 DEF LifeInv, BrokenOnes
    <2>7. Progress'
      BY <1>1, <1>2, <1>3, <1>6, <1>7, <2>1, <2>3 DEF LifeInv, Progress, AtWork
    <2>8. QED  BY <1>2, <1>4, <2>4, <2>5, <2>6, <2>7 DEF LifeInv
  <1>10. CASE Destroyed
    <2>1. /\ In({"destroy"}) /\ ~PartsLeft /\ running' = running \ {job.s}
          /\ held' = held \ {job.s} /\ broken' = broken \ {job.s}
      BY <1>10 DEF Destroyed
    <2>2. AllOff(job.s) /\ job.do = "destroy"  BY <2>1, StoppedAtTheEnd DEF In
    <2>3. OthersRest'
      BY <1>2, <1>3, <1>5, <1>7, <2>1, <2>2 DEF OthersRest, Resting
    <2>4. DecodersRun'
      <3>1. ASSUME NEW t \in Assembly, NEW p \in NoDestructor, part[t][p] # "off"
            PROVE  t \in running \ {job.s}
        <4>1. t \in running  BY <2>2, <3>1 DEF LifeInv, DecodersRun
        <4>2. p \in Parts  BY DEF NoDestructor, Parts
        <4>3. t # job.s  BY <2>2, <3>1, <4>2 DEF AllOff
        <4>4. QED  BY <4>1, <4>3
      <3>2. QED  BY <1>1, <1>2, <2>1, <3>1 DEF DecodersRun
    <2>5. BrokenOnes'
      BY <1>1, <1>2, <2>1, <2>2 DEF LifeInv, BrokenOnes, AtWork
    <2>6. \A t \in ahead : Startable(t)' <=> Startable(t)
      BY <1>2, <1>3, <2>1 DEF Startable
    <2>7. Progress'
      BY <1>1, <1>2, <1>3, <1>6, <1>7, <2>1, <2>6 DEF LifeInv, Progress, AtWork
    <2>8. QED  BY <1>2, <1>4, <2>3, <2>4, <2>5, <2>7 DEF LifeInv
  <1>11. QED  BY <1>8, <1>9, <1>10

\* A part refuses: of a fresh assembly what has been started is what is going
\* to be undone; of another, no source is stopped before what polls it.
LEMMA LifeRefuse ==
    ASSUME TypeOK, LifeInv, PartRefuses
    PROVE  LifeInv'
  <1>1. In({"start"}) /\ PartsLeft /\ ThePart \in MayRefuse
        /\ ~AlreadyUp(ThePart, part[job.s][ThePart])
        /\ job' = Job("undo", job.s, Rollback(Kind(job.s), ThePart))
        /\ UNCHANGED <<host, part, held, running, broken, hostUp, call, ahead, ret, starts,
                       terminated>>
    BY DEF PartRefuses
  <1>2. /\ job # NoJob /\ job.do = "start" /\ job.s \in Assembly /\ ~terminated
        /\ job.done + 1 \in DOMAIN job.order /\ job.order \in Seq(Parts) /\ job.done \in Nat
        /\ ThePart = job.order[job.done + 1]
    BY <1>1, InJob DEF ThePart
  <1>3. /\ CameraSourcesRun' /\ UnusedOff' /\ OnlyDevicesDie' /\ Assembly' = Assembly /\ ext' = ext
        /\ \A s : Kind(s)' = Kind(s) /\ IsUwb(s)' = IsUwb(s)
        /\ \A s : (AllOff(s)' <=> AllOff(s)) /\ (AllStarted(s)' <=> AllStarted(s))
    BY <1>1, PartsStay DEF LifeInv
  <1>4. PICK undo : undo = Rollback(Kind(job.s), ThePart)  OBVIOUS
  <1>5. /\ job'.do = "undo" /\ job'.s = job.s /\ job'.done = 0 /\ job'.order = undo /\ job' # NoJob
    BY <1>1, <1>4, JobFields DEF NoJob
  <1>6. Starting' /\ OnlyMisuseTerminates'  BY <1>1, <1>2, <1>5 DEF Starting, OnlyMisuseTerminates
  <1>7. \A s : /\ AtWork(s)' <=> AtWork(s)
               /\ Startable(s)' <=> Startable(s)
               /\ Fresh(s)' <=> Fresh(s)
    BY <1>1, <1>2, <1>3, <1>5 DEF AtWork, Startable, Fresh
  <1>8. /\ call = "start" /\ Startable(job.s)
        /\ job.order = StartOrder(Kind(job.s)) /\ Kind(job.s) \in Kinds
        /\ Fresh(job.s) =>
              \A i \in DOMAIN job.order : i > job.done => part[job.s][job.order[i]] = "off"
        /\ job.s \in running => AllStarted(job.s)
    BY <1>2 DEF LifeInv, Starting, TypeOK
  <1>9. \A i, j \in DOMAIN job.order : job.order[i] = job.order[j] => i = j
    BY <1>8, StartsOnce
  <1>10. \A i \in DOMAIN job.order : i <= job.done => job.order[i] \notin NoDestructor
    <2>1. \A i \in DOMAIN job.order : i <= job.done => i < job.done + 1  BY <1>2
    <2>2. QED  BY <1>1, <1>2, <1>8, <2>1, DecodersLast
  <1>11. Stopping'
    <2>1. undo \in Seq(Parts) /\ SourcesAfter(undo, CameraPolls)  BY <1>4, UndoIsOrder
    <2>2. \A m \in DOMAIN undo : m > 0  BY <2>1
    <2>3. ASSUME NEW p \in Parts, part[job.s][p] # "off"
          PROVE  \E i \in DOMAIN job.order :
                    job.order[i] = p /\ (i < job.done + 1 => \E m \in DOMAIN undo : undo[m] = p)
      <3>1. PICK i \in DOMAIN job.order : job.order[i] = p
        BY <1>2, <1>8, <2>3 DEF LifeInv, UnusedOff, Used
      <3>2. i < job.done + 1 => \E m \in DOMAIN undo : undo[m] = job.order[i]
        BY <1>1, <1>2, <1>4, <1>8, <3>1, UndoesEverything
      <3>3. QED  BY <3>1, <3>2
    <2>4. CASE Fresh(job.s)
      <3>1. ASSUME NEW p \in Parts, part[job.s][p] # "off"
            PROVE  \E m \in DOMAIN undo : m > 0 /\ undo[m] = p
        <4>1. PICK i \in DOMAIN job.order :
                 job.order[i] = p /\ (i < job.done + 1 => \E m \in DOMAIN undo : undo[m] = p)
          BY <2>3, <3>1
        <4>2. i < job.done + 1  BY <1>2, <1>8, <2>4, <3>1, <4>1
        <4>3. QED  BY <2>2, <4>1, <4>2
      <3>2. ToCome'  BY <1>1, <1>5, <3>1 DEF ToCome
      <3>3. SourcesAfter(job.order, CameraPolls)'  BY <1>5, <2>1 DEF SourcesAfter, CameraPolls
      <3>4. job.s \notin running  BY <2>4 DEF Fresh
      <3>5. QED  BY <1>1, <1>3, <1>5, <1>7, <1>8, <3>2, <3>3, <3>4 DEF Stopping
    <2>5. CASE ~Fresh(job.s)
      <3>1. job.s \in running => undo = <<>>
        BY <1>1, <1>2, <1>4, <1>8, UwbUndoesNothing DEF Startable
      <3>2. ASSUME undo # <<>>, NEW p \in CameraPolls, part[job.s][p] # "off"
            PROVE  \E m \in DOMAIN undo : m > 0 /\ undo[m] = p
        <4>1. p \in Parts /\ p \in {"depth", "color"} \cup NoDestructor
          BY DEF CameraPolls, SourceOf, Parts, NoDestructor
        <4>2. PICK i \in DOMAIN job.order :
                 job.order[i] = p /\ (i < job.done + 1 => \E m \in DOMAIN undo : undo[m] = p)
          BY <2>3, <3>2, <4>1
        <4>3. i # job.done + 1
          <5>1. SUFFICES ASSUME i = job.done + 1 PROVE FALSE  OBVIOUS
          <5>2. p = ThePart  BY <1>2, <4>2, <5>1
          <5>3. part[job.s][p] # "dead"
            BY <1>2, <4>1 DEF LifeInv, OnlyDevicesDie, MayEnd, NoDestructor
          <5>4. part[job.s][p] = "up"  BY <1>2, <3>2, <4>1, <5>3 DEF TypeOK
          <5>5. QED  BY <1>1, <4>1, <5>2, <5>4 DEF AlreadyUp, NoDestructor
        <4>4. ~(i > job.done + 1)
          <5>1. SUFFICES ASSUME i > job.done + 1 PROVE FALSE  OBVIOUS
          <5>2. job.s \in broken /\ job.s \notin running  BY <2>5, <3>1, <3>2 DEF Fresh
          <5>3. ~\E m \in DOMAIN job.order : m <= job.done /\ job.order[m] = p
            BY <1>2, <1>9, <4>2, <5>1
          <5>4. CASE p = "depth"
            BY <1>2, <1>4, <1>8, <3>2, <4>2, <5>1, <5>4, BeforeDepth
          <5>5. CASE p = "color"
            BY <1>2, <3>2, <5>2, <5>3, <5>5 DEF LifeInv, BrokenOnes
          <5>6. CASE p \in NoDestructor
            BY <1>2, <3>2, <5>2, <5>3, <5>6 DEF LifeInv, DecodersRun
          <5>7. QED  BY <4>1, <5>4, <5>5, <5>6
        <4>5. i < job.done + 1  BY <1>2, <4>2, <4>3, <4>4
        <4>6. QED  BY <2>2, <4>2, <4>5
      <3>3. undo = <<>> \/ PollersToCome'
        BY <1>1, <1>5, <3>2 DEF PollersToCome, CameraPolls
      <3>4. SourcesAfter(job.order, CameraPolls)'  BY <1>5, <2>1 DEF SourcesAfter, CameraPolls
      <3>5. QED  BY <1>1, <1>3, <1>5, <1>7, <1>8, <2>5, <3>1, <3>3, <3>4 DEF Stopping
    <2>6. QED  BY <2>4, <2>5
  <1>12. OthersRest'
    <2>1. ASSUME NEW t \in Assembly, ~AtWork(t) PROVE Resting(t)'
      BY <1>1, <1>3, <2>1, OthersKeepResting
    <2>2. QED  BY <1>3, <1>7, <2>1 DEF OthersRest
  <1>13. DecodersRun' /\ BrokenOnes'
    <2>1. DecodersRun'
      BY <1>1, <1>2, <1>3, <1>10 DEF LifeInv, DecodersRun
    <2>2. \A i \in DOMAIN job.order : i <= job.done => job.order[i] # "color"
      <3>1. SUFFICES ASSUME NEW i \in DOMAIN job.order, i <= job.done, job.order[i] = "color"
                     PROVE  FALSE
        OBVIOUS
      <3>2. i = Len(job.order)  BY <1>8, <3>1, ColorLast
      <3>3. QED  BY <1>2, <3>1, <3>2
    <2>3. BrokenOnes'
      BY <1>1, <1>2, <1>3, <1>7, <2>2 DEF LifeInv, BrokenOnes
    <2>4. QED  BY <2>1, <2>3
  <1>14. Progress'
    BY <1>1, <1>2, <1>3, <1>5, <1>7 DEF LifeInv, Progress
  <1>15. QED  BY <1>3, <1>6, <1>11, <1>12, <1>13, <1>14 DEF LifeInv

\* start() has undone what it had started: a fresh assembly is off.
LEMMA LifeRefused ==
    ASSUME TypeOK, LifeInv, Refused
    PROVE  LifeInv'
  <1>1. In({"undo"}) /\ ~PartsLeft
        /\ UNCHANGED <<host, part, held, running, broken, hostUp, starts, terminated>>
    BY DEF Refused, Begin, ReturnAs
  <1>2. /\ job # NoJob /\ job.do = "undo" /\ job.s \in held /\ job.s \in Assembly /\ ~terminated
        /\ Kind(job.s) \in Kinds
        /\ AllOff(job.s) \/ ~Fresh(job.s)
    BY <1>1, InJob, StoppedAtTheEnd DEF In
  <1>3. /\ CameraSourcesRun' /\ UnusedOff' /\ OnlyDevicesDie' /\ Assembly' = Assembly /\ ext' = ext
        /\ \A s : Kind(s)' = Kind(s) /\ IsUwb(s)' = IsUwb(s)
        /\ \A s : (AllOff(s)' <=> AllOff(s)) /\ (AllStarted(s)' <=> AllStarted(s))
    BY <1>1, PartsStay DEF LifeInv
  <1>4. /\ call = "start" /\ Startable(job.s)
        /\ job.s \in running => AllStarted(job.s)
    BY <1>2 DEF LifeInv, Stopping
  <1>5. CASE ext
    <2>1. /\ job' = Job("destroy", job.s, DestroyOrder(Kind(job.s)))
          /\ UNCHANGED <<ahead, call, ret>>
      BY <1>5 DEF Refused, Begin
    <2>2. /\ job'.do = "destroy" /\ job'.s = job.s /\ job' # NoJob
          /\ job'.order = DestroyOrder(Kind(job.s))
      BY <2>1, JobFields DEF NoJob
    <2>3. Fresh(job.s) /\ AllOff(job.s)  BY <1>2, <1>4, <1>5 DEF Startable, Fresh
    <2>4. Starting' /\ OnlyMisuseTerminates'
      BY <1>1, <1>2, <2>2 DEF Starting, OnlyMisuseTerminates
    <2>5. Stopping'
      <3>1. SourcesAfter(DestroyOrder(Kind(job.s)), DOMAIN SourceOf)
        BY <1>2, DestroysEverything
      <3>2. /\ SourcesAfter(job.order, DOMAIN SourceOf)'
            /\ SourcesAfter(job.order, CameraPolls)'
        BY <2>2, <3>1 DEF SourcesAfter, CameraPolls
      <3>3. ToCome'  BY <1>1, <2>2, <2>3 DEF AllOff, ToCome
      <3>4. QED  BY <1>1, <1>3, <1>5, <2>2, <2>3, <3>2, <3>3 DEF Stopping, Fresh
    <2>6. \A s : /\ AtWork(s)' <=> AtWork(s)
                 /\ Startable(s)' <=> Startable(s)
      BY <1>1, <1>2, <1>3, <2>2 DEF AtWork, Startable
    <2>7. OthersRest'
      <3>1. ASSUME NEW t \in Assembly, ~AtWork(t) PROVE Resting(t)'
        BY <1>1, <1>3, <3>1, OthersKeepResting
      <3>2. QED  BY <1>3, <2>6, <3>1 DEF OthersRest
    <2>8. DecodersRun' /\ BrokenOnes'
      BY <1>1, <1>2, <1>3, <2>2, <2>6 DEF LifeInv, DecodersRun, BrokenOnes
    <2>9. Progress'
      BY <1>1, <1>2, <1>3, <2>1, <2>2, <2>6 DEF LifeInv, Progress
    <2>10. QED  BY <1>3, <2>4, <2>5, <2>7, <2>8, <2>9 DEF LifeInv
  <1>6. CASE ~ext
    <2>1. job' = NoJob /\ call' = "none" /\ ahead' = {} /\ ret' = "false"
      BY <1>6 DEF Refused, ReturnAs
    <2>2. Starting' /\ Stopping' /\ OnlyMisuseTerminates'
      BY <1>1, <1>2, <2>1, NothingAtWork
    <2>3. held = {job.s} /\ ~hostUp
      BY <1>2, <1>4, <1>6 DEF LifeInv, Progress
    <2>4. ASSUME NEW t \in Assembly PROVE Resting(t)'
      <3>1. CASE t = job.s
        BY <1>1, <1>2, <1>3, <1>4, <3>1 DEF Resting, Fresh
      <3>2. CASE t # job.s
        <4>1. ~AtWork(t)  BY <3>2 DEF AtWork
        <4>2. QED  BY <1>1, <1>3, <4>1, OthersKeepResting
      <3>3. QED  BY <3>1, <3>2
    <2>5. OthersRest'  BY <1>3, <2>4 DEF OthersRest
    <2>6. DecodersRun' /\ BrokenOnes'
      BY <1>1, <1>2, <1>3, <1>6 DEF LifeInv, DecodersRun, BrokenOnes
    <2>7. \A s \in running : Kind(s) \in StartsUnguarded
      BY <1>4, <2>3 DEF TypeOK, Startable
    <2>8. Progress'
      BY <1>1, <1>2, <1>3, <1>6, <2>1, <2>3, <2>7 DEF LifeInv, Progress
    <2>9. QED  BY <1>3, <2>2, <2>5, <2>6, <2>8 DEF LifeInv
  <1>7. QED  BY <1>5, <1>6

\* A part throws: the assembly is broken, and the call unwinds.
LEMMA LifeThrows ==
    ASSUME TypeOK, LifeInv, PartThrows
    PROVE  LifeInv'
  <1>1. In({"start"}) /\ PartsLeft /\ call' = "unwind" /\ ahead' = {}
        /\ ThePart \in MayThrow /\ part[job.s][ThePart] = "off"
        /\ broken' = broken \cup {job.s}
        /\ UNCHANGED <<host, part, held, running, hostUp, ret, starts, terminated>>
    BY DEF PartThrows
  <1>2. /\ job # NoJob /\ job.do = "start" /\ job.s \in held /\ job.s \in Assembly
        /\ ~terminated /\ Kind(job.s) \in Kinds
        /\ job.done + 1 \in DOMAIN job.order /\ job.order \in Seq(Parts) /\ job.done \in Nat
        /\ ThePart = job.order[job.done + 1]
    BY <1>1, InJob DEF ThePart
  <1>3. /\ CameraSourcesRun' /\ UnusedOff' /\ OnlyDevicesDie' /\ Assembly' = Assembly /\ ext' = ext
        /\ \A s : Kind(s)' = Kind(s) /\ IsUwb(s)' = IsUwb(s)
        /\ \A s : (AllOff(s)' <=> AllOff(s)) /\ (AllStarted(s)' <=> AllStarted(s))
    BY <1>1, PartsStay DEF LifeInv
  <1>4. /\ call = "start" /\ job.order = StartOrder(Kind(job.s))
        /\ Fresh(job.s) =>
              \A i \in DOMAIN job.order : i > job.done => part[job.s][job.order[i]] = "off"
        /\ job.s \in running => AllStarted(job.s)
    BY <1>2 DEF LifeInv, Starting
  <1>5. job.s \notin running  BY <1>1, <1>2, <1>4 DEF AllStarted
  <1>6. \A p \in NoDestructor : part[job.s][p] = "off"
    <2>1. \A i \in DOMAIN job.order : i <= job.done => i < job.done + 1  BY <1>2
    <2>2. \A i \in DOMAIN job.order : i <= job.done => job.order[i] \notin NoDestructor
      BY <1>1, <1>2, <1>4, <2>1, DecodersLast
    <2>3. QED  BY <1>2, <1>5, <2>2 DEF LifeInv, DecodersRun
  <1>7. part[job.s]["color"] = "off"
    <2>1. "color" \in Parts  BY DEF Parts
    <2>2. \A i \in DOMAIN job.order : job.order[i] = "color" => i > job.done
      <3>1. SUFFICES ASSUME NEW i \in DOMAIN job.order, job.order[i] = "color"
                     PROVE  i > job.done
        OBVIOUS
      <3>2. i = Len(job.order)  BY <1>2, <1>4, <3>1, ColorLast
      <3>3. QED  BY <1>2, <3>2
    <2>3. CASE Fresh(job.s)
      <3>1. CASE "color" \in Used(Kind(job.s))
        BY <1>4, <2>2, <2>3, <3>1 DEF Used
      <3>2. CASE "color" \notin Used(Kind(job.s))
        BY <1>2, <2>1, <3>2 DEF LifeInv, UnusedOff
      <3>3. QED  BY <3>1, <3>2
    <2>4. CASE ~Fresh(job.s)
      <3>1. job.s \in broken  BY <1>5, <2>4 DEF Fresh
      <3>2. ~\E i \in DOMAIN job.order : i <= job.done /\ job.order[i] = "color"
        BY <1>2, <2>2
      <3>3. QED  BY <3>1, <3>2 DEF LifeInv, BrokenOnes
    <2>5. QED  BY <2>3, <2>4
  <1>8. \A t \in Assembly : t # job.s => Resting(t)'
    <2>1. SUFFICES ASSUME NEW t \in Assembly, t # job.s PROVE Resting(t)'  OBVIOUS
    <2>2. ~AtWork(t)  BY <2>1 DEF AtWork
    <2>3. QED  BY <1>1, <1>3, <2>1, <2>2, OthersKeepResting
  <1>9. DecodersRun'
    <2>1. \A t \in Assembly : \A p \in NoDestructor : part[t][p] # "off" => t \in running
      BY <1>6 DEF LifeInv, DecodersRun, AtWork
    <2>2. QED  BY <1>1, <1>3, <2>1 DEF DecodersRun
  <1>10. \A t \in broken' : part[t]["color"] = "off"
    BY <1>1, <1>7 DEF LifeInv, BrokenOnes, AtWork
  <1>11. \A t \in broken : ~ext \/ Kind(t) = "uwb_tx"
    BY <1>2 DEF LifeInv, BrokenOnes
  <1>12. ~hostUp /\ (ext => \A s \in held : s = job.s \/ s \in running \/ IsUwb(s))
    BY <1>4 DEF LifeInv, Progress, AtWork
  <1>13. CASE ext /\ Kind(job.s) # "uwb_tx"
    <2>1. job' = Job("destroy", job.s, DestroyOrder(Kind(job.s)))
      BY <1>13 DEF PartThrows
    <2>2. /\ job'.do = "destroy" /\ job'.s = job.s /\ job'.done = 0 /\ job' # NoJob
          /\ job'.order = DestroyOrder(Kind(job.s))
      BY <2>1, JobFields DEF NoJob
    <2>3. Starting' /\ OnlyMisuseTerminates'
      BY <1>1, <1>2, <2>2 DEF Starting, OnlyMisuseTerminates
    <2>4. Stopping'
      <3>1. DestroyOrder(Kind(job.s)) \in Seq(Parts)
            /\ SourcesAfter(DestroyOrder(Kind(job.s)), DOMAIN SourceOf)
        BY <1>2, DestroysEverything
      <3>2. /\ SourcesAfter(job.order, DOMAIN SourceOf)'
            /\ SourcesAfter(job.order, CameraPolls)'
        BY <2>2, <3>1 DEF SourcesAfter, CameraPolls
      <3>3. ASSUME NEW p \in Parts, part[job.s][p] # "off"
            PROVE  \E i \in DOMAIN job'.order : i > job'.done /\ job'.order[i] = p
        <4>1. p \in Used(Kind(job.s))  BY <1>2, <3>3 DEF LifeInv, UnusedOff
        <4>2. PICK i \in DOMAIN job'.order : job'.order[i] = p
          BY <1>2, <2>2, <4>1, DestroysEverything
        <4>3. i > 0  BY <2>2, <3>1
        <4>4. QED  BY <2>2, <4>2, <4>3
      <3>4. ToCome'  BY <1>1, <2>2, <3>3 DEF ToCome
      <3>5. QED  BY <1>1, <1>3, <1>5, <1>13, <2>2, <3>2, <3>4 DEF Stopping
    <2>5. OthersRest'  BY <1>3, <1>8, <2>2 DEF OthersRest, AtWork
    <2>6. BrokenOnes'
      BY <1>1, <1>3, <1>10, <1>11, <2>2 DEF BrokenOnes, AtWork
    <2>7. Progress'
      BY <1>1, <1>2, <1>3, <1>12, <2>2 DEF LifeInv, Progress, AtWork
    <2>8. QED  BY <1>3, <1>9, <2>3, <2>4, <2>5, <2>6, <2>7 DEF LifeInv
  <1>14. CASE ~(ext /\ Kind(job.s) # "uwb_tx")
    <2>1. job' = NoJob  BY <1>14 DEF PartThrows
    <2>2. Starting' /\ Stopping' /\ OnlyMisuseTerminates'  BY <1>1, <1>2, <2>1, NothingAtWork
    <2>3. \A t : t = job.s => Resting(t)'
      BY <1>1, <1>2, <1>5 DEF Resting
    <2>4. OthersRest'  BY <1>3, <1>8, <2>3 DEF OthersRest
    <2>5. BrokenOnes'
      BY <1>1, <1>3, <1>10, <1>11, <1>14 DEF BrokenOnes
    <2>6. ext => IsUwb(job.s)  BY <1>14 DEF IsUwb, List
    <2>7. Progress'
      BY <1>1, <1>2, <1>3, <1>12, <2>1, <2>6 DEF LifeInv, Progress, AtWork
    <2>8. QED  BY <1>3, <1>9, <2>2, <2>4, <2>5, <2>7 DEF LifeInv
  <1>15. QED  BY <1>13, <1>14

\* Nothing has been started.
LEMMA LifeInit ==
    ASSUME Init
    PROVE  LifeInv
  <1>1. job = NoJob /\ call = "none" /\ ahead = {} /\ running = {} /\ broken = {}
        /\ hostUp = FALSE /\ ret = "none" /\ terminated = FALSE
    BY DEF Init
  <1>2. \A s \in Assembly, p \in Parts : part[s][p] = "off"  BY DEF Init
  <1>3. Starting /\ Stopping /\ OnlyMisuseTerminates
    BY <1>1, JobFields DEF NoJob, Starting, Stopping, OnlyMisuseTerminates
  <1>4. /\ CameraSourcesRun /\ UnusedOff /\ OthersRest
        /\ DecodersRun /\ BrokenOnes /\ OnlyDevicesDie
    <2>1. DOMAIN SourceOf \subseteq Parts /\ NoDestructor \subseteq Parts
      BY DEF SourceOf, NoDestructor, Parts
    <2>2. QED
      BY <1>1, <1>2, <2>1 DEF CameraSourcesRun, UnusedOff, OthersRest, Resting, AllOff,
                              DecodersRun, BrokenOnes, OnlyDevicesDie
  <1>5. Progress
    <2>1. ~ext => held \subseteq {<<1, 0>>}
      <3>1. SUFFICES ASSUME ~ext PROVE held \subseteq {<<1, 0>>}  OBVIOUS
      <3>2. PICK k \in Kinds : machine = [file |-> NoFile,
                                     plan |-> [s \in {1} |-> [kind |-> k, name |-> NoName]]]
        BY <3>1 DEF Init
      <3>3. Sensor = {1} /\ held = {s \in Assembly : s[2] = 0}  BY <3>1, <3>2 DEF Sensor, Init
      <3>4. QED  BY <3>3 DEF Assembly
    <2>2. ext => held = {}  BY DEF Init
    <2>3. QED  BY <1>1, <2>1, <2>2 DEF Progress
  <1>6. QED  BY <1>3, <1>4, <1>5 DEF LifeInv

\* Every assembly is well typed, all started, all stopped, or where an
\* exception or the call in progress has left it.
THEOREM LifeInvariant == Spec => [](TypeOK /\ LifeInv)
  <1>1. Init => TypeOK /\ LifeInv  BY LifeTypes, LifeInit
  <1>2. TypeOK /\ LifeInv /\ [Next]_vars => (TypeOK /\ LifeInv)'
    <2>1. SUFFICES ASSUME TypeOK, LifeInv, [Next]_vars PROVE TypeOK' /\ LifeInv'  OBVIOUS
    <2>2. TypeOK'  BY <2>1, LifeTypes DEF LifeInv
    <2>3. LifeInv'
      <3>1. CASE UNCHANGED vars
        <4>1. UNCHANGED <<host, part, held, running, broken, hostUp, call, ahead, job, ret,
                          starts, terminated>>
          BY <3>1 DEF vars
        <4>2. /\ Assembly' = Assembly /\ ext' = ext
              /\ \A s : Kind(s)' = Kind(s) /\ IsUwb(s)' = IsUwb(s)
          BY <4>1, HostStays
        <4>3. /\ CameraSourcesRun' /\ UnusedOff' /\ OnlyDevicesDie'
              /\ \A s : (AllOff(s)' <=> AllOff(s)) /\ (AllStarted(s)' <=> AllStarted(s))
          BY <2>1, <4>1, PartsStay DEF LifeInv
        <4>4. \A s : (AtWork(s)' <=> AtWork(s)) /\ (Startable(s)' <=> Startable(s))
                     /\ (Fresh(s)' <=> Fresh(s))
          BY <4>1, <4>2, JobFields DEF AtWork, Startable, Fresh, NoJob, Job
        <4>5. Starting' /\ Stopping'
          BY <2>1, <4>1, <4>2, <4>3, <4>4
             DEF LifeInv, Starting, Stopping, SourcesAfter, CameraPolls, ToCome, PollersToCome
        <4>6. OthersRest' /\ DecodersRun' /\ BrokenOnes'
          BY <2>1, <4>1, <4>2, <4>3, <4>4
             DEF LifeInv, OthersRest, Resting, DecodersRun, BrokenOnes
        <4>7. Progress'
          <5>1. job' = NoJob <=> job = NoJob  BY <4>1, JobFields DEF NoJob, Job
          <5>2. QED  BY <2>1, <4>1, <4>2, <4>4, <5>1 DEF LifeInv, Progress
        <4>8. OnlyMisuseTerminates'
          BY <2>1, <4>1, <4>2 DEF LifeInv, OnlyMisuseTerminates
        <4>9. QED  BY <4>3, <4>5, <4>6, <4>7, <4>8 DEF LifeInv
      <3>2. CASE StopPart
        <4>1. \/ terminated' /\ UNCHANGED <<part, job>>
              \/ part' = [part EXCEPT ![job.s][ThePart] = "off"] /\ NextPart
                 /\ UNCHANGED terminated
          BY <3>2 DEF StopPart
        <4>2. QED  BY <2>1, <3>2, <4>1, LifeStopPart, LifeDestroysDecoder
      <3>3. QED
        BY <2>1, <3>1, <3>2, LifeStart, LifeStopOrDestroy, LifeStartNext, LifeNext, LifeReturn,
           LifeStartPart, LifeEnd, LifeRefuse, LifeRefused, LifeThrows, LifeThreadEnds
           DEF Next, Horizon
    <2>4. QED  BY <2>2, <2>3
  <1>3. QED  BY <1>1, <1>2, PTL DEF Spec

\* Every reachable state of a machine and its owner is well typed.
THEOREM LifeTypeCorrect == Spec => []TypeOK
  BY LifeInvariant, PTL

\* Whatever refuses, throws or dies, std::terminate takes a running receiver
\* that is destroyed, or a second start() of an assembly of the owner's own.
THEOREM LifeOnlyMisuseTerminates == Spec => []OnlyMisuseTerminates
  <1>1. LifeInv => OnlyMisuseTerminates  BY DEF LifeInv
  <1>2. QED  BY <1>1, LifeInvariant, PTL

\* No thread of a camera polls a buffer whose producer is not started.
THEOREM LifeCameraSourcesRun == Spec => []CameraSourcesRun
  <1>1. LifeInv => CameraSourcesRun  BY DEF LifeInv
  <1>2. QED  BY <1>1, LifeInvariant, PTL

\* No thread polls a buffer that has been destroyed.
THEOREM LifeSourceOutlives == Spec => []SourceOutlives
  <1>1. TypeOK /\ LifeInv => SourceOutlives
    <2>1. SUFFICES ASSUME TypeOK, LifeInv, NEW s \in Assembly, NEW p \in DOMAIN SourceOf,
                          part[s][p] # "off", Gone(s, SourceOf[p])
                   PROVE  FALSE
      BY DEF SourceOutlives
    <2>2. p \in Parts  BY DEF SourceOf, Parts
    <2>3. s \in held
      BY <2>1, <2>2 DEF LifeInv, OthersRest, AtWork, Resting, AllOff, TypeOK
    <2>4. PICK i \in 1..job.done : /\ job.do = "destroy" /\ job.s = s
                                   /\ job.order[i] = SourceOf[p]
      BY <2>1, <2>3 DEF Gone
    <2>5. /\ job.order \in Seq(Parts) /\ job.done \in 0..Len(job.order)
      BY <2>1, <2>4, JobFields DEF TypeOK, NoJob
    <2>6. ToCome /\ SourcesAfter(job.order, DOMAIN SourceOf)
      BY <2>1, <2>4 DEF LifeInv, Stopping
    <2>7. PICK j \in DOMAIN job.order : j > job.done /\ job.order[j] = p
      BY <2>1, <2>2, <2>4, <2>6 DEF ToCome
    <2>8. i \in DOMAIN job.order /\ i <= j  BY <2>5, <2>7
    <2>9. QED  BY <2>4, <2>6, <2>7, <2>8 DEF SourcesAfter
  <1>2. QED  BY <1>1, LifeInvariant, PTL

\* After a failed start(), stop() or the destructor no thread is left, but for
\* the two excuses.
THEOREM LifeNothingLeftBehind == Spec => []NothingLeftBehind
  <1>1. TypeOK /\ LifeInv => NothingLeftBehind
    <2>1. SUFFICES ASSUME TypeOK, LifeInv, Idle PROVE NothingLeftBehind
      BY DEF NothingLeftBehind
    <2>2. \A s \in Assembly : Resting(s)
      BY <2>1 DEF LifeInv, OthersRest, AtWork, Progress, Idle
    <2>3. ext /\ ret \in {"false", "stopped", "destroyed"} => held = {}
      BY <2>1 DEF LifeInv, Progress, Idle
    <2>4. ret = "destroyed" => held = {}  BY <2>1 DEF LifeInv, Progress, Idle
    <2>5. ret \in {"stopped", "destroyed"} => running = {}
      BY <2>1 DEF LifeInv, Progress, Idle
    <2>6. ret = "false" => \A s \in running : Kind(s) \in StartsUnguarded
      BY <2>1 DEF LifeInv, Progress, Idle
    <2>7. QED  BY <2>2, <2>3, <2>4, <2>5, <2>6 DEF Resting, NothingLeftBehind
  <1>2. QED  BY <1>1, LifeInvariant, PTL

\* start() that returned true has started every part of what it kept.
THEOREM LifeTrueMeansStarted == Spec => []TrueMeansStarted
  <1>1. TypeOK /\ LifeInv => TrueMeansStarted
    BY DEF LifeInv, TypeOK, Progress, OthersRest, AtWork, Resting, TrueMeansStarted, Idle
  <1>2. QED  BY <1>1, LifeInvariant, PTL

\* For every configuration file, what one side holds the other side plans too.
THEOREM LifeHeldHasPeer == Spec => []HeldHasPeer
  <1> DEFINE Planned == /\ machine.file \in ConfigFile
                        /\ ext => \/ machine.plan = RunTx(machine.file)
                                  \/ machine.plan = RunRx(machine.file)
  <1>1. Init => Planned
    <2>1. SUFFICES ASSUME Init PROVE Planned  OBVIOUS
    <2>2. CASE ext = FALSE
      <3>1. PICK k \in Kinds : machine = [file |-> NoFile,
                                     plan |-> [s \in {1} |-> [kind |-> k, name |-> NoName]]]
        BY <2>1, <2>2 DEF Init
      <3>2. QED  BY <2>2, <3>1, NothingConfigured
    <2>3. CASE ext = TRUE
      <3>1. PICK root \in ConfigFile : \E plan \in {RunTx(root), RunRx(root)} :
                machine = [file |-> root, plan |-> plan]
        BY <2>1, <2>3 DEF Init
      <3>2. QED  BY <3>1
    <2>4. QED  BY <2>1, <2>2, <2>3 DEF Init
  <1>2. TypeOK /\ LifeInv /\ Planned /\ [Next]_vars => Planned'
    BY LifeTypes DEF LifeInv, host
  <1>3. TypeOK /\ Planned => HeldHasPeer
    <2>1. SUFFICES ASSUME TypeOK, Planned, ext, NEW s \in held
                   PROVE  \E r \in DOMAIN PeerPlan :
                            PeerPlan[r] = [kind |-> PeerOf[Kind(s)],
                                           name |-> machine.plan[s[1]].name]
      BY DEF HeldHasPeer
    <2>2. PICK root \in ConfigFile : root = machine.file  BY <2>1
    <2>3. \A t \in held : t[1] \in DOMAIN machine.plan
      BY <2>1 DEF TypeOK, Sensor, Assembly
    <2>4. CASE machine.plan = RunTx(root)
      <3>1. PeerPlan = RunRx(root)
        BY <2>1, <2>2, <2>3, <2>4, SidesAgree DEF PeerPlan, Kind
      <3>2. s[1] \in DOMAIN RunTx(root) /\ Kind(s) = RunTx(root)[s[1]].kind
        BY <2>1, <2>3, <2>4 DEF Kind
      <3>3. PeerPlan[s[1]] = [kind |-> PeerOf[Kind(s)], name |-> machine.plan[s[1]].name]
        BY <2>4, <3>1, <3>2, SidesAgree
      <3>4. s[1] \in DOMAIN PeerPlan  BY <3>1, <3>2, SidesAgree
      <3>5. QED  BY <3>3, <3>4
    <2>5. CASE machine.plan = RunRx(root)
      <3>1. PeerPlan = RunTx(root)
        <4>1. Tx \cap Rx = {}  BY DEF Tx, Rx
        <4>2. \A t \in held : Kind(t) \notin Tx  BY <2>3, <2>5, <4>1, SidesAgree DEF Kind
        <4>3. QED  BY <2>2, <4>2 DEF PeerPlan
      <3>2. s[1] \in DOMAIN RunRx(root) /\ Kind(s) = RunRx(root)[s[1]].kind
        BY <2>1, <2>3, <2>5 DEF Kind
      <3>3. PeerPlan[s[1]] = [kind |-> PeerOf[Kind(s)], name |-> machine.plan[s[1]].name]
        BY <2>5, <3>1, <3>2, SidesAgree
      <3>4. s[1] \in DOMAIN PeerPlan  BY <3>1, <3>2, SidesAgree
      <3>5. QED  BY <3>3, <3>4
    <2>6. QED  BY <2>1, <2>2, <2>4, <2>5
  <1> HIDE DEF Planned
  <1>4. QED  BY <1>1, <1>2, <1>3, LifeInvariant, PTL DEF Spec
=============================================================================
