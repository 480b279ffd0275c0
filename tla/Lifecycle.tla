----------------------------- MODULE Lifecycle -----------------------------
(***************************************************************************)
(* start(), stop() and destruction of the assemblies in src/system: which   *)
(* parts (objects that own a thread) are started in which order, what is    *)
(* undone when one of them refuses, what is left when one throws, and what  *)
(* ExtSensorIoTx and ExtSensorIoRx make of it for a whole machine.          *)
(*                                                                         *)
(* A host is the object the owner holds: one assembly used directly         *)
(* (docs/embedding.md), or an ExtSensorIoTx/Rx with its sensors.  The owner *)
(* is one thread, which may call whatever it likes in whatever order, also  *)
(* after an exception: in a call of the host (call), which goes through the *)
(* assemblies, it is in a function of one of them (job), which goes through *)
(* the parts.  Meanwhile a capture thread may end by itself.                *)
(*                                                                         *)
(* A part is "off" (no thread), "up", or "dead" (its thread has ended and   *)
(* was not joined).  Assigning to a std::thread that was not joined, or     *)
(* destroying one, terminates the process.                                  *)
(***************************************************************************)
EXTENDS SensorConfig, Sequences

CONSTANT MaxStarts \* bound: calls of start()

ASSUME LifecycleAssumption == MaxStarts \in Nat

-----------------------------------------------------------------------------
\* The assemblies.

Tx == {"uwb_tx", "realsense_tx", "depth_tx", "mic_tx"}
Rx == {"uwb_rx", "realsense_rx", "mic_rx"}
Kinds == Tx \cup Rx

\* Mutant: the decoders are started before their subscribers.
StartOrderDecodersFirst(k) ==
    CASE k = "realsense_tx" -> <<"capture", "depth", "color">>
      [] k = "depth_tx"     -> <<"capture", "depth">>
      [] k = "mic_tx"       -> <<"audio">>
      [] k = "uwb_tx"       -> <<"uwbPub", "serial">>
      [] k = "realsense_rx" -> <<"colorDec", "depthDec", "colorSub", "depthSub">>
      [] k = "uwb_rx"       -> <<"uwbSub">>
      [] k = "mic_rx"       -> <<"audioSub">>

\* The order in which start() starts the parts ("depth_tx" is a
\* RealsenseTransmitter whose color_enabled is false).
StartOrder(k) ==
    CASE k = "realsense_tx" -> <<"capture", "depth", "color">>
      [] k = "depth_tx"     -> <<"capture", "depth">>
      [] k = "mic_tx"       -> <<"audio">>
      [] k = "uwb_tx"       -> <<"uwbPub", "serial">>
      [] k = "realsense_rx" -> <<"colorSub", "depthSub", "colorDec", "depthDec">>
      [] k = "uwb_rx"       -> <<"uwbSub">>
      [] k = "mic_rx"       -> <<"audioSub">>

\* Mutant: RealsenseTransmitter::stop leaves the capture alone.
StopOrderForgetsCapture(k) ==
    CASE k \in {"realsense_tx", "depth_tx"} -> <<"color", "depth">>
      [] k = "uwb_tx"       -> <<"serial", "uwbPub">>
      [] k = "realsense_rx" -> <<"colorDec", "depthDec", "colorSub", "depthSub">>
      [] OTHER              -> StartOrder(k)

StopOrder(k) ==
    CASE k \in {"realsense_tx", "depth_tx"} -> <<"color", "depth", "capture">>
      [] k = "uwb_tx"       -> <<"serial", "uwbPub">>
      [] k = "realsense_rx" -> <<"colorDec", "depthDec", "colorSub", "depthSub">>
      [] OTHER              -> StartOrder(k)

\* Mutant: start() returns without stopping the capture.
RollbackNothing(k, p) == <<>>

\* What start() stops again when part p has returned false.
Rollback(k, p) ==
    CASE p = "depth"    -> <<"capture">>
      [] p = "color"    -> <<"depth", "capture">>
      [] p = "depthSub" -> <<"colorSub">>
      [] OTHER          -> <<>>

\* Mutant: the capture is declared after the publishers.
DestroyOrderCaptureFirst(k) ==
    CASE k \in {"realsense_tx", "depth_tx"} -> <<"capture", "depth", "color">>
      [] k = "uwb_tx"       -> <<"uwbPub", "serial">>
      [] k = "realsense_rx" -> <<"depthDec", "colorDec", "depthSub", "colorSub">>
      [] OTHER              -> StartOrder(k)

\* The parts are destroyed in the reverse order of their declarations.
DestroyOrder(k) ==
    CASE k \in {"realsense_tx", "depth_tx"} -> <<"depth", "color", "capture">>
      [] k = "uwb_tx"       -> <<"uwbPub", "serial">>
      [] k = "realsense_rx" -> <<"depthDec", "colorDec", "depthSub", "colorSub">>
      [] OTHER              -> StartOrder(k)

Parts == {"capture", "depth", "color", "audio", "uwbPub", "serial",
          "colorSub", "depthSub", "colorDec", "depthDec", "uwbSub", "audioSub"}

\* start() of the part returns false: no device, no DDS channel.
MayRefuse == Parts \ {"serial", "colorDec", "depthDec"}

\* The decode threads have no destructor; that of every other part calls its
\* stop().
NoDestructor == {"colorDec", "depthDec"}

\* The part whose buffer a part's thread polls.
SourceOf == [depth |-> "capture", color |-> "capture",
             colorDec |-> "colorSub", depthDec |-> "depthSub", uwbPub |-> "serial"]

\* start() throws: H264Encoder's constructor, H264ColorDecoder's, and
\* to_speed() for a baud rate it does not know.
MayThrow == {"color", "colorDec", "serial"}

\* The thread returns by itself on a device error.
MayEnd == {"capture", "audio"}

\* The assemblies whose start() has no running_ guard, and whose stop() has
\* none.
StartsUnguarded == {"uwb_tx"}
StopsUnguarded == {"uwb_tx", "mic_tx", "mic_rx"}

-----------------------------------------------------------------------------
VARIABLES
    ext,      \* the host is an ExtSensorIoTx/Rx
    machine,  \* the file it was configured from, and the plan: its sensors
    part,     \* part[s][p]: state of part p of assembly s
    held,     \* assemblies that exist (uwb_, cams_, mics_)
    running,  \* assemblies whose running_ is set (UwbTransmitter has none: it
              \* is here from its start() to its stop())
    broken,   \* history: assemblies whose start() has thrown, and which have
              \* not been started or stopped part by part since
    hostUp,   \* running_ of the ExtSensorIoTx/Rx
    call,     \* the owner's call
    ahead,    \* assemblies that its loops have not come to
    job,      \* the assembly's function it is in
    ret,      \* how the last call ended
    starts,
    terminated

host == <<ext, machine>>
vars == <<host, part, held, running, broken, hostUp, call, ahead, job, ret, starts,
          terminated>>

Sensor == DOMAIN machine.plan

\* An assembly: its sensor, and the call of ExtSensorIoTx/Rx::start() that made
\* it (0 when the owner has made it).
Assembly == Sensor \X (0..MaxStarts)
Kind(s) == machine.plan[s[1]].kind

NoFile == [uwb |-> "absent", cameras |-> <<>>, mics |-> <<>>]

\* A function of assembly s that starts or stops the parts in this order; the
\* first done of them are behind it.
Job(do, s, order) == [do |-> do, s |-> s, order |-> order, done |-> 0]
NoJob == Job("none", <<0, 0>>, <<>>)

Init ==
    /\ \/ ext = FALSE /\ \E k \in Kinds :
            machine = [file |-> NoFile, plan |-> [s \in {1} |-> [kind |-> k, name |-> NoName]]]
       \/ ext = TRUE /\ \E root \in ConfigFile :
            \E plan \in {RunTx(root), RunRx(root)} : machine = [file |-> root, plan |-> plan]
    /\ part = [s \in Assembly |-> [p \in Parts |-> "off"]]
    /\ held = IF ext THEN {} ELSE {s \in Assembly : s[2] = 0}
    /\ running = {} /\ broken = {} /\ hostUp = FALSE
    /\ call = "none" /\ ahead = {} /\ job = NoJob
    /\ ret = "none" /\ starts = 0
    /\ terminated = FALSE

Idle == call = "none" /\ ~terminated
Between(what) == call = what /\ job = NoJob /\ ~terminated
In(what) == job.do \in what /\ ~terminated

PartsLeft == job.done < Len(job.order)
ThePart == job.order[job.done + 1]
NextPart == job' = [job EXCEPT !.done = @ + 1]

-----------------------------------------------------------------------------
\* The owner's calls.

\* start() on a running host returns true at once.  An ExtSensorIoTx/Rx makes
\* new assemblies, and keeps those that an exception has left it.
CallStart ==
    /\ Idle
    /\ starts < MaxStarts
    /\ ret # "destroyed"
    /\ starts' = starts + 1
    /\ IF hostUp \/ (~ext /\ \E s \in running : Kind(s) \notin StartsUnguarded)
       THEN ret' = "true" /\ UNCHANGED <<call, ahead>>
       ELSE /\ ret' = "none" /\ call' = "start"
            /\ ahead' = IF ext THEN {s \in Assembly : s[2] = starts'} ELSE held
    /\ UNCHANGED <<host, part, held, running, broken, hostUp, job, terminated>>

CallStop ==
    /\ Idle
    /\ ret # "destroyed"
    /\ ret' = "none" /\ call' = "stop" /\ ahead' = held
    /\ UNCHANGED <<host, part, held, running, broken, hostUp, job, starts, terminated>>

CallDestroy ==
    /\ Idle
    /\ ret # "destroyed"
    /\ ret' = "none" /\ call' = "destroy"
    /\ UNCHANGED <<host, part, held, running, broken, hostUp, ahead, job, starts, terminated>>

ReturnAs(how) ==
    /\ ret' = how /\ call' = "none" /\ ahead' = {}
    /\ UNCHANGED <<host, part, broken, starts, terminated>>

-----------------------------------------------------------------------------
\* The loops over the assemblies: cams_, mics_, and uwb_.

List(s) ==
    CASE Kind(s) \in {"uwb_tx", "uwb_rx"} -> 3
      [] Kind(s) \in {"mic_tx", "mic_rx"} -> 2
      [] OTHER                            -> 1

IsUwb(s) == List(s) = 3

\* The order in which push_back has come to them.
NotAfter(s, t) == s[2] < t[2] \/ (s[2] = t[2] /\ s[1] <= t[1])

Begin(do, s, order) ==
    /\ job' = Job(do, s, order)
    /\ UNCHANGED <<host, part, running, broken, hostUp, call, ret, starts, terminated>>

\* The next assembly is made and its start() called.
StartNext ==
    /\ Between("start")
    /\ \E s \in ahead :
        /\ \A t \in ahead : NotAfter(s, t)
        /\ IsUwb(s) => ~\E t \in held \ {s} : IsUwb(t)
        /\ held' = held \cup {s} /\ ahead' = ahead \ {s}
        /\ Begin("start", s, StartOrder(Kind(s)))

\* A UWB assembly that an exception has left is destroyed when uwb_ is
\* assigned the new one.
ReplaceNext ==
    /\ Between("start")
    /\ \E s \in held :
        /\ IsUwb(s) /\ \E t \in ahead \ {s} : IsUwb(t)
        /\ Begin("destroy", s, DestroyOrder(Kind(s)))
    /\ UNCHANGED <<held, ahead>>

\* stop() of the next assembly of the first list that is not cleared yet.
\* That of most kinds does nothing unless running_ is set.
StopNext ==
    /\ Between("stop")
    /\ \E s \in ahead :
        /\ \A t \in held : \/ List(t) > List(s)
                           \/ List(t) = List(s) /\ (t \in ahead => NotAfter(s, t))
        /\ ahead' = ahead \ {s} /\ UNCHANGED held
        /\ Begin("stop", s, IF s \in running \/ Kind(s) \in StopsUnguarded
                            THEN StopOrder(Kind(s)) ELSE <<>>)

\* When all of a list are stopped it is cleared.
ClearNext ==
    /\ Between("stop") /\ ext
    /\ \E s \in held \ ahead :
        /\ \A t \in held : List(t) > List(s) \/ (List(t) = List(s) /\ t \notin ahead)
        /\ Begin("destroy", s, DestroyOrder(Kind(s)))
    /\ UNCHANGED <<held, ahead>>

\* The destructor of the host: its members in the reverse order.
DestroyNext ==
    /\ Between("destroy")
    /\ \E s \in held :
        /\ \A t \in held : List(t) <= List(s)
        /\ Begin("destroy", s, DestroyOrder(Kind(s)))
    /\ UNCHANGED <<held, ahead>>

ReturnFromStart ==
    /\ Between("start") /\ ahead = {}
    /\ ReturnAs(IF held = {} THEN "false" ELSE "true")
    /\ hostUp' = (ext /\ held # {})
    /\ UNCHANGED <<held, running, job>>

ReturnOtherwise ==
    /\ \/ Between("stop") /\ ahead = {} /\ (ext => held = {}) /\ ReturnAs("stopped")
       \/ Between("destroy") /\ held = {} /\ ReturnAs("destroyed")
       \/ Between("unwind") /\ ReturnAs("thrown")
    /\ hostUp' = FALSE
    /\ UNCHANGED <<held, running, job>>

-----------------------------------------------------------------------------
\* An assembly's start().

\* The part's own guard, when it was left running: capture, encoders and
\* decoders look at running_ (which a dead capture has reset and a dead
\* microphone has not), the serial reader at its thread; the others assign
\* their thread.
AlreadyUp(p, state) ==
    \/ state = "up" /\ p \notin {"uwbPub", "colorSub", "depthSub", "uwbSub", "audioSub"}
    \/ state = "dead" /\ p = "audio"

StartPart ==
    /\ In({"start"}) /\ PartsLeft
    /\ IF part[job.s][ThePart] = "off" \/ AlreadyUp(ThePart, part[job.s][ThePart])
       THEN /\ part' = [part EXCEPT ![job.s][ThePart] = IF @ = "off" THEN "up" ELSE @]
            /\ UNCHANGED terminated
       ELSE terminated' = TRUE /\ UNCHANGED part
    /\ NextPart
    /\ UNCHANGED <<host, held, running, broken, hostUp, call, ahead, ret, starts>>

\* running_ = true, return true.
Started ==
    /\ In({"start"}) /\ ~PartsLeft
    /\ running' = running \cup {job.s} /\ broken' = broken \ {job.s}
    /\ job' = NoJob
    /\ UNCHANGED <<host, part, held, hostUp, call, ahead, ret, starts, terminated>>

\* Mutant: the result of the part's start() is not looked at.
PartRefusesUnnoticed ==
    /\ In({"start"}) /\ PartsLeft
    /\ ThePart \in MayRefuse /\ ~AlreadyUp(ThePart, part[job.s][ThePart])
    /\ NextPart
    /\ UNCHANGED <<host, part, held, running, broken, hostUp, call, ahead, ret, starts,
                   terminated>>

\* start() of a part returns false: what the assembly had started is undone.
PartRefuses ==
    /\ In({"start"}) /\ PartsLeft
    /\ ThePart \in MayRefuse /\ ~AlreadyUp(ThePart, part[job.s][ThePart])
    /\ job' = Job("undo", job.s, Rollback(Kind(job.s), ThePart))
    /\ UNCHANGED <<host, part, held, running, broken, hostUp, call, ahead, ret, starts,
                   terminated>>

\* The assembly's start() returns false: ExtSensorIoTx/Rx drops it and goes
\* on with the next.
Refused ==
    /\ In({"undo"}) /\ ~PartsLeft
    /\ IF ext
       THEN /\ UNCHANGED ahead
            /\ Begin("destroy", job.s, DestroyOrder(Kind(job.s)))
       ELSE /\ ReturnAs("false") /\ job' = NoJob
            /\ UNCHANGED <<running, hostUp>>
    /\ UNCHANGED held

\* start() of a part throws: nothing is undone on the way out but the local
\* unique_ptr of a camera or microphone (uwb_ is a member).
PartThrows ==
    /\ In({"start"}) /\ PartsLeft
    /\ ThePart \in MayThrow /\ part[job.s][ThePart] = "off"
    /\ broken' = broken \cup {job.s}
    /\ call' = "unwind" /\ ahead' = {}
    /\ job' = IF ext /\ Kind(job.s) # "uwb_tx"
              THEN Job("destroy", job.s, DestroyOrder(Kind(job.s))) ELSE NoJob
    /\ UNCHANGED <<host, part, held, running, hostUp, ret, starts, terminated>>

-----------------------------------------------------------------------------
\* An assembly's stop() and destructor, and what start() undoes.

\* The part's stop(): its thread is told to leave and joined.  A destructor
\* calls it, or there is none.
StopPart ==
    /\ In({"undo", "stop", "destroy"}) /\ PartsLeft
    /\ IF job.do = "destroy" /\ ThePart \in NoDestructor /\ part[job.s][ThePart] # "off"
       THEN terminated' = TRUE /\ UNCHANGED <<part, job>>
       ELSE /\ part' = [part EXCEPT ![job.s][ThePart] = "off"]
            /\ NextPart
            /\ UNCHANGED terminated
    /\ UNCHANGED <<host, held, running, broken, hostUp, call, ahead, ret, starts>>

\* running_ = false, if stop() has come that far.
Stopped ==
    /\ In({"stop"}) /\ ~PartsLeft
    /\ running' = running \ {job.s}
    /\ broken' = IF job.order = <<>> THEN broken ELSE broken \ {job.s}
    /\ job' = NoJob
    /\ UNCHANGED <<host, part, held, hostUp, call, ahead, ret, starts, terminated>>

\* Mutant: running_ survives the object.
DestroyedOnly ==
    /\ In({"destroy"}) /\ ~PartsLeft
    /\ held' = held \ {job.s} /\ broken' = broken \ {job.s}
    /\ job' = NoJob
    /\ UNCHANGED <<host, part, running, hostUp, call, ahead, ret, starts, terminated>>

Destroyed ==
    /\ In({"destroy"}) /\ ~PartsLeft
    /\ held' = held \ {job.s} /\ running' = running \ {job.s} /\ broken' = broken \ {job.s}
    /\ job' = NoJob
    /\ UNCHANGED <<host, part, hostUp, call, ahead, ret, starts, terminated>>

\* A capture thread ends on a device error.
ThreadEnds ==
    /\ ~terminated
    /\ \E s \in held, p \in MayEnd :
        /\ part[s][p] = "up"
        /\ part' = [part EXCEPT ![s][p] = "dead"]
    /\ UNCHANGED <<host, held, running, broken, hostUp, call, ahead, job, ret, starts,
                   terminated>>

\* The owner makes no more calls.
Horizon == (Idle \/ terminated) /\ UNCHANGED vars

Next ==
    \/ CallStart \/ CallStop \/ CallDestroy
    \/ StartNext \/ ReplaceNext \/ StopNext \/ ClearNext \/ DestroyNext
    \/ ReturnFromStart \/ ReturnOtherwise
    \/ StartPart \/ Started \/ PartRefuses \/ Refused \/ PartThrows
    \/ StopPart \/ Stopped \/ Destroyed
    \/ ThreadEnds
    \/ Horizon

Spec == Init /\ [][Next]_vars

-----------------------------------------------------------------------------
\* Properties.

TypeOK ==
    /\ ext \in BOOLEAN /\ machine.file \in ConfigFile /\ \A s \in Assembly : Kind(s) \in Kinds
    /\ part \in [Assembly -> [Parts -> {"off", "up", "dead"}]]
    /\ held \subseteq Assembly /\ ahead \subseteq Assembly
    /\ running \subseteq held /\ broken \subseteq held
    /\ hostUp \in BOOLEAN /\ terminated \in BOOLEAN
    /\ call \in {"none", "start", "stop", "destroy", "unwind"}
    /\ \/ job = NoJob
       \/ /\ job \in [do : {"start", "undo", "stop", "destroy"}, s : held,
                      order : Seq(Parts), done : Nat]
          /\ job.done <= Len(job.order) /\ call # "none"
    /\ ret \in {"none", "true", "false", "thrown", "stopped", "destroyed"}
    /\ starts \in 0..MaxStarts

AllOff(s) == \A p \in Parts : part[s][p] = "off"

\* When start() has returned false, or stop() or the destructor has returned,
\* no thread of any part is left, whichever parts had refused or died before,
\* and an assembly that does not exist any more has none.  Two things excuse
\* an assembly that is used directly: its start() has thrown and nothing has
\* gone through its parts since, or it is a UwbTransmitter that was up before
\* the start() that failed.
NothingLeftBehind ==
    /\ (Idle /\ ret \in {"false", "stopped", "destroyed"}) =>
          \A s \in Assembly :
             \/ AllOff(s)
             \/ ~ext /\ ret # "destroyed" /\ s \in broken
             \/ ~ext /\ ret = "false" /\ s \in running /\ Kind(s) \in StartsUnguarded
    /\ Idle => \A s \in Assembly \ held : AllOff(s)

AllStarted(s) ==
    \A i \in DOMAIN StartOrder(Kind(s)) : part[s][StartOrder(Kind(s))[i]] # "off"

\* start() that returned true has started every part of every sensor it kept,
\* also when an earlier start() has thrown.
TrueMeansStarted ==
    (Idle /\ ret = "true") =>
        /\ held # {}
        /\ \A s \in held : s \in running /\ AllStarted(s)

\* The object of part p of s has been destroyed, or has not been made.
Gone(s, p) ==
    \/ s \notin held
    \/ job.do = "destroy" /\ job.s = s /\ \E i \in 1..job.done : job.order[i] = p

\* A buffer outlives the thread that polls it (color_decoder.hpp:37,
\* depth_decoder.hpp:23, and the publishers alike), whatever was started,
\* stopped or left by an exception when the objects are destroyed.
SourceOutlives ==
    \A s \in Assembly, p \in DOMAIN SourceOf :
        part[s][p] # "off" => ~Gone(s, SourceOf[p])

\* What the comments of RealsenseTransmitter and RealsenseReceiver::stop say,
\* of every moment of start(), rollback, stop(), destruction and what an
\* exception has left: no thread of a camera polls a buffer whose producer was
\* never started or is stopped.  (UwbPublisher does: it is started before the
\* serial reader and stopped after it.)
CameraSourcesRun ==
    \A s \in Assembly, p \in DOMAIN SourceOf \ {"uwbPub"} :
        part[s][p] # "off" => part[s][SourceOf[p]] # "off"

\* Whatever a machine holds has its counterpart in the plan of the other side:
\* a sensor that is disabled or incomplete is skipped on both, and what one
\* side publishes has a subscriber of the same name.
PeerPlan == IF \E s \in held : Kind(s) \in Tx THEN RunRx(machine.file) ELSE RunTx(machine.file)
PeerOf == [uwb_tx |-> "uwb_rx", realsense_tx |-> "realsense_rx", mic_tx |-> "mic_rx",
           uwb_rx |-> "uwb_tx", realsense_rx |-> "realsense_tx", mic_rx |-> "mic_tx"]
HeldHasPeer ==
    ext => \A s \in held :
        \E r \in DOMAIN PeerPlan :
            PeerPlan[r] = [kind |-> PeerOf[Kind(s)], name |-> machine.plan[s[1]].name]

\* std::terminate is reached in two ways only: the owner destroys a running
\* RealsenseReceiver (or the ExtSensorIoRx with one in it), or it starts again,
\* without stop() in between, an assembly of its own that has thrown, or a
\* UwbTransmitter that is up.  A machine gets there by no order of start() and
\* stop(), whatever refused, threw or died.
OnlyMisuseTerminates ==
    terminated =>
        \/ job.do = "destroy" /\ call = "destroy"
              /\ Kind(job.s) = "realsense_rx" /\ job.s \in running
        \/ job.do = "start" /\ ~ext
              /\ (job.s \in broken \/ (job.s \in running /\ Kind(job.s) \in StartsUnguarded))

\* What ext_sensor_io_tx.hpp:39-41 says: a camera or microphone that fails to
\* start is skipped, not fatal.  (Without a UWB transmitter only a camera can
\* be what failed.)
BadSensorIsSkipped == (ext /\ \A s \in Assembly : Kind(s) # "uwb_tx") => ret # "thrown"

=============================================================================
