---------------------------- MODULE SensorConfig ----------------------------
(***************************************************************************)
(* What the two runners make of config.yaml: run_tx and run_rx read the     *)
(* same file in two processes and have to agree, without talking to each    *)
(* other, on which sensors there are and under which names.                 *)
(*                                                                         *)
(* A camera or microphone is a list entry with a name, which nothing keeps  *)
(* from being another entry's.  Settings that only tune a sensor are left   *)
(* out.  A vector filled from such a list is a function on the positions of *)
(* the entries that were kept, in the same order.                           *)
(***************************************************************************)
EXTENDS Integers

CONSTANTS MaxCameras, MaxMics \* bounds: entries of the two lists

ASSUME ConfigAssumption == MaxCameras \in Nat /\ MaxMics \in Nat

NoName == 0

Lists(Entry, bound) == UNION {[1..n -> Entry] : n \in 0..bound}

CameraEntry == [name : NoName..MaxCameras, enabled : BOOLEAN]
MicEntry == [name : NoName..MaxMics, enabled : BOOLEAN, device : BOOLEAN]

\* The file: a list that is missing is as good as an empty one.
ConfigFile ==
    [uwb : {"absent", "enabled", "disabled"},
     cameras : Lists(CameraEntry, MaxCameras),
     mics : Lists(MicEntry, MaxMics)]

\* The loops: entries that are not wanted are skipped.
Kept(list, Wanted(_)) == [i \in {e \in DOMAIN list : Wanted(list[e])} |-> list[i]]

\* What is left of the specs for the consumer side.
Names(specs) == [i \in DOMAIN specs |-> specs[i].name]

CamerasFromYaml(root) == Kept(root.cameras, LAMBDA cam : cam.enabled /\ cam.name # NoName)

\* Mutant: a disabled camera is skipped by the transmitter only.
CameraNamesOfAll(root) == Names(Kept(root.cameras, LAMBDA cam : cam.name # NoName))

\* A loop of its own, not a projection of cameras_from_yaml.
CameraNamesFromYaml(root) ==
    Names(Kept(root.cameras, LAMBDA cam : cam.enabled /\ cam.name # NoName))

MicsFromYaml(root) ==
    Kept(root.mics, LAMBDA mic : mic.enabled /\ mic.name # NoName /\ mic.device)

MicNamesFromYaml(root) == Names(MicsFromYaml(root))

UwbEnabled(root) == root.uwb = "enabled"

\* A machine: its sensors, each a kind and a name, numbered in the order in
\* which they start: the UWB tag is 0, then come the cameras, then the
\* microphones.
Sensors(kinds, uwb, cameras, mics) ==
    [s \in {n \in {0} : uwb} \cup DOMAIN cameras \cup {MaxCameras + i : i \in DOMAIN mics} |->
        CASE s = 0             -> [kind |-> kinds.uwb, name |-> NoName]
          [] s \in 1..MaxCameras -> [kind |-> kinds.camera, name |-> cameras[s]]
          [] s > MaxCameras    -> [kind |-> kinds.mic, name |-> mics[s - MaxCameras]]]

TxKinds == [uwb |-> "uwb_tx", camera |-> "realsense_tx", mic |-> "mic_tx"]
RxKinds == [uwb |-> "uwb_rx", camera |-> "realsense_rx", mic |-> "mic_rx"]

RunTx(root) ==
    Sensors(TxKinds, UwbEnabled(root), Names(CamerasFromYaml(root)), Names(MicsFromYaml(root)))

RunRx(root) ==
    Sensors(RxKinds, UwbEnabled(root), CameraNamesFromYaml(root), MicNamesFromYaml(root))
=============================================================================
