----------------------------- MODULE DeviceFeed -----------------------------
(***************************************************************************)
(* What the device managers promise the registry, whatever they talk to:   *)
(* a device is announced once, under a Uuid never used before, and taken   *)
(* back at most once, after that; and one port, url or name never has two  *)
(* devices that were announced and not taken back.                         *)
(***************************************************************************)
CONSTANTS
  Devices,  \* Uuids
  Ports,    \* what a device is reached at
  NoPort

ASSUME FeedAssumption == NoPort \notin Ports

VARIABLES
  life,  \* of each Uuid: not used, announced, or taken back
  port   \* where a device was announced

Lives == {"unborn", "live", "gone"}

Init ==
  /\ life = [d \in Devices |-> "unborn"]
  /\ port = [d \in Devices |-> NoPort]

Vacant(p) == \A d \in Devices : life[d] = "live" => port[d] # p

(* DeviceCreated is sent. *)
Appear(d, p) ==
  /\ life[d] = "unborn"
  /\ Vacant(p)
  /\ life' = [life EXCEPT ![d] = "live"]
  /\ port' = [port EXCEPT ![d] = p]

(* DeviceRemoved is sent. *)
Vanish(d) ==
  /\ life[d] = "live"
  /\ life' = [life EXCEPT ![d] = "gone"]
  /\ UNCHANGED port

Next == \E d \in Devices : Vanish(d) \/ \E p \in Ports : Appear(d, p)

Spec == Init /\ [][Next]_<<life, port>>
=============================================================================
