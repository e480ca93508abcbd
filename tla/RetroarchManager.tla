-------------------------- MODULE RetroarchManager --------------------------
(***************************************************************************)
(* RetroarchManager::start and its enumerator, two tasks that tell each    *)
(* other about one RetroArch: the enumerator polls it and says added or    *)
(* removed; the manager starts and closes devices and says removed when a  *)
(* device's task reports that its connection closed.  There is one url in  *)
(* the code, so devices, a HashMap by url, holds at most one handle.       *)
(***************************************************************************)
EXTENDS Naturals, Sequences

CONSTANTS
  Devices,  \* Uuids
  NoDevice,
  Url,      \* the one url that is polled
  NoPort,
  InfoCap,  \* capacity of ra_info_tx (32 in the code)
  EnumCap   \* capacity of enumerator_tx (32 in the code)

ASSUME RetroarchAssumption ==
  /\ NoDevice \notin Devices
  /\ NoPort # Url
  /\ InfoCap \in Nat \ {0}
  /\ EnumCap \in Nat \ {0}

VARIABLES
  emulator, \* RetroArch: not running, without content, with a game loaded, or
            \* with one whose memory its core does not show
  step,     \* the enumerator: asleep, waiting for an answer, draining, or
            \* waiting for an answer that will not come
  known,    \* the url is in current_devices
  infoQ,    \* RaInfo messages to the manager
  enumQ,    \* how many RaRemoved messages wait for the enumerator
  running,  \* the manager task has not panicked
  handle,   \* devices[url]
  task,     \* the task of each device
  reports,  \* ConnectionClosed messages, by the device that sent them
  life,     \* what was announced about each device
  port      \* where it was announced

enumVars == <<step, known>>
devVars == <<handle, task, life, port>>
vars == <<emulator, enumVars, infoQ, enumQ, running, devVars, reports>>

Init ==
  /\ emulator = "off"
  /\ step = "sleep" /\ known = FALSE
  /\ infoQ = <<>> /\ enumQ = 0
  /\ running = TRUE
  /\ handle = NoDevice
  /\ task = [d \in Devices |-> "none"]
  /\ reports = <<>>
  /\ life = [d \in Devices |-> "unborn"]
  /\ port = [d \in Devices |-> NoPort]

-----------------------------------------------------------------------------
(* RetroArch is started, loads a game, closes it, or exits. *)
EmulatorChanges ==
  /\ emulator' \in {"off", "menu", "game", "opaque"} \ {emulator}
  /\ UNCHANGED <<enumVars, infoQ, enumQ, running, devVars, reports>>

(* The enumerator's loop. *)

(* A send waits for room, and is an ignored error once the manager is gone. *)
Tell(m) ==
  \/ running /\ Len(infoQ) < InfoCap /\ infoQ' = Append(infoQ, m)
  \/ ~running /\ UNCHANGED infoQ

Poll ==
  /\ step = "sleep"
  /\ step' = IF known THEN "check" ELSE "connect"
  /\ UNCHANGED <<emulator, known, infoQ, enumQ, running, devVars, reports>>

(* try_ra_connect *)
Connects ==
  /\ step = "connect"
  /\ emulator = "game"
  /\ known' = TRUE
  /\ Tell("added")
  /\ step' = "drain"
  /\ UNCHANGED <<emulator, enumQ, running, devVars, reports>>

ConnectFails ==
  /\ step = "connect"
  /\ emulator # "game"
  /\ step' = "drain"
  /\ UNCHANGED <<emulator, known, infoQ, enumQ, running, devVars, reports>>

(* check_ra_status, which asks only whether there is content *)
StatusOk ==
  /\ step = "check"
  /\ emulator \in {"game", "opaque"}
  /\ step' = "drain"
  /\ UNCHANGED <<emulator, known, infoQ, enumQ, running, devVars, reports>>

StatusBad ==
  /\ step = "check"
  /\ emulator \in {"off", "menu"}
  /\ known' = FALSE
  /\ Tell("removed")
  /\ step' = "drain"
  /\ UNCHANGED <<emulator, enumQ, running, devVars, reports>>

(* A question or its answer is lost, and the receive has no timeout; or the *)
(* answer to READ_CORE_MEMORY is too short to take apart, and the task     *)
(* panics.  Either way the enumerator asks and listens no more.            *)
Unanswered ==
  /\ step \in {"connect", "check"}
  /\ step' = "hung"
  /\ UNCHANGED <<emulator, known, infoQ, enumQ, running, devVars, reports>>

(* Mutant: the message is taken without looking whether there is one.       *)
DrainBlindly ==
  /\ step = "drain"
  /\ known' = FALSE
  /\ enumQ' = enumQ - 1
  /\ step' = "sleep"
  /\ UNCHANGED <<emulator, infoQ, running, devVars, reports>>

(* One message from the manager is taken per round, if there is one. *)
Drain ==
  /\ step = "drain"
  /\ IF enumQ > 0
     THEN known' = FALSE /\ enumQ' = enumQ - 1
     ELSE UNCHANGED <<known, enumQ>>
  /\ step' = "sleep"
  /\ UNCHANGED <<emulator, infoQ, running, devVars, reports>>

Enumerator == Poll \/ Connects \/ ConnectFails \/ StatusOk \/ StatusBad \/ Drain

-----------------------------------------------------------------------------
(* The manager. *)

Received(m) == running /\ infoQ # <<>> /\ Head(infoQ) = m /\ infoQ' = Tail(infoQ)

(* RaAdded: a device is started and announced, and takes the url's place.  *)
Added ==
  /\ Received("added")
  /\ \E d \in Devices :
       /\ life[d] = "unborn"
       /\ task' = [task EXCEPT ![d] = "running"]
       /\ life' = [life EXCEPT ![d] = "live"]
       /\ port' = [port EXCEPT ![d] = Url]
       /\ handle' = d
  /\ UNCHANGED <<emulator, enumVars, enumQ, running, reports>>

(* The url's device is taken back and forgotten. *)
Dropped ==
  /\ life' = [life EXCEPT ![handle] = "gone"]
  /\ handle' = NoDevice
  /\ UNCHANGED port

(* RaRemoved: the device is told to close. *)
RemovedByEnumerator ==
  /\ Received("removed")
  /\ handle # NoDevice
  /\ task' = [task EXCEPT ![handle] = IF @ = "running" THEN "closing" ELSE @]
  /\ Dropped
  /\ UNCHANGED <<emulator, enumVars, enumQ, running, reports>>

(* devices[&url] panics when the url has no device.  The manager's ends of *)
(* its channels go with it.                                                *)
IndexPanics ==
  /\ Received("removed")
  /\ handle = NoDevice
  /\ running' = FALSE
  /\ reports' = <<>>
  /\ UNCHANGED <<emulator, enumVars, enumQ, devVars>>

(* Mutant: a report drops the handle and forgets to tell the enumerator.   *)
ReportedOnce ==
  /\ running
  /\ reports # <<>>
  /\ reports' = Tail(reports)
  /\ IF handle # NoDevice THEN Dropped ELSE UNCHANGED <<life, handle, port>>
  /\ UNCHANGED <<emulator, enumVars, infoQ, enumQ, running, task>>

(* Mutant: the enumerator is told of every report, also of a device that it *)
(* was the first to miss.                                                  *)
AlwaysCorrects ==
  /\ running
  /\ reports # <<>>
  /\ reports' = Tail(reports)
  /\ enumQ < EnumCap
  /\ enumQ' = enumQ + 1
  /\ IF handle # NoDevice THEN Dropped ELSE UNCHANGED <<life, handle, port>>
  /\ UNCHANGED <<emulator, enumVars, infoQ, running, task>>

(* Mutant: the Uuid of the report is taken back, not the url's device.     *)
TakesBackReporter ==
  /\ running
  /\ reports # <<>>
  /\ reports' = Tail(reports)
  /\ handle # NoDevice
  /\ enumQ < EnumCap
  /\ enumQ' = enumQ + 1
  /\ life' = [life EXCEPT ![Head(reports)] = "gone"]
  /\ handle' = NoDevice
  /\ UNCHANGED <<emulator, enumVars, infoQ, running, task, port>>

(* ConnectionClosed: the device that has the url now is taken back,        *)
(* whichever device reported, and the enumerator is told to look again.    *)
Reported ==
  /\ running
  /\ reports # <<>>
  /\ reports' = Tail(reports)
  /\ \/ /\ handle # NoDevice
        /\ enumQ < EnumCap
        /\ enumQ' = enumQ + 1
        /\ Dropped
     \/ /\ handle = NoDevice
        /\ UNCHANGED <<enumQ, life, handle, port>>
  /\ UNCHANGED <<emulator, enumVars, infoQ, running, task>>

ManagerTask == Added \/ RemovedByEnumerator \/ IndexPanics \/ Reported

-----------------------------------------------------------------------------
(* The device tasks, as their manager sees them. *)

(* A transfer fails: the task reports and returns, also one whose Close    *)
(* is still behind the transfer in its channel.                            *)
FailsAndReports(d) ==
  /\ task[d] \in {"running", "closing"}
  /\ task' = [task EXCEPT ![d] = "ended"]
  /\ reports' = IF running THEN Append(reports, d) ELSE reports
  /\ UNCHANGED <<emulator, enumVars, infoQ, enumQ, running, handle, life, port>>

(* A read takes the late answer of a write for its own, and the unwrap     *)
(* takes the task with it: nobody is told.                                 *)
ReadPanics(d) ==
  /\ task[d] \in {"running", "closing"}
  /\ task' = [task EXCEPT ![d] = "panicked"]
  /\ UNCHANGED <<emulator, enumVars, infoQ, enumQ, running, handle, life, port, reports>>

(* The task takes its Close, or its last Sender is gone. *)
TaskCloses(d) ==
  /\ task[d] = "closing" \/ (task[d] = "running" /\ handle # d)
  /\ task' = [task EXCEPT ![d] = "ended"]
  /\ UNCHANGED <<emulator, enumVars, infoQ, enumQ, running, handle, life, port, reports>>

Next ==
  \/ EmulatorChanges
  \/ Enumerator \/ Unanswered
  \/ ManagerTask
  \/ \E d \in Devices : FailsAndReports(d) \/ ReadPanics(d) \/ TaskCloses(d)

Spec == Init /\ [][Next]_vars

(* Both tasks run: a question that can be answered is, unless it is lost.  *)
FairSpec == Spec /\ WF_vars(Enumerator) /\ WF_vars(ManagerTask)

-----------------------------------------------------------------------------
(* The type of the state. *)
TypeOK ==
  /\ emulator \in {"off", "menu", "game", "opaque"}
  /\ step \in {"sleep", "connect", "check", "drain", "hung"}
  /\ known \in BOOLEAN
  /\ infoQ \in Seq({"added", "removed"})
  /\ enumQ \in Nat
  /\ running \in BOOLEAN
  /\ handle \in Devices \cup {NoDevice}
  /\ task \in [Devices -> {"none", "running", "closing", "ended", "panicked"}]
  /\ reports \in Seq(Devices)
  /\ life \in [Devices -> {"unborn", "live", "gone"}]
  /\ port \in [Devices -> {Url, NoPort}]

(* The manager keeps what it promises the registry, although either of two *)
(* tasks may tell it first that a device is gone.                          *)
Feed == INSTANCE DeviceFeed WITH Ports <- {Url}
FeedSpec == Feed!Spec

(* While the enumerator takes RetroArch for connected, and so will not     *)
(* connect to it again, there is a device, or one is about to be started,  *)
(* or the enumerator is about to be told otherwise.                        *)
KnownIsServed ==
  running /\ known =>
    \/ handle # NoDevice
    \/ \E i \in 1..Len(infoQ) : infoQ[i] = "added"
    \/ enumQ > 0

(* No device whose task returned stays in the registry unnoticed: the      *)
(* manager still has a report to handle.                                   *)
EndedIsReported ==
  running /\ handle # NoDevice /\ task[handle] = "ended" => reports # <<>>

(* The two tasks never wait for room in each other's channel, not even a   *)
(* manager whose enumerator has stopped to listen: it corrects it at most  *)
(* once per device that it was told of.                                    *)
NoStandoff == enumQ <= 1 \/ ~running

(* A RetroArch that keeps a game loaded gets a device, unless one of the   *)
(* enumerator's questions was lost, for as long as there are Uuids in the  *)
(* model and the manager has not panicked.                                 *)
Found ==
  <>[](emulator = "game") =>
    []<>(\/ handle # NoDevice \/ step = "hung" \/ ~running
         \/ \A d \in Devices : life[d] # "unborn")

(* devices[&url] asserts that the url has a device when RaRemoved comes.   *)
RemovalFindsDevice == running
=============================================================================
