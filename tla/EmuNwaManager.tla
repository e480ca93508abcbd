--------------------------- MODULE EmuNwaManager ---------------------------
(***************************************************************************)
(* EmuNwaManager::start and its enumerator.  The enumerator visits the     *)
(* ports in turn and announces an emulator that answers on a port it does  *)
(* not know; the manager connects to it again, starts a device and, when   *)
(* the device's task reports that its connection closed, reconnects or     *)
(* gives the port back to the enumerator.  The two tasks send to each      *)
(* other over bounded channels.  EmuInfo::EmuRemoved to the manager and    *)
(* DeviceManagerCommand::Close exist in the code, but nothing sends them.  *)
(***************************************************************************)
EXTENDS Naturals, Sequences, FiniteSets, DeviceFeed

CONSTANTS
  NoDevice,
  NumPorts, \* how many ports are visited (8 in the code)
  InfoCap,  \* capacity of emu_tx (32 in the code)
  EnumCap   \* capacity of enumerator_tx (32 in the code)

ASSUME EmuNwaAssumption ==
  /\ NoDevice \notin Devices
  /\ NumPorts \in Nat \ {0}
  /\ Ports = 0 .. NumPorts - 1
  /\ InfoCap \in Nat \ {0}
  /\ EnumCap \in Nat \ {0}

VARIABLES
  emulator, \* of each port: an emulator listens there
  at,       \* the port that the enumerator visits
  step,     \* the enumerator: before its question, before its try_recv, or
            \* waiting for an answer that will not come
  known,    \* the ports in current_emus
  infoQ,    \* EmuAdded messages, by port
  enumQ,    \* EmuRemoved messages, by port
  busy,     \* the port the manager is connecting to after ConnectionClosed
  handle,   \* devices, by port
  task,     \* the task of each device
  reports   \* ConnectionClosed messages, by device

enumVars == <<at, step, known>>
devVars == <<handle, task, life, port>>
vars == <<emulator, enumVars, infoQ, enumQ, busy, devVars, reports>>

EmuInit ==
  /\ Init
  /\ emulator = [p \in Ports |-> FALSE]
  /\ at = 0 /\ step = "probe" /\ known = {}
  /\ infoQ = <<>> /\ enumQ = <<>>
  /\ busy = NoPort
  /\ handle = [p \in Ports |-> NoDevice]
  /\ task = [d \in Devices |-> "none"]
  /\ reports = <<>>

-----------------------------------------------------------------------------
EmulatorChanges(p) ==
  /\ emulator' = [emulator EXCEPT ![p] = ~@]
  /\ UNCHANGED <<enumVars, infoQ, enumQ, busy, devVars, reports>>

(* The enumerator: EMULATOR_INFO is answered with a name. *)
Probe ==
  /\ step = "probe"
  /\ step' = "drain"
  /\ IF at \notin known /\ emulator[at]
     THEN /\ Len(infoQ) < InfoCap
          /\ known' = known \cup {at}
          /\ infoQ' = Append(infoQ, at)
     ELSE UNCHANGED <<known, infoQ>>
  /\ UNCHANGED <<emulator, at, enumQ, busy, devVars, reports>>

(* What listens at the port takes the question and does not answer, or its *)
(* answer lacks what the task indexes: the visits end, at every port.      *)
Unanswered ==
  /\ step = "probe"
  /\ at \notin known
  /\ step' = "hung"
  /\ UNCHANGED <<emulator, at, known, infoQ, enumQ, busy, devVars, reports>>

(* Mutant: the range of ports never ends.                                  *)
NextPortBeyond == at + 1

(* for p in base_port..base_port+8, in a loop. *)
NextPort == (at + 1) % NumPorts

(* Mutant: the manager's messages are never read.                          *)
DrainNothing ==
  /\ step = "drain"
  /\ step' = "probe"
  /\ at' = NextPort
  /\ UNCHANGED <<emulator, known, infoQ, enumQ, busy, devVars, reports>>

(* At most one message, about any port, is taken at each port visited. *)
Drain ==
  /\ step = "drain"
  /\ step' = "probe"
  /\ at' = NextPort
  /\ IF enumQ # <<>>
     THEN known' = known \ {Head(enumQ)} /\ enumQ' = Tail(enumQ)
     ELSE UNCHANGED <<known, enumQ>>
  /\ UNCHANGED <<emulator, infoQ, busy, devVars, reports>>

Enumerator == Probe \/ Drain

-----------------------------------------------------------------------------
(* A device is started on the port, announced, and takes the port's place. *)
Starts(d, p) ==
  /\ life[d] = "unborn"
  /\ life' = [life EXCEPT ![d] = "live"]
  /\ port' = [port EXCEPT ![d] = p]
  /\ task' = [task EXCEPT ![d] = "running"]
  /\ handle' = [handle EXCEPT ![p] = d]

(* EmuAdded, and the manager's own connection is accepted, ... *)
Added ==
  /\ busy = NoPort
  /\ infoQ # <<>>
  /\ infoQ' = Tail(infoQ)
  /\ emulator[Head(infoQ)]
  /\ \E d \in Devices : Starts(d, Head(infoQ))
  /\ UNCHANGED <<emulator, enumVars, enumQ, busy, reports>>

(* ... or refused: the message is forgotten, and the enumerator not told.  *)
AddedRefused ==
  /\ busy = NoPort
  /\ infoQ # <<>>
  /\ infoQ' = Tail(infoQ)
  /\ ~emulator[Head(infoQ)]
  /\ UNCHANGED <<emulator, enumVars, enumQ, busy, devVars, reports>>

(* ConnectionClosed: the device that reported is taken back, and the       *)
(* manager connects to its port again if the port still has a device.      *)
Reported ==
  /\ busy = NoPort
  /\ reports # <<>>
  /\ reports' = Tail(reports)
  /\ life' = [life EXCEPT ![Head(reports)] = "gone"]
  /\ busy' = IF handle[port[Head(reports)]] # NoDevice THEN port[Head(reports)] ELSE NoPort
  /\ UNCHANGED <<emulator, enumVars, infoQ, enumQ, handle, task, port>>

(* Mutant: the enumerator is told although the port has a device again.    *)
ReconnectsAndTells ==
  /\ busy # NoPort
  /\ emulator[busy]
  /\ \E d \in Devices : Starts(d, busy)
  /\ Len(enumQ) < EnumCap
  /\ enumQ' = Append(enumQ, busy)
  /\ busy' = NoPort
  /\ UNCHANGED <<emulator, enumVars, infoQ, reports>>

Reconnects ==
  /\ busy # NoPort
  /\ emulator[busy]
  /\ \E d \in Devices : Starts(d, busy)
  /\ busy' = NoPort
  /\ UNCHANGED <<emulator, enumVars, infoQ, enumQ, reports>>

(* Mutant: the port is given back, and its device kept.                    *)
GivesUpHalfway ==
  /\ busy # NoPort
  /\ ~emulator[busy]
  /\ Len(enumQ) < EnumCap
  /\ enumQ' = Append(enumQ, busy)
  /\ busy' = NoPort
  /\ UNCHANGED <<emulator, enumVars, infoQ, devVars, reports>>

(* The connection is refused, and the enumerator is told to look again. *)
GivesUp ==
  /\ busy # NoPort
  /\ ~emulator[busy]
  /\ Len(enumQ) < EnumCap
  /\ enumQ' = Append(enumQ, busy)
  /\ handle' = [handle EXCEPT ![busy] = NoDevice]
  /\ busy' = NoPort
  /\ UNCHANGED <<emulator, enumVars, infoQ, task, life, port, reports>>

ManagerTask == Added \/ AddedRefused \/ Reported \/ Reconnects \/ GivesUp

-----------------------------------------------------------------------------
(* An exchange with the emulator fails: the task reports and returns. *)
FailsAndReports(d) ==
  /\ task[d] = "running"
  /\ task' = [task EXCEPT ![d] = "ended"]
  /\ reports' = Append(reports, d)
  /\ UNCHANGED <<emulator, enumVars, infoQ, enumQ, busy, handle, life, port>>

EmuNext ==
  \/ \E p \in Ports : EmulatorChanges(p)
  \/ Enumerator \/ Unanswered
  \/ ManagerTask
  \/ \E d \in Devices : FailsAndReports(d)

EmuSpec == EmuInit /\ [][EmuNext]_vars

(* Connections on the local host are accepted or refused at once, and both *)
(* tasks run.                                                              *)
FairSpec == EmuSpec /\ WF_vars(Enumerator) /\ WF_vars(ManagerTask)

-----------------------------------------------------------------------------
(* The type of the state. *)
TypeOK ==
  /\ emulator \in [Ports -> BOOLEAN]
  /\ at \in Ports
  /\ step \in {"probe", "drain", "hung"}
  /\ known \subseteq Ports
  /\ infoQ \in Seq(Ports)
  /\ enumQ \in Seq(Ports)
  /\ busy \in Ports \cup {NoPort}
  /\ handle \in [Ports -> Devices \cup {NoDevice}]
  /\ task \in [Devices -> {"none", "running", "ended"}]
  /\ reports \in Seq(Devices)
  /\ life \in [Devices -> Lives]
  /\ port \in [Devices -> Ports \cup {NoPort}]

(* How often a port is in a channel. *)
Count(q, p) == Cardinality({i \in DOMAIN q : q[i] = p})

Served(p) == IF handle[p] = NoDevice THEN 0 ELSE 1

(* A known port is in one place at most: on its way to the manager, with a *)
(* device, or on its way back; an unknown port is in none.  So a port never *)
(* gets two devices, and the channels never hold more than one message per  *)
(* port: neither task waits for room in the other's channel.               *)
OnePlace ==
  \A p \in Ports :
    Count(infoQ, p) + Served(p) + Count(enumQ, p) <= IF p \in known THEN 1 ELSE 0

(* The manager keeps what it promises the registry. *)
FeedSpec == Spec

(* No dead device stays in the registry unnoticed: the manager still has   *)
(* its report to handle.                                                   *)
EndedIsReported ==
  \A d \in Devices :
    life[d] = "live" /\ task[d] = "ended" =>
      \E i \in DOMAIN reports : reports[i] = d

(* The enumerator knows the port, and nobody works on it. *)
Stranded(p) == p \in known /\ Count(infoQ, p) + Served(p) + Count(enumQ, p) = 0

AllUsed == \A d \in Devices : life[d] # "unborn"

(* An emulator that keeps listening gets a device, unless it once refused  *)
(* the manager right after it had answered the enumerator or something at  *)
(* any of the ports kept silent, for as long as there are Uuids in the     *)
(* model.                                                                  *)
Found ==
  \A p \in Ports :
    <>[]emulator[p] =>
      []<>(handle[p] # NoDevice \/ Stranded(p) \/ step = "hung" \/ AllUsed)
=============================================================================
