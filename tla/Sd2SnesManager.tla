--------------------------- MODULE Sd2SnesManager ---------------------------
(***************************************************************************)
(* SD2SnesManager::start and its port enumerator.  The enumerator compares *)
(* the serial ports of every poll with those of the poll before and sends  *)
(* the difference; the manager opens a port that was added and forgets the *)
(* device of one that was removed.  No sd2snes task ever sends a           *)
(* ConnectionClosed, and nothing sends DeviceManagerCommand::Close.        *)
(***************************************************************************)
EXTENDS Naturals, Sequences, DeviceFeed

CONSTANTS
  NoDevice,
  InfoCap   \* capacity of port_tx (32 in the code)

ASSUME Sd2SnesAssumption ==
  /\ NoDevice \notin Devices
  /\ InfoCap \in Nat \ {0}

VARIABLES
  polling,  \* the enumerator has not panicked
  usb,      \* a port: absent, free to open, or opened by another program
  current,  \* current_ports, as the poll under way will leave it
  removed,  \* ports whose PortRemoved this poll has still to send
  added,    \* ports whose PortAdded this poll has still to send
  infoQ,    \* PortInfo messages
  running,  \* the manager task has not panicked
  handle,   \* devices, by port name
  severed   \* devices whose cartridge was unplugged

enumVars == <<current, removed, added, polling>>
devVars == <<handle, life, port>>
vars == <<usb, enumVars, infoQ, running, devVars, severed>>

UsbInit ==
  /\ Init
  /\ usb = [p \in Ports |-> "absent"]
  /\ polling = TRUE
  /\ current = {} /\ removed = {} /\ added = {}
  /\ infoQ = <<>>
  /\ running = TRUE
  /\ handle = [p \in Ports |-> NoDevice]
  /\ severed = {}

Plus(p) == [kind |-> "added", port |-> p]
Minus(p) == [kind |-> "removed", port |-> p]
Messages == { Plus(p) : p \in Ports } \cup { Minus(p) : p \in Ports }

-----------------------------------------------------------------------------
(* A cartridge is plugged in, unplugged, or opened or closed elsewhere. *)
PortChanges(p) ==
  /\ \E s \in {"absent", "free", "taken"} \ {usb[p]} : usb' = [usb EXCEPT ![p] = s]
  /\ severed' = IF usb'[p] = "absent" /\ handle[p] # NoDevice
                THEN severed \cup {handle[p]} ELSE severed
  /\ UNCHANGED <<enumVars, infoQ, running, devVars>>

(* serialport::available_ports, filtered by vendor and product. *)
Available == { p \in Ports : usb[p] # "absent" }

(* Mutant: ports that are gone are never dropped from the list.            *)
PollForgetful ==
  /\ polling /\ removed = {} /\ added = {}
  /\ removed' = current \ Available
  /\ added' = Available \ current
  /\ current' = current \cup Available
  /\ UNCHANGED <<polling, usb, infoQ, running, devVars, severed>>

Poll ==
  /\ polling /\ removed = {} /\ added = {}
  /\ removed' = current \ Available
  /\ added' = Available \ current
  /\ current' = Available
  /\ UNCHANGED <<polling, usb, infoQ, running, devVars, severed>>

(* The system does not list its ports: available_ports().unwrap() panics in *)
(* the enumerator's task, and the manager hears of no port again.          *)
PollPanics ==
  /\ polling /\ removed = {} /\ added = {}
  /\ polling' = FALSE
  /\ UNCHANGED <<usb, current, removed, added, infoQ, running, devVars, severed>>

(* A send waits for room, and is an ignored error once the manager is gone. *)
Tell(m) ==
  \/ running /\ Len(infoQ) < InfoCap /\ infoQ' = Append(infoQ, m)
  \/ ~running /\ UNCHANGED infoQ

(* Mutant: try_send, which drops a removal that finds no room.             *)
TellRemovedOrDrop(p) ==
  /\ p \in removed
  /\ removed' = removed \ {p}
  /\ infoQ' = IF running /\ Len(infoQ) < InfoCap THEN Append(infoQ, Minus(p)) ELSE infoQ
  /\ UNCHANGED <<polling, usb, current, added, running, devVars, severed>>

TellRemoved(p) ==
  /\ p \in removed
  /\ removed' = removed \ {p}
  /\ Tell(Minus(p))
  /\ UNCHANGED <<polling, usb, current, added, running, devVars, severed>>

TellAdded(p) ==
  /\ removed = {}
  /\ p \in added
  /\ added' = added \ {p}
  /\ Tell(Plus(p))
  /\ UNCHANGED <<polling, usb, current, removed, running, devVars, severed>>

Enumerator == Poll \/ \E p \in Ports : TellRemoved(p) \/ TellAdded(p)

-----------------------------------------------------------------------------
Received(m) == running /\ infoQ # <<>> /\ Head(infoQ) = m /\ infoQ' = Tail(infoQ)

(* Mutant: the handle is kept under the Uuid, as in the LuaManager.        *)
KeptByUuid(p) ==
  /\ Received(Plus(p))
  /\ usb[p] = "free"
  /\ \E d \in Devices :
       /\ life[d] = "unborn"
       /\ life' = [life EXCEPT ![d] = "live"]
       /\ port' = [port EXCEPT ![d] = p]
       /\ handle' = [x \in Ports \cup {d} |-> IF x = d THEN d ELSE handle[x]]
  /\ UNCHANGED <<usb, enumVars, running, severed>>

PortAdded(p) ==
  /\ Received(Plus(p))
  /\ usb[p] = "free"
  /\ \E d \in Devices :
       /\ life[d] = "unborn"
       /\ life' = [life EXCEPT ![d] = "live"]
       /\ port' = [port EXCEPT ![d] = p]
       /\ handle' = [handle EXCEPT ![p] = d]
  /\ UNCHANGED <<usb, enumVars, running, severed>>

(* The port cannot be opened: open().unwrap() panics in the manager's task. *)
OpenPanics(p) ==
  /\ Received(Plus(p))
  /\ usb[p] # "free"
  /\ running' = FALSE
  /\ UNCHANGED <<usb, enumVars, devVars, severed>>

(* Mutant: the device is forgotten, its removal not announced.             *)
PortForgotten(p) ==
  /\ Received(Minus(p))
  /\ handle' = [handle EXCEPT ![p] = NoDevice]
  /\ UNCHANGED <<usb, enumVars, running, life, port, severed>>

(* devices[&port_name] would panic if the port had no device. *)
PortRemoved(p) ==
  /\ Received(Minus(p))
  /\ life' = [life EXCEPT ![handle[p]] = "gone"]
  /\ handle' = [handle EXCEPT ![p] = NoDevice]
  /\ UNCHANGED <<usb, enumVars, running, port, severed>>

ManagerTask == \E p \in Ports : PortAdded(p) \/ OpenPanics(p) \/ PortRemoved(p)

UsbNext == (\E p \in Ports : PortChanges(p)) \/ Enumerator \/ PollPanics \/ ManagerTask

UsbSpec == UsbInit /\ [][UsbNext]_vars

(* Both tasks run; nothing makes either of them panic. *)
FairSpec == UsbSpec /\ WF_vars(Enumerator) /\ WF_vars(ManagerTask)

-----------------------------------------------------------------------------
(* The type of the state. *)
TypeOK ==
  /\ usb \in [Ports -> {"absent", "free", "taken"}]
  /\ polling \in BOOLEAN
  /\ current \subseteq Ports /\ removed \subseteq Ports /\ added \subseteq Ports
  /\ infoQ \in Seq(Messages)
  /\ running \in BOOLEAN
  /\ handle \in [Ports -> Devices \cup {NoDevice}]
  /\ severed \subseteq Devices
  /\ life \in [Devices -> Lives]
  /\ port \in [Devices -> Ports \cup {NoPort}]

(* A manager that had a device at a port, or had not, will have one after  *)
(* the first i messages of q: the last word about the port is an added.    *)
HasAfter(had, q, p, i) ==
  \E j \in 0..i :
    /\ IF j = 0 THEN had ELSE q[j] = Plus(p)
    /\ \A k \in (j + 1)..i : q[k].port # p

Expects(p, i) == HasAfter(handle[p] # NoDevice, infoQ, p, i)

(* The manager lags behind the enumerator by the messages on their way and *)
(* by what the poll under way has still to send, although a full channel   *)
(* holds the enumerator up in the middle of a poll; and the messages about *)
(* a port alternate, so that the index that would panic,                   *)
(* devices[&port_name], always finds a device.                             *)
FollowsPolls ==
  /\ added \subseteq current
  /\ removed \cap current = {}
  /\ running => \A p \in Ports :
       /\ Expects(p, Len(infoQ)) <=> p \in (current \ added) \cup removed
       /\ \A i \in 1..Len(infoQ) :
            infoQ[i].port = p => (infoQ[i].kind = "added" <=> ~Expects(p, i - 1))

(* The manager keeps what it promises the registry. *)
FeedSpec == Spec

AllUsed == \A d \in Devices : life[d] # "unborn"

(* The device of a cartridge that stays unplugged leaves the registry,     *)
(* unless one of the two tasks has panicked or there is no Uuid left to    *)
(* go on with.                                                             *)
UnpluggedIsRemoved ==
  \A p \in Ports :
    <>[](usb[p] = "absent") => <>[](handle[p] = NoDevice \/ ~running \/ ~polling \/ AllUsed)
=============================================================================
