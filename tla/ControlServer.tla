--------------------------- MODULE ControlServer ---------------------------
(***************************************************************************)
(* ruccs as a whole: websocket sessions, the registry behind its RwLock,   *)
(* the manager task, the tray thread and the device tasks, interleaved as  *)
(* tokio's worker threads may interleave them.                             *)
(***************************************************************************)
EXTENDS DeviceTasks, ClientSessions, Registry

Init ==
  /\ registry = {}
  /\ events = <<>>
  /\ manager = "recv"
  /\ tray = "idle"
  /\ lockQueue = <<>>
  /\ readers = {}
  /\ client = [c \in Clients |-> Disconnected]
  /\ task = [d \in Devices |-> NotStarted]
  /\ inbox = [d \in Devices |-> <<>>]
  /\ handles = {}
  /\ reported = {}
  /\ removal = NoRemoval

Next ==
  \/ \E c \in Clients : SessionStep(c)
  \/ \E d \in Devices : DeviceStep(d) \/ EmuNwaSettles(d) \/ Fails(d) \/ Feed(d)
  \/ ManagerStep
  \/ TrayStep

Spec == Init /\ [][Next]_vars

-----------------------------------------------------------------------------
(* Fairness. *)

(* Every task that can run is run; the lock and the channels serve their   *)
(* waiters in order, so a session, or a Close, that finds room in a        *)
(* device's channel again and again gets its turn (SF); a peer takes the   *)
(* data written to its websocket or its connection breaks; hardware and    *)
(* emulators answer.                                                       *)
(* An emulator acknowledges a write that it got in full: whether it ever   *)
(* acknowledges one that was cut short is up to the emulator.              *)
FairTasks ==
  /\ WF_vars(ManagerStep)
  /\ WF_vars(BuildMenu)
  /\ \A c \in Clients : /\ WF_vars(ServeLock(c))
                        /\ SF_vars(Post(c))
                        /\ WF_vars(TakeReply(c))
                        /\ WF_vars(Forwards(c))
  /\ \A d \in Devices : /\ WF_vars(DeviceStep(d))
                        /\ WF_vars(Complete(d) /\ EmuNwaSettles(d))
                        /\ WF_vars(ConnectionClosed(d))
                        /\ SF_vars(SendClose(d))
                        /\ WF_vars(RetroarchRemoved(d))

(* A peer that announced an upload sends it, or something else, or leaves. *)
FairPeers == \A c \in Clients : WF_vars(PeerActs(c))

FairSpec == Spec /\ FairTasks /\ FairPeers

-----------------------------------------------------------------------------
(* Invariants. *)

(* The type of the state. *)
TypeOK ==
  /\ registry \subseteq Devices
  /\ events \in Seq(Events)
  /\ manager \in {"recv", "lock"}
  /\ tray \in {"idle", "lock"}
  /\ lockQueue \in Seq(Clients \cup {Manager, Tray})
  /\ readers \subseteq Clients
  /\ client \in [Clients -> Sessions]
  /\ task \in [Devices -> Tasks]
  /\ inbox \in [Devices -> Seq(Clients \cup {Close})]
  /\ handles \subseteq Devices
  /\ reported \subseteq Devices
  /\ removal \in Removals

(* The tasks in the lock's queue are those that wait for it, each once: no *)
(* task moves on and leaves its place in the queue to be served in its     *)
(* stead, and the manager has an event for the write guard it waits for.   *)
WaitsOnce ==
  /\ \A i \in 1..Len(lockQueue) :
       /\ lockQueue[i] \in Clients => client[lockQueue[i]].mode = "lock"
       /\ lockQueue[i] = Manager => manager = "lock"
       /\ lockQueue[i] = Tray => tray = "lock"
       /\ \A j \in 1..Len(lockQueue) : lockQueue[j] = lockQueue[i] => j = i
  /\ manager = "lock" => events # <<>>

(* A session whose request is out keeps a read guard, and its device stays *)
(* in the registry for as long: no removal slips in between the lookup of  *)
(* Manager.request and the reply.                                          *)
GuardPinsDevice ==
  \A c \in Clients :
    /\ c \in readers <=> client[c].mode \in {"mailbox", "reply"}
    /\ c \in readers => client[c].device \in registry

(* Where the oneshot Sender of a session's request is: <<d, i>> is place i  *)
(* of device d's channel and <<d, 0>> is the hands of its task.            *)
Places == UNION { {d} \X (0..Len(inbox[d])) : d \in Devices }
Holds(d, i, c) ==
  IF i = 0 THEN task[d].mode = "work" /\ task[d].client = c ELSE inbox[d][i] = c
Tickets(c) == { p \in Places : Holds(p[1], p[2], c) }

(* A session that waits for a reply has its request in one place, at the   *)
(* device it is attached to, and no other session has one anywhere.  So no *)
(* reply goes missing, none comes twice or from another device, and the    *)
(* unwrap on sending a reply never meets a session that stopped waiting.   *)
OneTicket ==
  \A c \in Clients :
    IF client[c].mode = "reply" /\ client[c].reply = "none"
    THEN \E p \in Tickets(c) : Tickets(c) = {p} /\ p[1] = client[c].device
    ELSE Tickets(c) = {}

Ascending(from, s, to) ==
  /\ from <= to
  /\ \A i \in 1..Len(s) : (IF i = 1 THEN from ELSE s[i - 1]) <= s[i] /\ s[i] <= to

(* The bytes of an upload: what the device took, then what its channel     *)
(* holds in order, then what the session still expects from its peer, make *)
(* up the announced size.  A device is never sent more than it announced   *)
(* (a Lua task's count would underflow), and no other session's bytes are  *)
(* in its channel.                                                         *)
UploadAddsUp ==
  /\ \A d \in Devices : Ascending(task[d].moved, task[d].slices, task[d].size)
  /\ \A c \in Clients :
       LET d == client[c].device IN
       client[c].mode = "sending" /\ client[c].remaining > 0 =>
         \/ task[d].mode = "gone"
         \/ /\ DeviceHoldsReceiver(c)
            /\ LastSlice(task[d].slices, task[d].moved) + client[c].remaining = task[d].size

(* The bytes of a download: what the session forwarded and what its        *)
(* channel holds is what the device has pushed, or all of it from a device *)
(* that returned to its loop; only an ended device leaves a gap.  While a  *)
(* session reads, no device but a Lua one serves another session.          *)
DownloadAddsUp ==
  \A c \in Clients :
    LET d == client[c].device
        end == LastSlice(client[c].slices, client[c].received) IN
    client[c].mode = "reading" =>
      /\ Ascending(client[c].received, client[c].slices, client[c].req.size)
      /\ \/ task[d].mode = "gone"
         \/ DeviceHoldsSender(c) /\ end = task[d].moved /\ task[d].size = client[c].req.size
         \/ Kind[d] = "lua" /\ end = client[c].req.size

(* Whether a device will be in the registry once the queued events are     *)
(* applied: the last event about it decides.                               *)
WillBeRegistered(d) ==
  LET about == { i \in 1..Len(events) : events[i].dev = d } IN
  IF about = {} THEN d \in registry
  ELSE \E i \in about : events[i].kind = "Created" /\ \A j \in about : j <= i

(* The registry lags behind the device managers by the queued events and   *)
(* by nothing else: no creation or removal is lost, doubled or reordered.  *)
RegistryFollowsHandles ==
  \A d \in Devices : WillBeRegistered(d) <=> d \in handles

-----------------------------------------------------------------------------
(* Liveness. *)

(* A session that is handling a request comes back to its select loop or   *)
(* ends, however the lock, the channels and the devices are contended.     *)
RequestsEnd ==
  \A c \in Clients :
    client[c].mode \in {"lock", "mailbox", "reply", "reading"}
      ~> client[c].mode \in {"ready", "sending", "closed"}

(* The registry catches up with every event.                               *)
EventsApplied == manager = "lock" ~> manager = "recv"

(* A RetroArch that was found gone leaves the registry, although its task  *)
(* may have requests queued, wait for an upload or have ended by itself.   *)
RemovalsEnd == \A d \in Devices : removal.dev = d ~> removal.dev # d

(* The tray menu opens: main.rs says that the calls behind it should be    *)
(* guaranteed to return quickly.                                           *)
MenuOpens == tray = "lock" ~> tray = "idle"
=============================================================================
