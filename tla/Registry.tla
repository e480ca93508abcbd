------------------------------ MODULE Registry ------------------------------
(***************************************************************************)
(* The manager task of manager.rs, which applies the creations and         *)
(* removals that the device managers send, and the tray thread of tao.rs,  *)
(* which lists the registry when its menu opens.  The device managers      *)
(* appear through what they do to a device: start its task and announce    *)
(* it, or forget it and announce that.                                     *)
(***************************************************************************)
EXTENDS ServerState

Created(d) == [kind |-> "Created", dev |-> d]
Removed(d) == [kind |-> "Removed", dev |-> d]
Events == { Created(d) : d \in Devices } \cup { Removed(d) : d \in Devices }

(* Mutant: try_send, which drops an event that finds no room.               *)
AnnounceOrDrop(e) ==
  events' = IF Len(events) < EventCap THEN Append(events, e) ELSE events

(* An event enters manager_rx once there is room. *)
Announce(e) == Len(events) < EventCap /\ events' = Append(events, e)

-----------------------------------------------------------------------------
(* The device managers. *)

(* A device appears: its task is started under a new Uuid, DeviceCreated   *)
(* is sent and the handle is kept under the device's port or url, which    *)
(* its name stands for here and which no other handle has.  A RetroArch    *)
(* waits until its manager is done with the one before.                    *)
DeviceAppears(d) ==
  /\ task[d].mode = "off"
  /\ Kind[d] = "retroarch" => removal = NoRemoval
  /\ \A x \in handles : NameOf[x] # NameOf[d]
  /\ task' = [task EXCEPT ![d] = InState(d, "idle")]
  /\ handles' = handles \cup {d}
  /\ Announce(Created(d))
  /\ UNCHANGED <<registry, lockVars, client, inbox, reported, removal>>

(* The serial port of an sd2snes is gone: its handle is dropped, its task  *)
(* is not told.                                                            *)
PortRemoved(d) ==
  /\ Kind[d] = "sd2snes"
  /\ d \in handles
  /\ handles' = handles \ {d}
  /\ Announce(Removed(d))
  /\ UNCHANGED <<registry, lockVars, client, task, inbox, reported, removal>>

(* RetroArch stopped answering its enumerator, whose RaRemoved the manager *)
(* takes up.  It handles nothing else until both of its sends are done.    *)
RetroarchLost(d) ==
  /\ Kind[d] = "retroarch"
  /\ d \in handles
  /\ removal = NoRemoval
  /\ removal' = [dev |-> d, told |-> FALSE]
  /\ UNCHANGED <<registry, events, lockVars, client, task, inbox, handles, reported>>

(* Mutant: the result of the send is unwrapped, as SD2SnesManager does.    *)
SendCloseUnwrapped(d) ==
  /\ removal = [dev |-> d, told |-> FALSE]
  /\ task[d].mode # "gone"
  /\ Len(inbox[d]) < InboxCap(d)
  /\ inbox' = [inbox EXCEPT ![d] = Append(@, Close)]
  /\ removal' = [dev |-> d, told |-> TRUE]
  /\ UNCHANGED <<registry, events, lockVars, client, task, handles, reported>>

(* The task is asked to close as soon as its channel has room; that it has *)
(* ended is an ignored error.                                              *)
SendClose(d) ==
  /\ removal = [dev |-> d, told |-> FALSE]
  /\ \/ /\ task[d].mode # "gone"
        /\ Len(inbox[d]) < InboxCap(d)
        /\ inbox' = [inbox EXCEPT ![d] = Append(@, Close)]
     \/ /\ task[d].mode = "gone"
        /\ UNCHANGED inbox
  /\ removal' = [dev |-> d, told |-> TRUE]
  /\ UNCHANGED <<registry, events, lockVars, client, task, handles, reported>>

(* Its removal is announced and the handle is dropped. *)
RetroarchRemoved(d) ==
  /\ removal = [dev |-> d, told |-> TRUE]
  /\ handles' = handles \ {d}
  /\ Announce(Removed(d))
  /\ removal' = NoRemoval
  /\ UNCHANGED <<registry, lockVars, client, task, inbox, reported>>

(* What a report makes its manager drop.  The RetroarchManager looks up    *)
(* the url and not the Uuid of the report: it drops whichever device has   *)
(* that url by now.                                                        *)
DropsOnReport(d) ==
  { x \in handles : \/ x = d
                     \/ /\ Kind[d] = "retroarch" /\ Kind[x] = "retroarch"
                        /\ NameOf[x] = NameOf[d] }

(* A device's ConnectionClosed reaches its manager, which drops the handle *)
(* unless it already has.                                                  *)
ConnectionClosed(d) ==
  /\ d \in reported
  /\ Kind[d] = "retroarch" => removal = NoRemoval
  /\ reported' = reported \ {d}
  /\ \/ DropsOnReport(d) = {} /\ UNCHANGED <<handles, events>>
     \/ \E x \in DropsOnReport(d) : handles' = handles \ {x} /\ Announce(Removed(x))
  /\ UNCHANGED <<registry, lockVars, client, task, inbox, removal>>

Feed(d) ==
  \/ DeviceAppears(d) \/ PortRemoved(d) \/ ConnectionClosed(d)
  \/ RetroarchLost(d) \/ SendClose(d) \/ RetroarchRemoved(d)

-----------------------------------------------------------------------------
(* The manager task. *)

(* manager_rx.recv() gives an event, and write() queues for the lock.      *)
TakeEvent ==
  /\ manager = "recv"
  /\ events # <<>>
  /\ manager' = "lock"
  /\ lockQueue' = Append(lockQueue, Manager)
  /\ UNCHANGED <<registry, events, tray, readers, client, task, inbox, feedVars>>

(* The write guard is given once every read guard has ended.               *)
GrantedWrite == lockQueue # <<>> /\ Head(lockQueue) = Manager /\ readers = {}

ApplyEvent ==
  LET e == Head(events) IN
  /\ GrantedWrite
  /\ registry' = IF e.kind = "Created" THEN registry \cup {e.dev}
                                       ELSE registry \ {e.dev}
  /\ events' = Tail(events)
  /\ manager' = "recv"
  /\ lockQueue' = Tail(lockQueue)
  /\ UNCHANGED <<tray, readers, client, task, inbox, feedVars>>

-----------------------------------------------------------------------------
(* The tray thread: a right click rebuilds the menu, blocking the thread   *)
(* until a read guard is given.                                            *)

RightClick ==
  /\ tray = "idle"
  /\ tray' = "lock"
  /\ lockQueue' = Append(lockQueue, Tray)
  /\ UNCHANGED <<registry, events, manager, readers, client, task, inbox, feedVars>>

BuildMenu ==
  /\ lockQueue # <<>> /\ Head(lockQueue) = Tray
  /\ lockQueue' = Tail(lockQueue)
  /\ tray' = "idle"
  /\ UNCHANGED <<registry, events, manager, readers, client, task, inbox, feedVars>>

ManagerStep == TakeEvent \/ ApplyEvent
TrayStep == RightClick \/ BuildMenu
=============================================================================
