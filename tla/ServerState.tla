---------------------------- MODULE ServerState ----------------------------
(***************************************************************************)
(* The state that ruccs' tokio tasks share: the device registry behind its *)
(* RwLock (manager.rs), the websocket sessions (server.rs), the device     *)
(* tasks with their request channels (devices/*.rs) and the channels that  *)
(* carry binary data between a session and a device.  The modules          *)
(* DeviceTasks, ClientSessions and Registry add the steps of each task;    *)
(* ControlServer composes them.                                            *)
(*                                                                         *)
(* A binary channel carries slices of one transfer.  A slice is written as *)
(* the position at which it ends, so the bytes of a queued slice are those *)
(* between the end of the slice before it and its own end.                 *)
(***************************************************************************)
EXTENDS Naturals, Sequences, FiniteSets

CONSTANTS
  Clients,      \* websocket connections that may be open at once
  Devices,      \* the Uuids ever given to a device, each used for one task
  Names,        \* device names, what Attach looks up
  NameOf,       \* the name of each device; a reconnected device keeps its name
  Kind,         \* the device file that implements each device
  Commands,     \* the protocol commands clients send to a device
  Sizes,        \* byte counts a transfer may announce
  MaxFrame,     \* the largest websocket binary frame
  ChannelCap,   \* capacity of a binary channel (32 in the code)
  LuaInboxCap,  \* capacity of a Lua device's request channel (128 in the code)
  EventCap,     \* capacity of manager_rx plus the event the manager holds
  NoClient, NoDevice, NoName,
  Manager, Tray, \* the two tasks beside the sessions that take the lock
  Close          \* DeviceRequest::Close in a request channel

Kinds == {"lua", "sd2snes", "retroarch", "emunwa"}
DeviceCommands ==
  {"Info", "Reset", "GetAddress", "PutAddress", "GetFile", "PutFile"}
Transfers == {"GetAddress", "PutAddress", "GetFile", "PutFile"}

ASSUME ServerAssumption ==
  /\ NameOf \in [Devices -> Names]
  /\ Kind \in [Devices -> Kinds]
  /\ Commands \subseteq DeviceCommands
  /\ Sizes \subseteq Nat
  /\ MaxFrame \in Nat \ {0}
  /\ ChannelCap \in Nat \ {0}
  /\ LuaInboxCap \in Nat \ {0}
  /\ EventCap \in Nat \ {0}
  /\ NoClient \notin Clients
  /\ NoDevice \notin Devices
  /\ NoName \notin Names
  /\ Close \notin Clients
  /\ Close # NoClient
  /\ Manager \notin Clients
  /\ Tray \notin Clients
  /\ Manager # Tray

VARIABLES
  registry,  \* Manager.devices: the Uuids a session can send requests to
  events,    \* manager_rx: device creations and removals not yet applied
  manager,   \* the manager task: waiting for an event or for the lock
  tray,      \* the tray thread: idle or waiting for the lock
  lockQueue, \* tasks waiting for the RwLock, served in order
  readers,   \* sessions that keep a read guard while a request is out
  client,    \* the state of each session
  task,      \* the state of each device task
  inbox,     \* the request channel of each device
  handles,   \* devices in the HashMap of their device manager
  reported,  \* devices whose ConnectionClosed their manager has not handled
  removal    \* the device whose RaRemoved the RetroarchManager is handling

lockVars == <<manager, tray, lockQueue, readers>>
feedVars == <<handles, reported, removal>>
vars == <<registry, events, lockVars, client, task, inbox, feedVars>>

-----------------------------------------------------------------------------
(* Requests and replies (protocol::Command, DeviceResponse). *)

NoRequest == [cmd |-> "none", size |-> 0, name |-> NoName]

DeviceRequests ==
  { [cmd |-> k, size |-> n, name |-> NoName] : k \in Commands, n \in Sizes }

(* Commands that carry no data have no size to choose. *)
MeaningfulRequests ==
  { r \in DeviceRequests : r.cmd \in Transfers \/ \A n \in Sizes : r.size <= n }

ListRequest == [cmd |-> "DeviceList", size |-> 0, name |-> NoName]
AttachRequests == { [cmd |-> "Attach", size |-> 0, name |-> n] : n \in Names }

Requests == DeviceRequests \cup {NoRequest, ListRequest} \cup AttachRequests

Replies == {"none", "Strings", "Empty", "BinaryReader", "FileReader",
            "BinaryWriter", "Dropped"}

(* Where a session task stands: no connection; in its select loop with     *)
(* ClientState Ready or SendingData; in handle_request waiting for the     *)
(* lock, for room in the device's channel, or for the reply; forwarding    *)
(* binary data to the websocket.                                           *)
Modes == {"closed", "ready", "sending", "lock", "mailbox", "reply", "reading"}

(* Where a device task stands: not started; in its select loop; at work on *)
(* a request not yet answered; pushing data to a session; pulling data     *)
(* from one; waiting for the emulator to acknowledge a write; ended.       *)
TaskModes == {"off", "idle", "work", "push", "pull", "settle", "gone"}

Sessions ==
  [mode : Modes, device : Devices \cup {NoDevice}, req : Requests, reply : Replies,
   remaining : Nat, received : Nat, slices : Seq(Nat)]
Tasks ==
  { t \in [mode : TaskModes, client : Clients \cup {NoClient}, size : Nat,
            moved : Nat, slices : Seq(Nat)] : t.mode = "work" => t.client \in Clients }

Disconnected ==
  [mode |-> "closed", device |-> NoDevice, req |-> NoRequest, reply |-> "none",
   remaining |-> 0, received |-> 0, slices |-> <<>>]

NotStarted ==
  [mode |-> "off", client |-> NoClient, size |-> 0, moved |-> 0, slices |-> <<>>]

InState(d, m) ==
  [mode |-> m, client |-> NoClient, size |-> 0, moved |-> 0, slices |-> <<>>]

(* Which device RaRemoved is about, and whether its task was told: the     *)
(* handler sends to the device and then to manager_rx.                     *)
Removals == [dev : Devices \cup {NoDevice}, told : BOOLEAN]
NoRemoval == [dev |-> NoDevice, told |-> FALSE]

-----------------------------------------------------------------------------
(* The channels. *)

InboxCap(d) == IF Kind[d] = "lua" THEN LuaInboxCap ELSE 1

(* The mpsc and oneshot channels are external (tokio).  An end of a binary *)
(* channel is open exactly while the task that owns it is at a place where *)
(* it still keeps that end.                                                *)

(* Mutant: handle_request leaves client.state alone until it has the reply. *)
SenderOutlivesRequest(d) ==
  LET c == task[d].client IN
  /\ c \in Clients
  /\ client[c].device = d
  /\ \/ client[c].mode \in {"sending", "lock", "mailbox"}
     \/ client[c].mode = "reply" /\ client[c].reply \in {"none", "BinaryWriter"}

(* The session still holds the Sender of the upload device d is pulling.   *)
SessionHoldsSender(d) ==
  LET c == task[d].client IN
  /\ c \in Clients
  /\ client[c].device = d
  /\ \/ client[c].mode = "sending"
     \/ client[c].mode = "reply" /\ client[c].reply = "BinaryWriter"

(* The session still holds the Receiver of the download d is pushing.      *)
SessionHoldsReceiver(d) ==
  LET c == task[d].client IN
  /\ c \in Clients
  /\ client[c].device = d
  /\ \/ client[c].mode = "reading"
     \/ client[c].mode = "reply" /\ client[c].reply \in {"BinaryReader", "FileReader"}

(* The device the session is uploading to still holds the Receiver.        *)
DeviceHoldsReceiver(c) ==
  LET d == client[c].device IN
  d \in Devices /\ task[d].client = c /\ task[d].mode \in {"pull", "settle"}

(* The device the session is downloading from still holds the Sender.      *)
DeviceHoldsSender(c) ==
  LET d == client[c].device IN
  d \in Devices /\ task[d].client = c /\ task[d].mode = "push"

LastSlice(s, from) == IF s = <<>> THEN from ELSE s[Len(s)]

(* Mutant: an ended task keeps the requests in its channel unanswered.      *)
WaitersInHand(d) == { c \in Clients : task[d].mode = "work" /\ task[d].client = c }

(* Sessions whose oneshot Sender is inside device d's task or its channel. *)
Waiters(d) ==
  { c \in Clients : \/ \E i \in 1..Len(inbox[d]) : inbox[d][i] = c
                    \/ task[d].mode = "work" /\ task[d].client = c }

(* The task of device d returns or panics: its channel ends are dropped,   *)
(* and with them the reply channels of every request it had not answered.  *)
TaskEnds(d) ==
  /\ task' = [task EXCEPT ![d] = InState(d, "gone")]
  /\ inbox' = [inbox EXCEPT ![d] = <<>>]
  /\ client' = [c \in Clients |-> IF c \in Waiters(d)
                                  THEN [client[c] EXCEPT !.reply = "Dropped"]
                                  ELSE client[c]]
=============================================================================
