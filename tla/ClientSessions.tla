-------------------------- MODULE ClientSessions --------------------------
(***************************************************************************)
(* The websocket sessions of server.rs: handle_client reads one message at *)
(* a time, handle_request carries a request through the registry to a      *)
(* device and its reply back.  Names keep those of the code: client.device *)
(* is Client.device_id, client.remaining the count in                      *)
(* ClientState::SendingData, client.received the local received_len.       *)
(***************************************************************************)
EXTENDS ServerState

SessionStays == UNCHANGED <<registry, events, manager, tray, task, inbox, feedVars>>

(* Mutant: the loop polls the websocket while a request is out, and leaves  *)
(* the request behind when the peer is gone or sends another.              *)
ListeningAlways(c) == client[c].mode \in {"ready", "sending", "lock", "mailbox", "reply"}

(* A select loop that is not inside handle_request or a send. *)
Listening(c) == client[c].mode \in {"ready", "sending"}

(* The session after a request that leaves it ready for the next. *)
Ready(c) == [client[c] EXCEPT !.mode = "ready", !.req = NoRequest, !.reply = "none",
                              !.remaining = 0, !.received = 0, !.slices = <<>>]

(* The connection is accepted and gets a session of its own. *)
Connect(c) ==
  /\ client[c].mode = "closed"
  /\ client' = [client EXCEPT ![c] = [Disconnected EXCEPT !.mode = "ready"]]
  /\ SessionStays /\ UNCHANGED <<lockQueue, readers>>

(* The peer closes the connection, or sends something that is no request:  *)
(* handle_client returns.                                                  *)
PeerLeaves(c) ==
  /\ Listening(c)
  /\ client' = [client EXCEPT ![c] = Disconnected]
  /\ SessionStays /\ UNCHANGED <<lockQueue, readers>>

(* A request answered without the registry: AppVersion, Name, or a device  *)
(* command from a session that is attached to none.  Like every request it *)
(* overwrites client.state first, which drops the Sender of an upload that *)
(* is under way.  Writing the answer may fail.                             *)
LocalRequest(c) ==
  /\ Listening(c)
  /\ client' \in { [client EXCEPT ![c] = s] : s \in {Ready(c), Disconnected} }
  /\ SessionStays /\ UNCHANGED <<lockQueue, readers>>

(* A request that needs the registry: client.state becomes Busy, dropping  *)
(* the Sender of an unfinished upload, and the task queues for the lock.   *)
AskForLock(c) ==
  /\ Listening(c)
  /\ \E r \in {ListRequest} \cup AttachRequests \cup MeaningfulRequests :
       /\ r.cmd \in Commands => client[c].device # NoDevice
       /\ client' = [client EXCEPT ![c] = [Ready(c) EXCEPT !.mode = "lock", !.req = r]]
  /\ lockQueue' = Append(lockQueue, c)
  /\ SessionStays /\ UNCHANGED readers

-----------------------------------------------------------------------------
(* With the read guard. *)

(* The RwLock is external (tokio): it serves its queue in order, and the   *)
(* manager's write guard lives within one step of the manager.             *)
GrantedRead(c) == lockQueue # <<>> /\ Head(lockQueue) = c

(* DeviceList: the guard lives as long as get_names does. *)
ListDevices(c) ==
  /\ GrantedRead(c)
  /\ client[c].req = ListRequest
  /\ lockQueue' = Tail(lockQueue)
  /\ client' \in { [client EXCEPT ![c] = s] : s \in {Ready(c), Disconnected} }
  /\ SessionStays /\ UNCHANGED readers

(* get_device: any registered device with the name (a HashMap has no order). *)
Registered(name) == { d \in registry : NameOf[d] = name }

Attach(c) ==
  /\ GrantedRead(c)
  /\ client[c].req \in AttachRequests
  /\ lockQueue' = Tail(lockQueue)
  /\ IF Registered(client[c].req.name) = {}
     THEN client' = [client EXCEPT ![c] = Disconnected]
     ELSE \E d \in Registered(client[c].req.name) :
            client' = [client EXCEPT ![c] = [Ready(c) EXCEPT !.device = d]]
  /\ SessionStays /\ UNCHANGED readers

(* Manager.request: a device that is not in the registry any more is an    *)
(* error, which ends the session; otherwise the request goes to the        *)
(* device's channel, under the read guard.                                 *)
Lookup(c) ==
  /\ GrantedRead(c)
  /\ client[c].req.cmd \in Commands
  /\ lockQueue' = Tail(lockQueue)
  /\ IF client[c].device \in registry
     THEN /\ client' = [client EXCEPT ![c].mode = "mailbox"]
          /\ readers' = readers \cup {c}
     ELSE /\ client' = [client EXCEPT ![c] = Disconnected]
          /\ UNCHANGED readers
  /\ SessionStays

(* Mutant: request clones the device and lets go of the guard.              *)
GuardDropped(c) == readers \ {c}

(* The read guard of request is held until the reply is there. *)
GuardKept(c) == readers

(* Mutant: the send waits for room without noticing that the task ended.    *)
PostBlindly(c) ==
  LET d == client[c].device IN
  /\ client[c].mode = "mailbox"
  /\ task[d].mode # "gone"
  /\ Len(inbox[d]) < InboxCap(d)
  /\ inbox' = [inbox EXCEPT ![d] = Append(@, c)]
  /\ client' = [client EXCEPT ![c].mode = "reply"]
  /\ readers' = GuardKept(c)
  /\ UNCHANGED <<registry, events, manager, tray, lockQueue, task, feedVars>>

(* Device.request, first await: the request enters the channel when there  *)
(* is room; a channel whose task has ended is an error.                    *)
Post(c) ==
  LET d == client[c].device IN
  /\ client[c].mode = "mailbox"
  /\ \/ /\ task[d].mode # "gone"
        /\ Len(inbox[d]) < InboxCap(d)
        /\ inbox' = [inbox EXCEPT ![d] = Append(@, c)]
        /\ client' = [client EXCEPT ![c].mode = "reply"]
        /\ readers' = GuardKept(c)
     \/ /\ task[d].mode = "gone"
        /\ client' = [client EXCEPT ![c] = Disconnected]
        /\ readers' = readers \ {c}
        /\ UNCHANGED inbox
  /\ UNCHANGED <<registry, events, manager, tray, lockQueue, task, feedVars>>

(* Device.request, second await: the reply, or an error when its Sender    *)
(* was dropped.  The read guard ends here; the reply is then handled.      *)
TakeReply(c) ==
  LET Goes(s) == client' = [client EXCEPT ![c] = s]
      size == client[c].req.size IN
  /\ client[c].mode = "reply"
  /\ \/ /\ client[c].reply = "Dropped"
        /\ Goes(Disconnected)
     \/ /\ client[c].reply = "Empty"
        /\ Goes(Ready(c))
     \/ /\ client[c].reply = "Strings"
        /\ Goes(Ready(c)) \/ Goes(Disconnected)
     \/ /\ client[c].reply \in {"BinaryReader", "FileReader"}
        /\ \/ Goes(IF size = 0 THEN Ready(c)
                  ELSE [client[c] EXCEPT !.mode = "reading", !.reply = "none"])
           \/ client[c].reply = "FileReader" /\ Goes(Disconnected)
     \/ /\ client[c].reply = "BinaryWriter"
        /\ Goes([Ready(c) EXCEPT !.mode = "sending", !.remaining = size])
  /\ readers' = readers \ {c}
  /\ SessionStays /\ UNCHANGED lockQueue

-----------------------------------------------------------------------------
(* Binary data. *)

(* The loop over receiver.recv(): a message is counted and written to the  *)
(* websocket, which fails when the peer has gone.                          *)
ForwardDown(c) ==
  LET end == Head(client[c].slices) IN
  /\ client[c].mode = "reading"
  /\ client[c].slices # <<>>
  /\ client' \in { [client EXCEPT ![c] = s] : s \in
       { Disconnected,
         IF end < client[c].req.size
         THEN [client[c] EXCEPT !.received = end, !.slices = Tail(@)]
         ELSE Ready(c) } }
  /\ SessionStays /\ UNCHANGED <<lockQueue, readers>>

(* recv gives None before the announced size arrived: the session ends.    *)
DownBreaks(c) ==
  /\ client[c].mode = "reading"
  /\ client[c].slices = <<>>
  /\ ~DeviceHoldsSender(c)
  /\ client' = [client EXCEPT ![c] = Disconnected]
  /\ SessionStays /\ UNCHANGED <<lockQueue, readers>>

(* Mutant: a frame is passed on whole.                                      *)
TakenUncut(c, frame) == frame

(* What a frame adds to the upload: no more than what is still expected.   *)
Taken(c, frame) == IF frame > client[c].remaining THEN client[c].remaining ELSE frame

(* A binary frame during an upload is cut to the expected size and passed  *)
(* to the device once its channel has room.  The send is unwrapped: when   *)
(* the device stopped listening the session's task panics.                 *)
SendFrame(c) ==
  LET d == client[c].device IN
  /\ client[c].mode = "sending"
  /\ \/ \E frame \in 1..MaxFrame :
          LET n == Taken(c, frame)
              left == client[c].remaining - n IN
          /\ DeviceHoldsReceiver(c)
          /\ Len(task[d].slices) < ChannelCap
          /\ task' = [task EXCEPT ![d].slices =
                                     Append(@, LastSlice(@, task[d].moved) + n)]
          /\ client' = [client EXCEPT ![c] =
               IF left > 0 THEN [client[c] EXCEPT !.remaining = left] ELSE Ready(c)]
     \/ /\ ~DeviceHoldsReceiver(c)
        /\ client' = [client EXCEPT ![c] = Disconnected]
        /\ UNCHANGED task
  /\ UNCHANGED <<registry, events, lockVars, inbox, feedVars>>

(* What the session's task does by itself, between two messages of its peer. *)
ServeLock(c) == ListDevices(c) \/ Attach(c) \/ Lookup(c)
Forwards(c) == ForwardDown(c) \/ DownBreaks(c)

(* What the peer can do to an upload that is under way. *)
PeerActs(c) ==
  client[c].mode = "sending" /\ (SendFrame(c) \/ PeerLeaves(c) \/ LocalRequest(c) \/ AskForLock(c))

SessionStep(c) ==
  \/ Connect(c) \/ PeerLeaves(c) \/ LocalRequest(c) \/ AskForLock(c)
  \/ ServeLock(c) \/ Post(c) \/ TakeReply(c) \/ Forwards(c) \/ SendFrame(c)
=============================================================================
