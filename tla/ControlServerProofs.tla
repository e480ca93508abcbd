------------------------ MODULE ControlServerProofs ------------------------
(***************************************************************************)
(* Proofs about ControlServer, for any number of connections, devices and  *)
(* names, any mix of device kinds and any channel capacities.              *)
(*                                                                         *)
(* In four parts, each with an inductive invariant that rests on the one   *)
(* before: GuardInv (types, the lock and its guards), RegistryInv (the     *)
(* registry, the queued events and the managers' handles), RequestInv (the *)
(* one place of a request) and TransferInv (the bytes of a transfer).      *)
(***************************************************************************)
EXTENDS ControlServer, SequenceTheorems, TLAPS

-----------------------------------------------------------------------------
(* Types of the operators that steps are built from. *)

(* Every request has a size and is typed, whichever command it is.         *)
LEMMA RequestTypes ==
  /\ NoRequest \in Requests /\ ListRequest \in Requests
  /\ AttachRequests \subseteq Requests
  /\ MeaningfulRequests \subseteq Requests
  /\ \A r \in Requests : r.size \in Nat
  BY ServerAssumption
  DEF NoRequest, ListRequest, AttachRequests, MeaningfulRequests, DeviceRequests, Requests

(* A new session, and a session that is ready for its next request.        *)
LEMMA SessionTypes ==
  /\ Disconnected \in Sessions
  /\ [Disconnected EXCEPT !.mode = "ready"] \in Sessions
  /\ \A c \in Clients : client[c] \in Sessions => Ready(c) \in Sessions
  <1>1. Disconnected \in Sessions
    BY RequestTypes, EmptySeq DEF Disconnected, Sessions, Modes, Replies
  <1>2. [Disconnected EXCEPT !.mode = "ready"] \in Sessions
    BY <1>1 DEF Sessions, Modes
  <1>3. \A c \in Clients : client[c] \in Sessions => Ready(c) \in Sessions
    BY RequestTypes, EmptySeq DEF Ready, Sessions, Modes, Replies
  <1> QED BY <1>1, <1>2, <1>3

(* A task between two requests. *)
LEMMA TaskTypes ==
  ASSUME NEW d, NEW m \in TaskModes \ {"work"}
  PROVE  InState(d, m) \in Tasks
  BY EmptySeq DEF InState, Tasks

(* One session at a time changes. *)
LEMMA SessionUpdate ==
  ASSUME client \in [Clients -> Sessions], NEW c \in Clients, NEW s \in Sessions
  PROVE  [client EXCEPT ![c] = s] \in [Clients -> Sessions]
  OBVIOUS

(* The end of a task leaves every part of the state typed. *)
LEMMA TaskEndsType ==
  ASSUME TypeOK, NEW d \in Devices, TaskEnds(d)
  PROVE  /\ client' \in [Clients -> Sessions]
         /\ task' \in [Devices -> Tasks]
         /\ inbox' \in [Devices -> Seq(Clients \cup {Close})]
  <1>1. client' \in [Clients -> Sessions]
    <2>1. \A c \in Clients : [client[c] EXCEPT !.reply = "Dropped"] \in Sessions
      BY DEF TypeOK, Sessions, Replies
    <2> QED BY <2>1 DEF TypeOK, TaskEnds
  <1>2. task' \in [Devices -> Tasks]
    BY TaskTypes DEF TypeOK, TaskEnds, TaskModes
  <1>3. inbox' \in [Devices -> Seq(Clients \cup {Close})]
    BY EmptySeq DEF TypeOK, TaskEnds
  <1> QED BY <1>1, <1>2, <1>3

(* The end of what a channel holds is a position in the transfer. *)
LEMMA LastSliceType ==
  ASSUME NEW s \in Seq(Nat), NEW from \in Nat
  PROVE  LastSlice(s, from) \in Nat
  BY ElementOfSeq, LenProperties DEF LastSlice

-----------------------------------------------------------------------------
(* Type correctness. *)

(* The session tasks keep the state typed. *)
LEMMA SessionStepType ==
  ASSUME TypeOK, NEW c \in Clients, SessionStep(c)
  PROVE  TypeOK'
  <1> USE DEF TypeOK
  <1>s. client[c] \in Sessions /\ Ready(c) \in Sessions
    BY SessionTypes
  <1>r. client[c].req \in Requests /\ client[c].req.size \in Nat
    BY <1>s, RequestTypes DEF Sessions
  <1>t. lockQueue # <<>> => Tail(lockQueue) \in Seq(Clients \cup {Manager, Tray})
    OBVIOUS
  <1>1. CASE Connect(c)
    BY <1>1, SessionTypes, SessionUpdate DEF Connect, SessionStays, feedVars
  <1>2. CASE PeerLeaves(c)
    BY <1>2, SessionTypes, SessionUpdate DEF PeerLeaves, SessionStays, feedVars
  <1>3. CASE LocalRequest(c)
    <2>1. PICK s \in {Ready(c), Disconnected} : client' = [client EXCEPT ![c] = s]
      BY <1>3 DEF LocalRequest
    <2> QED
      BY <1>3, <2>1, <1>s, SessionTypes, SessionUpdate DEF LocalRequest, SessionStays, feedVars
  <1>4. CASE AskForLock(c)
    <2>1. PICK r \in {ListRequest} \cup AttachRequests \cup MeaningfulRequests :
            client' = [client EXCEPT ![c] = [Ready(c) EXCEPT !.mode = "lock", !.req = r]]
      BY <1>4 DEF AskForLock
    <2>2. r \in Requests
      BY RequestTypes
    <2>3. [Ready(c) EXCEPT !.mode = "lock", !.req = r] \in Sessions
      BY <1>s, <2>2 DEF Sessions, Modes
    <2>4. lockQueue' \in Seq(Clients \cup {Manager, Tray})
      BY <1>4 DEF AskForLock
    <2> QED
      BY <1>4, <2>1, <2>3, <2>4, SessionUpdate DEF AskForLock, SessionStays, feedVars
  <1>5. CASE ListDevices(c)
    <2>1. PICK s \in {Ready(c), Disconnected} : client' = [client EXCEPT ![c] = s]
      BY <1>5 DEF ListDevices
    <2> QED
      BY <1>5, <2>1, <1>s, <1>t, SessionTypes, SessionUpdate
      DEF ListDevices, GrantedRead, SessionStays, feedVars
  <1>6. CASE Attach(c)
    <2>1. client' \in [Clients -> Sessions]
      <3>1. CASE Registered(client[c].req.name) = {}
        BY <1>6, <3>1, SessionTypes, SessionUpdate DEF Attach
      <3>2. CASE Registered(client[c].req.name) # {}
        <4>1. PICK d \in Registered(client[c].req.name) :
                client' = [client EXCEPT ![c] = [Ready(c) EXCEPT !.device = d]]
          BY <1>6, <3>2 DEF Attach
        <4>2. d \in Devices
          BY DEF Registered
        <4>3. [Ready(c) EXCEPT !.device = d] \in Sessions
          BY <1>s, <4>2 DEF Sessions
        <4> QED BY <4>1, <4>3, SessionUpdate
      <3> QED BY <3>1, <3>2
    <2> QED BY <1>6, <2>1, <1>t DEF Attach, GrantedRead, SessionStays, feedVars
  <1>7. CASE Lookup(c)
    <2>1. [client[c] EXCEPT !.mode = "mailbox"] \in Sessions
      BY <1>s DEF Sessions, Modes
    <2>2. client' \in [Clients -> Sessions]
      BY <1>7, <2>1, SessionTypes, SessionUpdate DEF Lookup
    <2>3. readers' \subseteq Clients
      BY <1>7 DEF Lookup
    <2> QED BY <1>7, <2>2, <2>3, <1>t DEF Lookup, GrantedRead, SessionStays, feedVars
  <1>8. CASE Post(c)
    <2>1. [client[c] EXCEPT !.mode = "reply"] \in Sessions
      BY <1>s DEF Sessions, Modes
    <2>2. client' \in [Clients -> Sessions]
      <3>1. \/ client' = [client EXCEPT ![c] = [client[c] EXCEPT !.mode = "reply"]]
            \/ client' = [client EXCEPT ![c] = Disconnected]
        BY <1>8 DEF Post
      <3> QED BY <2>1, <3>1, SessionTypes, SessionUpdate
    <2>3. readers' \subseteq Clients
      BY <1>8 DEF Post, GuardKept
    <2>4. inbox' \in [Devices -> Seq(Clients \cup {Close})]
      <3> DEFINE d == client[c].device
      <3>1. \/ inbox' = inbox
            \/ inbox' = [inbox EXCEPT ![d] = Append(inbox[d], c)]
        BY <1>8 DEF Post
      <3>2. d \in Devices => Append(inbox[d], c) \in Seq(Clients \cup {Close})
        BY AppendProperties
      <3> HIDE DEF d
      <3> QED BY <3>1, <3>2
    <2> QED BY <1>8, <2>2, <2>3, <2>4 DEF Post, lockVars, feedVars
  <1>9. CASE TakeReply(c)
    <2>1. [client[c] EXCEPT !.mode = "reading", !.reply = "none"] \in Sessions
      BY <1>s DEF Sessions, Modes, Replies
    <2>2. [Ready(c) EXCEPT !.mode = "sending", !.remaining = client[c].req.size] \in Sessions
      BY <1>s, <1>r DEF Sessions, Modes
    <2>3. client' \in [Clients -> Sessions]
      BY <1>9, <1>s, <2>1, <2>2, SessionTypes, SessionUpdate DEF TakeReply
    <2> QED BY <1>9, <2>3 DEF TakeReply, SessionStays, feedVars
  <1>10. CASE Forwards(c)
    <2>1. CASE ForwardDown(c)
      <3>1. client[c].slices \in Seq(Nat) /\ client[c].slices # <<>>
        BY <1>s, <2>1 DEF ForwardDown, Sessions
      <3>2. Head(client[c].slices) \in Nat /\ Tail(client[c].slices) \in Seq(Nat)
        BY <3>1, HeadTailProperties
      <3>3. [client[c] EXCEPT !.received = Head(client[c].slices),
                              !.slices = Tail(client[c].slices)] \in Sessions
        BY <1>s, <3>2 DEF Sessions
      <3>4. client' \in [Clients -> Sessions]
        BY <2>1, <1>s, <3>3, SessionTypes, SessionUpdate DEF ForwardDown
      <3> QED BY <2>1, <3>4 DEF ForwardDown, SessionStays, feedVars
    <2>2. CASE DownBreaks(c)
      BY <2>2, SessionTypes, SessionUpdate DEF DownBreaks, SessionStays, feedVars
    <2> QED BY <1>10, <2>1, <2>2 DEF Forwards
  <1>11. CASE SendFrame(c)
    <2>1. CASE ~DeviceHoldsReceiver(c)
      BY <1>11, <2>1, SessionTypes, SessionUpdate DEF SendFrame, lockVars, feedVars
    <2>2. CASE DeviceHoldsReceiver(c)
      <3> DEFINE d == client[c].device
                 left(n) == client[c].remaining - n
      <3>1. PICK frame \in 1..MaxFrame :
              /\ task' = [task EXCEPT ![d].slices =
                            Append(@, LastSlice(@, task[d].moved) + Taken(c, frame))]
              /\ client' = [client EXCEPT ![c] =
                   IF left(Taken(c, frame)) > 0
                   THEN [client[c] EXCEPT !.remaining = left(Taken(c, frame))]
                   ELSE Ready(c)]
        BY <1>11, <2>2 DEF SendFrame
      <3>2. d \in Devices /\ task[d] \in Tasks
        BY <2>2 DEF DeviceHoldsReceiver
      <3>3. client[c].remaining \in Nat /\ Taken(c, frame) \in Nat
        BY <1>s, ServerAssumption DEF Taken, Sessions
      <3>4. task' \in [Devices -> Tasks]
        <4>1. task[d].slices \in Seq(Nat) /\ task[d].moved \in Nat
          BY <3>2 DEF Tasks
        <4> DEFINE end == LastSlice(task[d].slices, task[d].moved) + Taken(c, frame)
        <4>2. end \in Nat
          <5>1. LastSlice(task[d].slices, task[d].moved) \in Nat
            BY <4>1, LastSliceType
          <5> QED BY <5>1, <3>3
        <4> HIDE DEF end
        <4>3. Append(task[d].slices, end) \in Seq(Nat)
          BY <4>1, <4>2, AppendProperties
        <4>4. task' = [task EXCEPT ![d] = [task[d] EXCEPT !.slices = Append(task[d].slices, end)]]
          BY <3>1 DEF end
        <4> QED BY <3>2, <4>3, <4>4 DEF Tasks
      <3>5. left(Taken(c, frame)) > 0 =>
              [client[c] EXCEPT !.remaining = left(Taken(c, frame))] \in Sessions
        <4> DEFINE n == left(Taken(c, frame))
        <4> SUFFICES ASSUME n > 0 PROVE [client[c] EXCEPT !.remaining = n] \in Sessions
          OBVIOUS
        <4>1. n \in Nat
          BY <3>3
        <4> HIDE DEF n
        <4> QED BY <1>s, <4>1 DEF Sessions
      <3>6. client' \in [Clients -> Sessions]
        BY <3>1, <3>5, <1>s, SessionUpdate
      <3> QED BY <1>11, <3>4, <3>6 DEF SendFrame, lockVars, feedVars
    <2> QED BY <2>1, <2>2
  <1> QED
    BY <1>1, <1>2, <1>3, <1>4, <1>5, <1>6, <1>7, <1>8, <1>9, <1>10, <1>11
    DEF SessionStep, ServeLock

(* The device tasks keep the state typed. *)
LEMMA DeviceStepType ==
  ASSUME TypeOK, NEW d \in Devices, DeviceStep(d) \/ EmuNwaSettles(d) \/ Fails(d)
  PROVE  TypeOK'
  <1> USE DEF TypeOK
  <1> DEFINE c == task[d].client
  <1>d. task[d] \in Tasks /\ task[d].slices \in Seq(Nat)
        /\ task[d].moved \in Nat /\ task[d].size \in Nat
    BY DEF Tasks
  <1>i. InState(d, "idle") \in Tasks
    BY TaskTypes DEF TaskModes
  <1>r. ASSUME NEW r \in Replies
        PROVE  [client EXCEPT ![c].reply = r] \in [Clients -> Sessions]
    <2>1. c \in Clients => [client[c] EXCEPT !.reply = r] \in Sessions
      BY DEF Sessions
    <2> HIDE DEF c
    <2> QED BY <2>1
  <1>a. ASSUME NEW n \in Nat
        PROVE  [client EXCEPT ![c].slices = Append(@, n)] \in [Clients -> Sessions]
    <2>1. ASSUME c \in Clients
          PROVE  [client[c] EXCEPT !.slices = Append(client[c].slices, n)] \in Sessions
      <3>1. client[c] \in Sessions /\ client[c].slices \in Seq(Nat)
        BY <2>1 DEF Sessions
      <3>2. Append(client[c].slices, n) \in Seq(Nat)
        BY <3>1, AppendProperties
      <3> QED BY <3>1, <3>2 DEF Sessions
    <2> HIDE DEF c
    <2> QED BY <2>1
  <1>1. CASE TakeRequest(d)
    <2>1. inbox[d] \in Seq(Clients \cup {Close}) /\ inbox[d] # <<>>
      BY <1>1 DEF TakeRequest
    <2>2. Tail(inbox[d]) \in Seq(Clients \cup {Close})
      BY <2>1, HeadTailProperties
    <2>3. [task[d] EXCEPT !.mode = "work", !.client = Head(inbox[d])] \in Tasks
      BY <1>1, <1>d DEF TakeRequest, Tasks, TaskModes
    <2> QED BY <1>1, <2>2, <2>3 DEF TakeRequest, lockVars, feedVars
  <1>2. CASE TakeClose(d)
    BY <1>2, TaskEndsType DEF TakeClose, lockVars, feedVars
  <1>3. CASE Answer(d)
    <2>1. client' \in [Clients -> Sessions]
      BY <1>3, <1>r DEF Answer, Replies
    <2> QED BY <1>3, <2>1, <1>i DEF Answer, lockVars, feedVars
  <1>4. CASE Offer(d)
    <2>1. PICK r \in {"BinaryReader", "FileReader", "BinaryWriter"} :
            /\ r = ReplyTo(d, client[c].req.cmd)
            /\ client' = [client EXCEPT ![c].reply = r]
      BY <1>4 DEF Offer
    <2>2. client' \in [Clients -> Sessions]
      BY <2>1, <1>r DEF Replies
    <2>3. task' \in [Devices -> Tasks]
      <3>1. c \in Clients
        BY <1>4, <1>d DEF Offer, Tasks
      <3>2. client[c].req.size \in Nat
        BY <3>1, RequestTypes DEF Sessions
      <3>3. task' = [task EXCEPT ![d] = [task[d] EXCEPT
               !.mode = IF r = "BinaryWriter" THEN "pull" ELSE "push",
               !.size = client[c].req.size]]
        BY <1>4, <2>1 DEF Offer
      <3> HIDE DEF c
      <3> QED BY <3>2, <3>3, <1>d DEF Tasks, TaskModes
    <2> QED BY <1>4, <2>2, <2>3 DEF Offer, lockVars, feedVars
  <1>5. CASE PushChunk(d)
    <2>1. PICK end \in (task[d].moved + 1)..task[d].size :
            /\ task' = [task EXCEPT ![d].moved = end]
            /\ IF SessionHoldsReceiver(d)
               THEN client' = [client EXCEPT ![c].slices = Append(@, end)]
               ELSE client' = client
      BY <1>5 DEF PushChunk
    <2>2. end \in Nat
      BY <1>d
    <2>3. [task[d] EXCEPT !.moved = end] \in Tasks
      BY <2>2, <1>d DEF Tasks
    <2>4. client' \in [Clients -> Sessions]
      BY <2>1, <2>2, <1>a
    <2> QED BY <1>5, <2>1, <2>3, <2>4 DEF PushChunk, lockVars, feedVars
  <1>6. CASE PushEnds(d)
    BY <1>6, <1>i DEF PushEnds, lockVars, feedVars
  <1>7. CASE LuaPush(d)
    <2>1. CASE SessionHoldsReceiver(d)
      <3>1. client' \in [Clients -> Sessions]
        BY <1>7, <2>1, <1>d, <1>a DEF LuaPush
      <3> QED BY <1>7, <2>1, <3>1, <1>i DEF LuaPush, lockVars, feedVars
    <2>2. CASE ~SessionHoldsReceiver(d)
      BY <1>7, <2>2, TaskEndsType DEF LuaPush, lockVars, feedVars
    <2> QED BY <2>1, <2>2
  <1>8. CASE PullChunk(d)
    <2>1. Head(task[d].slices) \in Nat /\ Tail(task[d].slices) \in Seq(Nat)
      BY <1>8, <1>d, HeadTailProperties DEF PullChunk
    <2>2. [task[d] EXCEPT !.moved = Head(task[d].slices),
                          !.slices = Tail(task[d].slices)] \in Tasks
      BY <2>1, <1>d DEF Tasks
    <2> QED BY <1>8, <2>2 DEF PullChunk, lockVars, feedVars
  <1>9. CASE PullEnds(d)
    BY <1>9, <1>i DEF PullEnds, lockVars, feedVars
  <1>10. CASE RetroarchPullEnds(d)
    BY <1>10, <1>i, TaskEndsType DEF RetroarchPullEnds, lockVars
  <1>11. CASE EmuNwaPullEnds(d)
    <2>1. [task[d] EXCEPT !.mode = "settle"] \in Tasks
      BY <1>d DEF Tasks, TaskModes
    <2> QED BY <1>11, <2>1 DEF EmuNwaPullEnds, lockVars, feedVars
  <1>12. CASE LastSenderGone(d)
    BY <1>12, TaskEndsType DEF LastSenderGone, lockVars, feedVars
  <1>13. CASE EmuNwaSettles(d)
    BY <1>13, <1>i DEF EmuNwaSettles, lockVars, feedVars
  <1>14. CASE Fails(d)
    BY <1>14, TaskEndsType DEF Fails, lockVars
  <1> QED
    BY <1>1, <1>2, <1>3, <1>4, <1>5, <1>6, <1>7, <1>8, <1>9, <1>10, <1>11,
       <1>12, <1>13, <1>14 DEF DeviceStep

(* The device managers keep the state typed. *)
LEMMA FeedType ==
  ASSUME TypeOK, NEW d \in Devices, Feed(d)
  PROVE  TypeOK'
  <1> USE DEF TypeOK
  <1>a. ASSUME NEW e \in Events, Announce(e) PROVE events' \in Seq(Events)
    BY <1>a, AppendProperties DEF Announce
  <1>e. \A x \in Devices : Created(x) \in Events /\ Removed(x) \in Events
    BY DEF Events
  <1>1. CASE DeviceAppears(d)
    <2>1. InState(d, "idle") \in Tasks
      BY TaskTypes DEF TaskModes
    <2> QED BY <1>1, <2>1, <1>a, <1>e DEF DeviceAppears, lockVars
  <1>2. CASE PortRemoved(d)
    BY <1>2, <1>a, <1>e DEF PortRemoved, lockVars
  <1>r. \A b \in BOOLEAN : [dev |-> d, told |-> b] \in Removals
    BY DEF Removals
  <1>3. CASE SendClose(d)
    <2>1. inbox' \in [Devices -> Seq(Clients \cup {Close})]
      <3>1. inbox' = inbox \/ inbox' = [inbox EXCEPT ![d] = Append(inbox[d], Close)]
        BY <1>3 DEF SendClose
      <3>2. Append(inbox[d], Close) \in Seq(Clients \cup {Close})
        BY AppendProperties
      <3> QED BY <3>1, <3>2
    <2> QED BY <1>3, <2>1, <1>r DEF SendClose, lockVars
  <1>5. CASE RetroarchLost(d)
    BY <1>5, <1>r DEF RetroarchLost, lockVars
  <1>6. CASE RetroarchRemoved(d)
    <2>1. NoRemoval \in Removals
      BY DEF NoRemoval, Removals
    <2> QED BY <1>6, <2>1, <1>a, <1>e DEF RetroarchRemoved, lockVars
  <1>4. CASE ConnectionClosed(d)
    <2>1. CASE UNCHANGED <<handles, events>>
      BY <1>4, <2>1 DEF ConnectionClosed, lockVars
    <2>2. CASE \E x \in DropsOnReport(d) : handles' = handles \ {x} /\ Announce(Removed(x))
      BY <1>4, <2>2, <1>a, <1>e DEF ConnectionClosed, DropsOnReport, lockVars
    <2> QED BY <1>4, <2>1, <2>2 DEF ConnectionClosed
  <1> QED BY <1>1, <1>2, <1>3, <1>4, <1>5, <1>6 DEF Feed

(* The manager task and the tray thread keep the state typed. *)
LEMMA ManagerStepType ==
  ASSUME TypeOK, WaitsOnce, ManagerStep \/ TrayStep
  PROVE  TypeOK'
  <1> USE DEF TypeOK
  <1>1. CASE TakeEvent
    BY <1>1, AppendProperties DEF TakeEvent, feedVars
  <1>2. CASE ApplyEvent
    <2>1. lockQueue' \in Seq(Clients \cup {Manager, Tray})
      BY <1>2, HeadTailProperties DEF ApplyEvent, GrantedWrite
    <2>2. events # <<>>
      <3>1. 1 \in 1..Len(lockQueue) /\ lockQueue[1] = Manager
        BY <1>2 DEF ApplyEvent, GrantedWrite
      <3> QED BY <3>1 DEF WaitsOnce
    <2>3. Head(events) \in Events /\ Tail(events) \in Seq(Events)
      BY <2>2, HeadTailProperties
    <2>4. Head(events).dev \in Devices
      BY <2>3 DEF Events, Created, Removed
    <2>5. registry' \subseteq Devices
      BY <1>2, <2>4 DEF ApplyEvent
    <2> QED BY <1>2, <2>1, <2>3, <2>5 DEF ApplyEvent, feedVars
  <1>3. CASE RightClick
    BY <1>3, AppendProperties DEF RightClick, feedVars
  <1>4. CASE BuildMenu
    BY <1>4, HeadTailProperties DEF BuildMenu, feedVars
  <1> QED BY <1>1, <1>2, <1>3, <1>4 DEF ManagerStep, TrayStep

-----------------------------------------------------------------------------
(* The lock: who waits for it and what a read guard keeps in place.        *)
(* GuardPinsDevice is not inductive: that a session whose request is out   *)
(* is never served as a waiter of the lock comes from WaitsOnce.           *)

GuardInv == TypeOK /\ WaitsOnce /\ GuardPinsDevice

(* The queue is left as it is and so is whoever waits in it. *)
LEMMA QueueKept ==
  ASSUME TypeOK, WaitsOnce, UNCHANGED <<lockQueue, manager, tray>>,
         \A c \in Clients : client[c].mode = "lock" => client'[c].mode = "lock",
         events # <<>> => events' # <<>>
  PROVE  WaitsOnce'
  BY DEF WaitsOnce

(* A task that was not in the queue joins it. *)
LEMMA QueueJoined ==
  ASSUME TypeOK, WaitsOnce, NEW x \in Clients \cup {Manager, Tray},
         \A i \in 1..Len(lockQueue) : lockQueue[i] # x,
         lockQueue' = Append(lockQueue, x),
         \A c \in Clients : client[c].mode = "lock" \/ c = x => client'[c].mode = "lock",
         manager = "lock" \/ x = Manager => manager' = "lock",
         tray = "lock" \/ x = Tray => tray' = "lock",
         manager' = "lock" => events' # <<>>
  PROVE  WaitsOnce'
  <1>1. /\ Len(lockQueue') = Len(lockQueue) + 1
        /\ Len(lockQueue) \in Nat
        /\ \A i \in 1..Len(lockQueue) : lockQueue'[i] = lockQueue[i]
        /\ lockQueue'[Len(lockQueue) + 1] = x
    BY AppendProperties, LenProperties DEF TypeOK
  <1>2. \A i \in 1..Len(lockQueue') : i \in 1..Len(lockQueue) \/ i = Len(lockQueue) + 1
    BY <1>1
  <1> QED BY <1>1, <1>2 DEF WaitsOnce

(* The task at the head of the queue is served. *)
LEMMA QueueServed ==
  ASSUME TypeOK, WaitsOnce, lockQueue # <<>>, lockQueue' = Tail(lockQueue),
         \A c \in Clients : client[c].mode = "lock" /\ c # Head(lockQueue)
                              => client'[c].mode = "lock",
         manager = "lock" /\ Manager # Head(lockQueue) => manager' = "lock",
         tray = "lock" /\ Tray # Head(lockQueue) => tray' = "lock",
         manager' = "lock" => events' # <<>>
  PROVE  WaitsOnce'
  <1>1. /\ Len(lockQueue) \in Nat /\ Len(lockQueue) > 0
        /\ Len(lockQueue') = Len(lockQueue) - 1
        /\ \A i \in 1..Len(lockQueue') : lockQueue'[i] = lockQueue[i + 1]
        /\ Head(lockQueue) = lockQueue[1]
    BY HeadTailProperties, LenProperties, EmptySeq DEF TypeOK
  <1>2. \A i \in 1..Len(lockQueue') :
          i + 1 \in 1..Len(lockQueue) /\ lockQueue'[i] # Head(lockQueue)
    <2> SUFFICES ASSUME NEW i \in 1..Len(lockQueue')
                 PROVE  i + 1 \in 1..Len(lockQueue) /\ lockQueue'[i] # Head(lockQueue)
      OBVIOUS
    <2>1. i + 1 \in 1..Len(lockQueue) /\ 1 \in 1..Len(lockQueue) /\ i + 1 # 1
      BY <1>1
    <2> QED BY <1>1, <2>1 DEF WaitsOnce
  <1>3. \A i \in 1..Len(lockQueue') :
          /\ lockQueue'[i] \in Clients => client'[lockQueue'[i]].mode = "lock"
          /\ lockQueue'[i] = Manager => manager' = "lock"
          /\ lockQueue'[i] = Tray => tray' = "lock"
    BY <1>1, <1>2 DEF WaitsOnce
  <1>4. \A i, j \in 1..Len(lockQueue') : lockQueue'[j] = lockQueue'[i] => j = i
    BY <1>1, <1>2 DEF WaitsOnce
  <1> QED BY <1>3, <1>4 DEF WaitsOnce

(* A task that does not wait is nowhere in the queue. *)
LEMMA NotQueued ==
  ASSUME TypeOK, WaitsOnce
  PROVE  /\ \A c \in Clients : client[c].mode # "lock" =>
               \A i \in 1..Len(lockQueue) : lockQueue[i] # c
         /\ manager # "lock" => \A i \in 1..Len(lockQueue) : lockQueue[i] # Manager
         /\ tray # "lock" => \A i \in 1..Len(lockQueue) : lockQueue[i] # Tray
         /\ \A c \in Clients : GrantedRead(c) => client[c].mode = "lock"
  <1>1. lockQueue # <<>> => 1 \in 1..Len(lockQueue) /\ Head(lockQueue) = lockQueue[1]
    BY HeadTailProperties, LenProperties, EmptySeq DEF TypeOK
  <1> QED BY <1>1 DEF WaitsOnce, GrantedRead

(* Device tasks leave the lock alone and change no session but its reply   *)
(* and its channel.                                                        *)
LEMMA DeviceStepGuard ==
  ASSUME GuardInv, NEW d \in Devices, DeviceStep(d) \/ EmuNwaSettles(d) \/ Fails(d)
  PROVE  WaitsOnce' /\ GuardPinsDevice'
  <1>1. \A c \in Clients : /\ client'[c].mode = client[c].mode
                            /\ client'[c].device = client[c].device
    <2>1. ASSUME TaskEnds(d)
          PROVE  \A c \in Clients : /\ client'[c].mode = client[c].mode
                                     /\ client'[c].device = client[c].device
      BY <2>1 DEF TaskEnds, GuardInv, TypeOK, Sessions
    <2> DEFINE x == task[d].client
    <2>2. ASSUME NEW r, client' = [client EXCEPT ![x].reply = r]
          PROVE  \A c \in Clients : /\ client'[c].mode = client[c].mode
                                     /\ client'[c].device = client[c].device
      BY <2>2 DEF GuardInv, TypeOK, Sessions
    <2>3. ASSUME NEW n, client' = [client EXCEPT ![x].slices = Append(@, n)]
          PROVE  \A c \in Clients : /\ client'[c].mode = client[c].mode
                                     /\ client'[c].device = client[c].device
      BY <2>3 DEF GuardInv, TypeOK, Sessions
    <2>4. CASE TakeRequest(d) BY <2>4 DEF TakeRequest
    <2>5. CASE TakeClose(d) BY <2>5, <2>1 DEF TakeClose
    <2>6. CASE Answer(d) BY <2>6, <2>2 DEF Answer
    <2>7. CASE Offer(d) BY <2>7, <2>2 DEF Offer
    <2>8. CASE PushChunk(d)
      <3>1. client' = client \/ \E n : client' = [client EXCEPT ![x].slices = Append(@, n)]
        BY <2>8 DEF PushChunk
      <3> QED BY <3>1, <2>3
    <2>9. CASE PushEnds(d) BY <2>9 DEF PushEnds
    <2>10. CASE LuaPush(d) BY <2>10, <2>1, <2>3 DEF LuaPush
    <2>11. CASE PullChunk(d) BY <2>11 DEF PullChunk
    <2>12. CASE PullEnds(d) BY <2>12 DEF PullEnds
    <2>13. CASE RetroarchPullEnds(d) BY <2>13, <2>1 DEF RetroarchPullEnds
    <2>14. CASE EmuNwaPullEnds(d) BY <2>14 DEF EmuNwaPullEnds
    <2>15. CASE LastSenderGone(d) BY <2>15, <2>1 DEF LastSenderGone
    <2>16. CASE EmuNwaSettles(d) BY <2>16 DEF EmuNwaSettles
    <2>17. CASE Fails(d) BY <2>17, <2>1 DEF Fails
    <2> QED
      BY <2>4, <2>5, <2>6, <2>7, <2>8, <2>9, <2>10, <2>11, <2>12, <2>13, <2>14,
         <2>15, <2>16, <2>17 DEF DeviceStep
  <1>2. UNCHANGED <<registry, events, lockVars>>
    BY DEF DeviceStep, TakeRequest, TakeClose, Answer, Offer, PushChunk, PushEnds,
           LuaPush, PullChunk, PullEnds, RetroarchPullEnds, EmuNwaPullEnds,
           LastSenderGone, EmuNwaSettles, Fails
  <1>3. WaitsOnce'
    BY <1>1, <1>2, QueueKept DEF GuardInv, lockVars
  <1>4. GuardPinsDevice'
    BY <1>1, <1>2 DEF GuardInv, GuardPinsDevice, lockVars
  <1> QED BY <1>3, <1>4

(* Device managers only add events. *)
LEMMA FeedGuard ==
  ASSUME GuardInv, NEW d \in Devices, Feed(d)
  PROVE  WaitsOnce' /\ GuardPinsDevice'
  <1>1. UNCHANGED <<registry, lockVars, client>>
    BY DEF Feed, DeviceAppears, PortRemoved, RetroarchLost, SendClose, RetroarchRemoved,
           ConnectionClosed
  <1>2. events' = events \/ \E e \in Events : events' = Append(events, e)
    BY DEF Feed, DeviceAppears, PortRemoved, RetroarchLost, SendClose, RetroarchRemoved,
           ConnectionClosed, Announce, Events, DropsOnReport, GuardInv, TypeOK
  <1>3. events # <<>> => events' # <<>>
    BY <1>2, AppendProperties DEF GuardInv, TypeOK
  <1>4. WaitsOnce'
    BY <1>1, <1>3, QueueKept DEF GuardInv, lockVars
  <1> QED BY <1>1, <1>4 DEF GuardInv, GuardPinsDevice, lockVars

(* The manager changes the registry only when no session keeps a guard.    *)
LEMMA ManagerStepGuard ==
  ASSUME GuardInv, ManagerStep \/ TrayStep
  PROVE  WaitsOnce' /\ GuardPinsDevice'
  <1> USE DEF GuardInv
  <1>c. \A c \in Clients : c # Manager /\ c # Tray
    BY ServerAssumption
  <1>1. CASE TakeEvent
    <2>1. WaitsOnce'
      BY <1>1, <1>c, NotQueued, QueueJoined, ServerAssumption DEF TakeEvent
    <2> QED BY <1>1, <2>1 DEF TakeEvent, GuardPinsDevice
  <1>2. CASE ApplyEvent
    <2>1. WaitsOnce'
      BY <1>2, <1>c, QueueServed, ServerAssumption DEF ApplyEvent, GrantedWrite
    <2>2. readers = {} /\ UNCHANGED <<readers, client>>
      BY <1>2 DEF ApplyEvent, GrantedWrite
    <2> QED BY <2>1, <2>2 DEF GuardPinsDevice
  <1>3. CASE RightClick
    <2>1. WaitsOnce'
      BY <1>3, <1>c, NotQueued, QueueJoined, ServerAssumption DEF RightClick, WaitsOnce
    <2> QED BY <1>3, <2>1 DEF RightClick, GuardPinsDevice
  <1>4. CASE BuildMenu
    <2>1. WaitsOnce'
      BY <1>4, <1>c, QueueServed, ServerAssumption DEF BuildMenu, WaitsOnce
    <2> QED BY <1>4, <2>1 DEF BuildMenu, GuardPinsDevice
  <1> QED BY <1>1, <1>2, <1>3, <1>4 DEF ManagerStep, TrayStep

(* A session that is not waiting for the lock, and does something that     *)
(* leaves no guard behind or keeps the one it has.                         *)
LEMMA SessionOnItsOwn ==
  ASSUME GuardInv, NEW c \in Clients, client[c].mode # "lock",
         NEW s \in Sessions, client' = [client EXCEPT ![c] = s],
         UNCHANGED <<registry, events, manager, tray, lockQueue>>,
         \/ s.mode \in {"mailbox", "reply"} /\ client[c].mode \in {"mailbox", "reply"}
            /\ s.device = client[c].device /\ readers' = readers
         \/ s.mode \notin {"mailbox", "reply"} /\ readers' = readers \ {c}
  PROVE  WaitsOnce' /\ GuardPinsDevice'
  <1> USE DEF GuardInv
  <1>1. /\ client'[c] = s
        /\ \A x \in Clients \ {c} : client'[x] = client[x]
    BY DEF TypeOK
  <1>2. WaitsOnce'
    BY <1>1, QueueKept
  <1>3. GuardPinsDevice'
    BY <1>1 DEF GuardPinsDevice
  <1> QED BY <1>2, <1>3

(* A session that is granted the lock. *)
LEMMA SessionServed ==
  ASSUME GuardInv, NEW c \in Clients, GrantedRead(c),
         NEW s \in Sessions, client' = [client EXCEPT ![c] = s],
         lockQueue' = Tail(lockQueue),
         UNCHANGED <<registry, events, manager, tray>>,
         \/ s.mode \in {"mailbox", "reply"} /\ s.device \in registry
            /\ readers' = readers \cup {c}
         \/ s.mode \notin {"mailbox", "reply"} /\ readers' = readers
  PROVE  WaitsOnce' /\ GuardPinsDevice'
  <1> USE DEF GuardInv
  <1>1. /\ client'[c] = s
        /\ \A x \in Clients \ {c} : client'[x] = client[x]
    BY DEF TypeOK
  <1>2. client[c].mode = "lock"
    BY NotQueued
  <1>3. WaitsOnce'
    BY <1>1, QueueServed, ServerAssumption DEF GrantedRead, WaitsOnce
  <1>4. GuardPinsDevice'
    BY <1>1, <1>2 DEF GuardPinsDevice
  <1> QED BY <1>3, <1>4

(* Sessions take and leave their guards and their places in the queue. *)
LEMMA SessionStepGuard ==
  ASSUME GuardInv, NEW c \in Clients, SessionStep(c)
  PROVE  WaitsOnce' /\ GuardPinsDevice'
  <1> USE DEF GuardInv
  <1>s. client[c] \in Sessions /\ Ready(c) \in Sessions /\ Disconnected \in Sessions
    BY SessionTypes DEF TypeOK
  <1>m. /\ Ready(c).mode = "ready" /\ Ready(c).device = client[c].device
        /\ Disconnected.mode = "closed"
    BY <1>s DEF Ready, Disconnected, Sessions
  <1>g. client[c].mode \notin {"mailbox", "reply"} => readers = readers \ {c}
    BY DEF GuardPinsDevice
  <1>1. CASE Connect(c)
    <2>1. [Disconnected EXCEPT !.mode = "ready"] \in Sessions
          /\ [Disconnected EXCEPT !.mode = "ready"].mode = "ready"
      BY SessionTypes DEF Sessions, Disconnected
    <2> QED BY <1>1, <1>g, <2>1, SessionOnItsOwn DEF Connect, SessionStays
  <1>2. CASE PeerLeaves(c)
    BY <1>2, <1>s, <1>m, <1>g, SessionOnItsOwn DEF PeerLeaves, Listening, SessionStays
  <1>3. CASE LocalRequest(c)
    <2>1. PICK s \in {Ready(c), Disconnected} : client' = [client EXCEPT ![c] = s]
      BY <1>3 DEF LocalRequest
    <2>2. s \in Sessions /\ s.mode \notin {"mailbox", "reply"}
      BY <1>s, <1>m
    <2> QED
      BY <1>3, <1>g, <2>1, <2>2, SessionOnItsOwn DEF LocalRequest, Listening, SessionStays
  <1>4. CASE AskForLock(c)
    <2>1. PICK r : client' = [client EXCEPT ![c] = [Ready(c) EXCEPT !.mode = "lock", !.req = r]]
      BY <1>4 DEF AskForLock
    <2>2. client[c].mode \in {"ready", "sending"}
      BY <1>4 DEF AskForLock, Listening
    <2>3. /\ client'[c].mode = "lock"
          /\ \A x \in Clients \ {c} : client'[x] = client[x]
      BY <2>1, <1>s DEF TypeOK, Sessions
    <2>4. /\ UNCHANGED <<registry, events, manager, tray, readers>>
          /\ lockQueue' = Append(lockQueue, c)
      BY <1>4 DEF AskForLock, SessionStays
    <2>5. WaitsOnce'
      BY <2>2, <2>3, <2>4, NotQueued, QueueJoined, ServerAssumption DEF WaitsOnce
    <2> QED BY <2>2, <2>3, <2>4, <2>5 DEF GuardPinsDevice
  <1>5. CASE ListDevices(c)
    <2>1. PICK s \in {Ready(c), Disconnected} : client' = [client EXCEPT ![c] = s]
      BY <1>5 DEF ListDevices
    <2>2. s \in Sessions /\ s.mode \notin {"mailbox", "reply"}
      BY <1>s, <1>m
    <2> QED BY <1>5, <2>1, <2>2, SessionServed DEF ListDevices, SessionStays
  <1>6. CASE Attach(c)
    <2>1. PICK s \in Sessions : /\ client' = [client EXCEPT ![c] = s]
                                /\ s.mode \notin {"mailbox", "reply"}
      <3>1. CASE Registered(client[c].req.name) = {}
        BY <1>6, <3>1, <1>s, <1>m DEF Attach
      <3>2. CASE Registered(client[c].req.name) # {}
        <4>1. PICK d \in Registered(client[c].req.name) :
                client' = [client EXCEPT ![c] = [Ready(c) EXCEPT !.device = d]]
          BY <1>6, <3>2 DEF Attach
        <4>2. d \in Devices
          BY DEF Registered, TypeOK
        <4>3. /\ [Ready(c) EXCEPT !.device = d] \in Sessions
              /\ [Ready(c) EXCEPT !.device = d].mode = "ready"
          BY <1>s, <1>m, <4>2 DEF Sessions
        <4> QED BY <4>1, <4>3
      <3> QED BY <3>1, <3>2
    <2> QED BY <1>6, <2>1, SessionServed DEF Attach, SessionStays
  <1>7. CASE Lookup(c)
    <2>1. CASE client[c].device \in registry
      <3> DEFINE s == [client[c] EXCEPT !.mode = "mailbox"]
      <3>1. s \in Sessions /\ s.mode = "mailbox" /\ s.device = client[c].device
        BY <1>s DEF Sessions, Modes
      <3>2. client' = [client EXCEPT ![c] = s] /\ readers' = readers \cup {c}
        BY <1>7, <2>1 DEF Lookup
      <3> HIDE DEF s
      <3> QED BY <1>7, <2>1, <3>1, <3>2, SessionServed DEF Lookup, SessionStays
    <2>2. CASE client[c].device \notin registry
      BY <1>7, <2>2, <1>s, <1>m, SessionServed DEF Lookup, SessionStays
    <2> QED BY <2>1, <2>2
  <1>8. CASE Post(c)
    <2>1. CASE task[client[c].device].mode # "gone"
      <3> DEFINE s == [client[c] EXCEPT !.mode = "reply"]
      <3>1. s \in Sessions /\ s.mode = "reply" /\ s.device = client[c].device
        BY <1>s DEF Sessions, Modes
      <3>2. client' = [client EXCEPT ![c] = s] /\ readers' = readers
        BY <1>8, <2>1 DEF Post, GuardKept
      <3> HIDE DEF s
      <3> QED BY <1>8, <3>1, <3>2, SessionOnItsOwn DEF Post
    <2>2. CASE task[client[c].device].mode = "gone"
      BY <1>8, <2>2, <1>s, <1>m, SessionOnItsOwn DEF Post
    <2> QED BY <2>1, <2>2
  <1>9. CASE TakeReply(c)
    <2> DEFINE reading == [client[c] EXCEPT !.mode = "reading", !.reply = "none"]
               sending == [Ready(c) EXCEPT !.mode = "sending", !.remaining = client[c].req.size]
    <2>1. PICK s \in {Disconnected, Ready(c), reading, sending} :
            client' = [client EXCEPT ![c] = s]
      BY <1>9 DEF TakeReply
    <2>2. /\ reading \in Sessions /\ reading.mode = "reading"
          /\ sending \in Sessions /\ sending.mode = "sending"
      BY <1>s, RequestTypes DEF Sessions, Modes, Replies
    <2>3. s \in Sessions /\ s.mode \notin {"mailbox", "reply"}
      BY <1>s, <1>m, <2>2
    <2> HIDE DEF reading, sending
    <2> QED BY <1>9, <2>1, <2>3, SessionOnItsOwn DEF TakeReply, SessionStays
  <1>10. CASE Forwards(c)
    <2>1. client[c].mode = "reading"
      BY <1>10 DEF Forwards, ForwardDown, DownBreaks
    <2> DEFINE more == [client[c] EXCEPT !.received = Head(client[c].slices), !.slices = Tail(@)]
    <2>2. PICK s \in {Disconnected, Ready(c), more} : client' = [client EXCEPT ![c] = s]
      BY <1>10 DEF Forwards, ForwardDown, DownBreaks
    <2>3. s.mode \notin {"mailbox", "reply", "lock"}
      BY <1>s, <1>m, <2>1 DEF Sessions
    <2>4. client'[c] = s
      BY <2>2 DEF TypeOK
    <2>5. s \in Sessions
      BY <2>4, SessionStepType DEF TypeOK
    <2> HIDE DEF more
    <2> QED
      BY <1>10, <1>g, <2>1, <2>2, <2>3, <2>5, SessionOnItsOwn
      DEF Forwards, ForwardDown, DownBreaks, SessionStays
  <1>11. CASE SendFrame(c)
    <2>1. client[c].mode = "sending"
      BY <1>11 DEF SendFrame
    <2>2. PICK s : /\ client' = [client EXCEPT ![c] = s]
                   /\ s.mode \in {"sending", "ready", "closed"}
      <3>1. PICK n : \/ client' = [client EXCEPT ![c] = Disconnected]
                     \/ client' = [client EXCEPT ![c] = Ready(c)]
                     \/ client' = [client EXCEPT ![c] = [client[c] EXCEPT !.remaining = n]]
        BY <1>11 DEF SendFrame
      <3>2. [client[c] EXCEPT !.remaining = n].mode = "sending"
        BY <1>s, <2>1 DEF Sessions
      <3> QED BY <3>1, <3>2, <1>m
    <2>3. client'[c] = s
      BY <2>2 DEF TypeOK
    <2>4. s \in Sessions
      BY <2>3, SessionStepType DEF TypeOK
    <2> QED BY <1>11, <1>g, <2>1, <2>2, <2>4, SessionOnItsOwn DEF SendFrame, lockVars
  <1> QED
    BY <1>1, <1>2, <1>3, <1>4, <1>5, <1>6, <1>7, <1>8, <1>9, <1>10, <1>11
    DEF SessionStep, ServeLock

-----------------------------------------------------------------------------
(* The theorems. *)

(* GuardInv holds at the start. *)
LEMMA InitialGuard == Init => GuardInv
  <1> SUFFICES ASSUME Init PROVE GuardInv
    OBVIOUS
  <1> USE DEF Init
  <1>1. TypeOK
    <2>1. NotStarted \in Tasks
      BY EmptySeq DEF NotStarted, Tasks, TaskModes
    <2>2. NoRemoval \in Removals
      BY DEF NoRemoval, Removals
    <2> QED BY <2>1, <2>2, SessionTypes, EmptySeq DEF TypeOK
  <1>2. WaitsOnce
    BY EmptySeq DEF WaitsOnce
  <1>3. GuardPinsDevice
    BY DEF GuardPinsDevice, Disconnected
  <1> QED BY <1>1, <1>2, <1>3 DEF GuardInv

(* GuardInv holds in every reachable state. *)
THEOREM GuardInvariant == Spec => []GuardInv
  <1>1. GuardInv /\ [Next]_vars => GuardInv'
    <2> SUFFICES ASSUME GuardInv, [Next]_vars PROVE GuardInv'
      OBVIOUS
    <2> USE DEF GuardInv
    <2>1. ASSUME NEW c \in Clients, SessionStep(c) PROVE GuardInv'
      BY <2>1, SessionStepType, SessionStepGuard
    <2>2. ASSUME NEW d \in Devices, DeviceStep(d) \/ EmuNwaSettles(d) \/ Fails(d)
          PROVE  GuardInv'
      BY <2>2, DeviceStepType, DeviceStepGuard
    <2>3. ASSUME NEW d \in Devices, Feed(d) PROVE GuardInv'
      BY <2>3, FeedType, FeedGuard
    <2>4. CASE ManagerStep \/ TrayStep
      BY <2>4, ManagerStepType, ManagerStepGuard
    <2>5. CASE UNCHANGED vars
      <3> USE <2>5 DEF vars, lockVars, feedVars
      <3>1. TypeOK'
        BY DEF TypeOK
      <3>2. WaitsOnce'
        BY DEF WaitsOnce
      <3>3. GuardPinsDevice'
        BY DEF GuardPinsDevice
      <3> QED BY <3>1, <3>2, <3>3
    <2> QED BY <2>1, <2>2, <2>3, <2>4, <2>5 DEF Next
  <1> QED BY InitialGuard, <1>1, PTL DEF Spec

(* The state stays typed: no channel of Lua, sd2snes, RetroArch or         *)
(* emulator devices ever holds anything but requests and Close, and no     *)
(* count of bytes goes below zero.                                         *)
THEOREM TypeCorrect == Spec => []TypeOK
  BY GuardInvariant, PTL DEF GuardInv

(* Manager.request (manager.rs): the device a session waits for stays in   *)
(* the registry from the lookup to the reply.                              *)
THEOREM GuardCorrect == Spec => []GuardPinsDevice
  BY GuardInvariant, PTL DEF GuardInv

(* The RwLock's queue (manager.rs, server.rs, tao.rs) holds every waiting  *)
(* task once.                                                              *)
THEOREM QueueCorrect == Spec => []WaitsOnce
  BY GuardInvariant, PTL DEF GuardInv

-----------------------------------------------------------------------------
(***************************************************************************)
(* The registry and the device managers that feed it.                      *)
(***************************************************************************)

(* The handles of the composed system as a feed of the registry: a device  *)
(* is announced when its task starts and taken back with its handle.  Its  *)
(* name stands for its port or url.                                        *)
Life == [d \in Devices |-> IF task[d].mode = "off" THEN "unborn"
                           ELSE IF d \in handles THEN "live" ELSE "gone"]
Port == [d \in Devices |-> IF task[d].mode = "off" THEN NoName ELSE NameOf[d]]
Handles == INSTANCE DeviceFeed WITH life <- Life, port <- Port, Ports <- Names, NoPort <- NoName

(* Managers keep handles of tasks that they started. *)
HandlesStarted == \A d \in handles : task[d].mode # "off"

(* The device whose RaRemoved is being handled keeps its handle meanwhile.  *)
RemovalHeld ==
  removal # NoRemoval => removal.dev \in handles /\ Kind[removal.dev] = "retroarch"

RegistryInv == GuardInv /\ RegistryFollowsHandles /\ HandlesStarted /\ RemovalHeld

-----------------------------------------------------------------------------
(* Events. *)

(* An event that is sent decides about its device. *)
LEMMA WillAppend ==
  ASSUME TypeOK, NEW e \in Events, events' = Append(events, e), UNCHANGED registry,
         NEW d \in Devices
  PROVE  WillBeRegistered(d)' <=> IF e.dev = d THEN e.kind = "Created" ELSE WillBeRegistered(d)
  <1> DEFINE n == Len(events)
             about == {i \in 1..n : events[i].dev = d}
             later == {i \in 1..Len(events') : events'[i].dev = d}
  <1>1. /\ n \in Nat /\ Len(events') = n + 1 /\ events'[n + 1] = e
        /\ \A i \in 1..n : events'[i] = events[i]
    BY AppendProperties, LenProperties DEF TypeOK
  <1>2. later = IF e.dev = d THEN about \cup {n + 1} ELSE about
    BY <1>1
  <1>3. /\ WillBeRegistered(d) <=> IF about = {} THEN d \in registry
             ELSE \E i \in about : events[i].kind = "Created" /\ \A j \in about : j <= i
        /\ WillBeRegistered(d)' <=> IF later = {} THEN d \in registry
             ELSE \E i \in later : events'[i].kind = "Created" /\ \A j \in later : j <= i
    BY DEF WillBeRegistered
  <1>4. \A i \in about : i \in 1..n
    OBVIOUS
  <1> HIDE DEF n, about, later
  <1>5. CASE e.dev = d
    <2>1. n + 1 \in later /\ \A j \in later : j <= n + 1 /\ (j # n + 1 => j < n + 1)
      BY <1>1, <1>2, <1>4, <1>5
    <2>2. (\E i \in later : events'[i].kind = "Created" /\ \A j \in later : j <= i)
            <=> e.kind = "Created"
      <3>1. ASSUME NEW i \in later, \A j \in later : j <= i PROVE i = n + 1
        BY <1>1, <1>2, <1>4, <2>1, <3>1
      <3> QED BY <1>1, <2>1, <3>1
    <2> QED BY <1>3, <1>5, <2>1, <2>2
  <1>6. CASE e.dev # d
    <2>1. later = about /\ \A i \in about : events'[i] = events[i]
      BY <1>1, <1>2, <1>4, <1>6
    <2> QED BY <1>3, <1>6, <2>1
  <1> QED BY <1>5, <1>6

(* Once the first event is applied, the others decide as they did before. *)
LEMMA WillTail ==
  ASSUME TypeOK, events # <<>>, events' = Tail(events),
         registry' = IF Head(events).kind = "Created" THEN registry \cup {Head(events).dev}
                                                      ELSE registry \ {Head(events).dev},
         NEW d \in Devices
  PROVE  WillBeRegistered(d)' <=> WillBeRegistered(d)
  <1> DEFINE n == Len(events)
             about == {i \in 1..n : events[i].dev = d}
             later == {i \in 1..Len(events') : events'[i].dev = d}
  <1>1. /\ n \in Nat \ {0} /\ Len(events') = n - 1 /\ events[1] = Head(events)
        /\ \A i \in 1..Len(events') : events'[i] = events[i + 1]
    BY HeadTailProperties, EmptySeq DEF TypeOK
  <1>2. /\ \A i \in later : i \in 1..(n - 1) /\ i + 1 \in about /\ events'[i] = events[i + 1]
        /\ \A i \in about : i \in 1..n /\ (i # 1 => i - 1 \in later)
        /\ 1 \in about <=> Head(events).dev = d
    BY <1>1
  <1>3. /\ WillBeRegistered(d) <=> IF about = {} THEN d \in registry
             ELSE \E i \in about : events[i].kind = "Created" /\ \A j \in about : j <= i
        /\ WillBeRegistered(d)' <=> IF later = {} THEN d \in registry'
             ELSE \E i \in later : events'[i].kind = "Created" /\ \A j \in later : j <= i
    BY DEF WillBeRegistered
  <1> HIDE DEF about, later
  <1>4. CASE later # {}
    <2>1. PICK k \in later : TRUE
      BY <1>4
    <2>2. k + 1 \in about /\ k + 1 > 1
      BY <1>1, <1>2, <2>1
    <2>3. ASSUME NEW i \in later, events'[i].kind = "Created", \A j \in later : j <= i
          PROVE  \E x \in about : events[x].kind = "Created" /\ \A j \in about : j <= x
      <3>1. i + 1 \in about /\ events[i + 1].kind = "Created"
        BY <1>2, <2>3
      <3>2. \A j \in about : j <= i + 1
        <4> TAKE j \in about
        <4>1. CASE j = 1
          BY <1>1, <1>2, <4>1
        <4>2. CASE j # 1
          BY <1>1, <1>2, <2>3, <4>2
        <4> QED BY <4>1, <4>2
      <3> QED BY <3>1, <3>2
    <2>4. ASSUME NEW i \in about, events[i].kind = "Created", \A j \in about : j <= i
          PROVE  \E x \in later : events'[x].kind = "Created" /\ \A j \in later : j <= x
      <3>1. i # 1
        BY <1>1, <1>2, <2>2, <2>4
      <3>2. i - 1 \in later /\ events'[i - 1] = events[i]
        BY <1>1, <1>2, <3>1
      <3>3. \A j \in later : j <= i - 1
        BY <1>1, <1>2, <2>4
      <3> QED BY <2>4, <3>2, <3>3
    <2> QED BY <1>3, <1>4, <2>2, <2>3, <2>4
  <1>5. CASE later = {} /\ Head(events).dev = d
    <2>1. about = {1}
      BY <1>2, <1>5
    <2>2. Head(events).kind = "Created" <=> d \in registry'
      BY <1>5
    <2> QED BY <1>1, <1>3, <1>5, <2>1, <2>2
  <1>6. CASE later = {} /\ Head(events).dev # d
    <2>1. about = {}
      BY <1>2, <1>6
    <2> QED BY <1>3, <1>6, <2>1
  <1> QED BY <1>4, <1>5, <1>6

-----------------------------------------------------------------------------
(* Steps. *)

(* Sessions, device tasks and the tray send and apply no event, touch no   *)
(* handle, and start no task.                                              *)
LEMMA OthersKeepFeed ==
  ASSUME TypeOK,
         \/ \E c \in Clients : SessionStep(c)
         \/ \E d \in Devices : DeviceStep(d) \/ EmuNwaSettles(d) \/ Fails(d)
         \/ TakeEvent \/ TrayStep \/ UNCHANGED vars
  PROVE  /\ UNCHANGED <<registry, events, handles, removal>>
         /\ \A d \in Devices : task'[d].mode = "off" <=> task[d].mode = "off"
  <1> USE DEF TypeOK
  <1>1. ASSUME NEW c \in Clients, SessionStep(c)
        PROVE  /\ UNCHANGED <<registry, events, handles, removal>>
               /\ \A d \in Devices : task'[d].mode = task[d].mode
    <2>1. UNCHANGED <<registry, events, handles, removal>>
      BY <1>1
      DEF SessionStep, Connect, PeerLeaves, LocalRequest, AskForLock, ServeLock, ListDevices,
          Attach, Lookup, Post, TakeReply, Forwards, ForwardDown, DownBreaks, SendFrame,
          SessionStays, feedVars
    <2>2. UNCHANGED task \/ \E x, s : task' = [task EXCEPT ![x].slices = s]
      BY <1>1
      DEF SessionStep, Connect, PeerLeaves, LocalRequest, AskForLock, ServeLock, ListDevices,
          Attach, Lookup, Post, TakeReply, Forwards, ForwardDown, DownBreaks, SendFrame,
          SessionStays, feedVars
    <2>3. ASSUME NEW x, NEW s, task' = [task EXCEPT ![x].slices = s]
          PROVE  \A d \in Devices : task'[d].mode = task[d].mode
      BY <2>3 DEF Tasks
    <2> QED BY <2>1, <2>2, <2>3
  <1>2. ASSUME NEW d \in Devices, DeviceStep(d) \/ EmuNwaSettles(d) \/ Fails(d)
        PROVE  /\ UNCHANGED <<registry, events, handles, removal>>
               /\ \A x \in Devices : task'[x].mode = "off" <=> task[x].mode = "off"
    <2>1. UNCHANGED <<registry, events, handles, removal>>
      BY <1>2
      DEF DeviceStep, TakeRequest, TakeClose, Answer, Offer, PushChunk, PushEnds, LuaPush, PullChunk,
          PullEnds, RetroarchPullEnds, EmuNwaPullEnds, LastSenderGone, EmuNwaSettles, Fails, feedVars
    <2>2. task[d].mode \in {"idle", "work", "push", "pull", "settle"}
      BY <1>2
      DEF DeviceStep, TakeRequest, TakeClose, Answer, Offer, PushChunk, PushEnds, LuaPush, PullChunk,
          PullEnds, RetroarchPullEnds, EmuNwaPullEnds, LastSenderGone, EmuNwaSettles, Fails,
          ExchangeMayFail
    <2> SUFFICES task'[d].mode # "off" /\ \A x \in Devices \ {d} : task'[x] = task[x]
      BY <2>1, <2>2
    <2>3. CASE TaskEnds(d) \/ task' = [task EXCEPT ![d] = InState(d, "idle")]
      BY <2>3 DEF TaskEnds, InState
    <2>4. CASE TakeRequest(d)
      BY <2>4 DEF TakeRequest, Tasks
    <2>5. CASE Offer(d)
      BY <2>5 DEF Offer, Tasks
    <2>6. CASE PushChunk(d)
      BY <2>6 DEF PushChunk, Tasks
    <2>7. CASE PullChunk(d)
      BY <2>7 DEF PullChunk, Tasks
    <2>8. CASE EmuNwaPullEnds(d)
      BY <2>8 DEF EmuNwaPullEnds, Tasks
    <2> QED
      BY <1>2, <2>3, <2>4, <2>5, <2>6, <2>7, <2>8
      DEF DeviceStep, TakeClose, Answer, PushEnds, LuaPush, PullEnds, RetroarchPullEnds,
          LastSenderGone, EmuNwaSettles, Fails
  <1>3. CASE TakeEvent \/ TrayStep \/ UNCHANGED vars
    BY <1>3 DEF TakeEvent, TrayStep, RightClick, BuildMenu, vars, feedVars
  <1> QED BY <1>1, <1>2, <1>3

(* Device managers announce what they do to their handles. *)
LEMMA FeedFollows ==
  ASSUME RegistryInv, NEW d \in Devices, Feed(d)
  PROVE  RegistryFollowsHandles' /\ HandlesStarted'
  <1> USE DEF RegistryInv, GuardInv
  <1>1. UNCHANGED registry
    BY DEF Feed, DeviceAppears, PortRemoved, RetroarchLost, SendClose, RetroarchRemoved,
           ConnectionClosed
  <1>2. ASSUME NEW x \in Devices, NEW e \in {Created(x), Removed(x)}, Announce(e),
               handles' = IF e = Created(x) THEN handles \cup {x} ELSE handles \ {x}
        PROVE  RegistryFollowsHandles'
    <2>1. e \in Events /\ e.dev = x /\ (e = Created(x) <=> e.kind = "Created")
      BY DEF Events, Created, Removed
    <2>2. \A y \in Devices :
            WillBeRegistered(y)' <=> IF y = x THEN e.kind = "Created" ELSE WillBeRegistered(y)
      BY <1>1, <1>2, <2>1, WillAppend DEF Announce
    <2> QED BY <1>2, <2>1, <2>2 DEF RegistryFollowsHandles
  <1>3. ASSUME NEW x \in Devices, Announce(Removed(x)), handles' = handles \ {x}, UNCHANGED task
        PROVE  RegistryFollowsHandles' /\ HandlesStarted'
    <2>1. Removed(x) # Created(x)
      BY DEF Created, Removed
    <2> QED BY <1>2, <1>3, <2>1 DEF HandlesStarted
  <1>4. CASE DeviceAppears(d)
    <2>1. RegistryFollowsHandles'
      BY <1>2, <1>4 DEF DeviceAppears
    <2>2. HandlesStarted'
      BY <1>4 DEF DeviceAppears, HandlesStarted, InState, TypeOK
    <2> QED BY <2>1, <2>2
  <1>5. CASE PortRemoved(d) \/ RetroarchRemoved(d)
    BY <1>3, <1>5 DEF PortRemoved, RetroarchRemoved
  <1>7. CASE RetroarchLost(d) \/ SendClose(d)
    <2>1. UNCHANGED <<task, handles, events>>
      BY <1>7 DEF RetroarchLost, SendClose
    <2> QED BY <1>1, <2>1 DEF RegistryFollowsHandles, WillBeRegistered, HandlesStarted
  <1>6. CASE ConnectionClosed(d)
    <2>1. UNCHANGED task
      BY <1>6 DEF ConnectionClosed
    <2>2. CASE UNCHANGED <<handles, events>>
      BY <1>1, <2>1, <2>2 DEF RegistryFollowsHandles, WillBeRegistered, HandlesStarted
    <2>3. CASE \E x \in DropsOnReport(d) : handles' = handles \ {x} /\ Announce(Removed(x))
      BY <1>3, <2>1, <2>3 DEF DropsOnReport, TypeOK
    <2> QED BY <1>6, <2>2, <2>3 DEF ConnectionClosed
  <1> QED BY <1>4, <1>5, <1>6, <1>7 DEF Feed

(* No handler takes the handle of the device that RaRemoved is about: the   *)
(* RetroarchManager handles one message at a time, and the others have     *)
(* devices of their own kind.                                              *)
LEMMA FeedHolds ==
  ASSUME RegistryInv, NEW d \in Devices, Feed(d)
  PROVE  RemovalHeld'
  <1> USE DEF RegistryInv
  <1>1. CASE DeviceAppears(d)
    BY <1>1 DEF DeviceAppears, RemovalHeld
  <1>2. CASE PortRemoved(d)
    BY <1>2 DEF PortRemoved, RemovalHeld
  <1>3. CASE RetroarchLost(d)
    BY <1>3 DEF RetroarchLost, RemovalHeld
  <1>4. CASE SendClose(d)
    <2>1. removal # NoRemoval /\ removal.dev = d /\ removal'.dev = d /\ handles' = handles
      BY <1>4, ServerAssumption DEF SendClose, NoRemoval
    <2> QED BY <2>1 DEF RemovalHeld
  <1>5. CASE RetroarchRemoved(d)
    BY <1>5 DEF RetroarchRemoved, RemovalHeld
  <1>6. CASE ConnectionClosed(d)
    <2>1. CASE UNCHANGED handles
      BY <1>6, <2>1 DEF ConnectionClosed, RemovalHeld
    <2>2. ASSUME NEW x \in DropsOnReport(d), handles' = handles \ {x} PROVE RemovalHeld'
      <3>1. removal # NoRemoval => Kind[x] # "retroarch"
        BY <1>6 DEF ConnectionClosed, DropsOnReport
      <3> QED BY <1>6, <2>2, <3>1 DEF ConnectionClosed, RemovalHeld
    <2> QED BY <1>6, <2>1, <2>2 DEF ConnectionClosed
  <1> QED BY <1>1, <1>2, <1>3, <1>4, <1>5, <1>6 DEF Feed

(* RegistryInv holds in every reachable state. *)
THEOREM RegistryInvariant == Spec => []RegistryInv
  <1>1. Init => RegistryInv
    <2>1. Init => GuardInv
      BY InitialGuard
    <2>2. Init => RegistryFollowsHandles /\ HandlesStarted /\ RemovalHeld
      BY EmptySeq
      DEF Init, RegistryFollowsHandles, WillBeRegistered, HandlesStarted, RemovalHeld
    <2> QED BY <2>1, <2>2 DEF RegistryInv
  <1>2. RegistryInv /\ GuardInv' /\ [Next]_vars => RegistryInv'
    <2> SUFFICES ASSUME RegistryInv, GuardInv', [Next]_vars
                 PROVE  RegistryFollowsHandles' /\ HandlesStarted' /\ RemovalHeld'
      BY DEF RegistryInv
    <2> USE DEF RegistryInv, GuardInv
    <2>1. ASSUME NEW d \in Devices, Feed(d)
          PROVE  RegistryFollowsHandles' /\ HandlesStarted' /\ RemovalHeld'
      BY <2>1, FeedFollows, FeedHolds
    <2>2. CASE ApplyEvent
      <3>1. events # <<>>
        <4>1. 1 \in 1..Len(lockQueue) /\ lockQueue[1] = Manager
          BY <2>2 DEF ApplyEvent, GrantedWrite, TypeOK
        <4> QED BY <4>1 DEF WaitsOnce
      <3>2. \A d \in Devices : WillBeRegistered(d)' <=> WillBeRegistered(d)
        BY <2>2, <3>1, WillTail DEF ApplyEvent
      <3> QED
        BY <2>2, <3>2
        DEF ApplyEvent, feedVars, RegistryFollowsHandles, HandlesStarted, RemovalHeld
    <2>3. CASE \/ \E c \in Clients : SessionStep(c)
               \/ \E d \in Devices : DeviceStep(d) \/ EmuNwaSettles(d) \/ Fails(d)
               \/ TakeEvent \/ TrayStep \/ UNCHANGED vars
      <3>1. /\ UNCHANGED <<registry, events, handles, removal>>
            /\ \A d \in Devices : task'[d].mode = "off" <=> task[d].mode = "off"
        BY <2>3, OthersKeepFeed
      <3>2. RegistryFollowsHandles'
        BY <3>1 DEF RegistryFollowsHandles, WillBeRegistered
      <3>3. \A d \in Devices : d \in handles' => task'[d].mode # "off"
        BY <3>1 DEF HandlesStarted
      <3> QED BY <3>1, <3>2, <3>3 DEF HandlesStarted, RemovalHeld, TypeOK
    <2> QED BY <2>1, <2>2, <2>3 DEF Next, ManagerStep
  <1> QED BY <1>1, <1>2, GuardInvariant, PTL DEF Spec

(* The registry (manager.rs) lags behind the HashMaps of the device        *)
(* managers by the events in manager_rx and by nothing else.               *)
THEOREM RegistryCorrect == Spec => []RegistryFollowsHandles
  BY RegistryInvariant, PTL DEF RegistryInv

(* The device managers of the composed system keep what each of them, in a *)
(* module of its own, is shown to promise.                                 *)
THEOREM HandlesAreFed == Spec => Handles!Spec
  <1>1. Init => Handles!Init
    BY DEF Init, Handles!Init, Life, Port, NotStarted
  <1>2. RegistryInv /\ [Next]_vars => [Handles!Next]_<<Life, Port>>
    <2> SUFFICES ASSUME RegistryInv, [Next]_vars PROVE [Handles!Next]_<<Life, Port>>
      OBVIOUS
    <2> USE DEF RegistryInv, GuardInv
    <2>1. ASSUME NEW d \in Devices, DeviceAppears(d) PROVE [Handles!Next]_<<Life, Port>>
      <3>1. /\ task[d].mode = "off" /\ \A x \in handles : NameOf[x] # NameOf[d]
            /\ task' = [task EXCEPT ![d] = InState(d, "idle")] /\ handles' = handles \cup {d}
        BY <2>1 DEF DeviceAppears
      <3>2. NameOf[d] \in Names
        BY ServerAssumption
      <3>3. Life' = [Life EXCEPT ![d] = "live"] /\ Port' = [Port EXCEPT ![d] = NameOf[d]]
        BY <3>1 DEF Life, Port, InState, TypeOK
      <3>4. Life[d] = "unborn" /\ Handles!Vacant(NameOf[d])
        BY <3>1 DEF Life, Port, Handles!Vacant
      <3>5. Handles!Appear(d, NameOf[d])
        BY <3>3, <3>4 DEF Handles!Appear
      <3> QED BY <3>2, <3>5 DEF Handles!Next
    <2>2. ASSUME NEW x \in handles, handles' = handles \ {x}, UNCHANGED task
          PROVE  [Handles!Next]_<<Life, Port>>
      <3>1. x \in Devices /\ Life[x] = "live"
        BY DEF Life, HandlesStarted, TypeOK
      <3>2. Life' = [Life EXCEPT ![x] = "gone"] /\ UNCHANGED Port
        BY <2>2 DEF Life, Port, HandlesStarted, TypeOK
      <3>3. Handles!Vanish(x)
        BY <3>1, <3>2 DEF Handles!Vanish
      <3> QED BY <3>1, <3>3 DEF Handles!Next
    <2>3. ASSUME UNCHANGED handles, \A d \in Devices : task'[d].mode = "off" <=> task[d].mode = "off"
          PROVE  UNCHANGED <<Life, Port>>
      BY <2>3 DEF Life, Port
    <2>4. ASSUME NEW d \in Devices, Feed(d) PROVE [Handles!Next]_<<Life, Port>>
      <3>1. CASE PortRemoved(d)
        BY <2>2, <3>1 DEF PortRemoved
      <3>3. CASE RetroarchRemoved(d)
        <4>1. d \in handles
          BY <3>3, ServerAssumption DEF RetroarchRemoved, RemovalHeld, NoRemoval
        <4> QED BY <2>2, <3>3, <4>1 DEF RetroarchRemoved
      <3>4. CASE RetroarchLost(d) \/ SendClose(d)
        BY <2>3, <3>4 DEF RetroarchLost, SendClose
      <3>2. CASE ConnectionClosed(d)
        BY <2>2, <2>3, <3>2 DEF ConnectionClosed, DropsOnReport
      <3> QED BY <2>1, <2>4, <3>1, <3>2, <3>3, <3>4 DEF Feed
    <2>5. CASE ApplyEvent
      BY <2>3, <2>5 DEF ApplyEvent, feedVars
    <2>6. CASE \/ \E c \in Clients : SessionStep(c)
               \/ \E d \in Devices : DeviceStep(d) \/ EmuNwaSettles(d) \/ Fails(d)
               \/ TakeEvent \/ TrayStep \/ UNCHANGED vars
      BY <2>3, <2>6, OthersKeepFeed
    <2> QED BY <2>4, <2>5, <2>6 DEF Next, ManagerStep
  <1> QED BY <1>1, <1>2, RegistryInvariant, PTL DEF Spec, Handles!Spec

-----------------------------------------------------------------------------
(***************************************************************************)
(* Requests and transfers: where a request waits for its reply, and that no *)
(* byte is lost or added between a session and a device.                   *)
(***************************************************************************)

(* Requests.  OneTicket counts the places where a session's request may    *)
(* be; what is inductive is said of one place at a time.                   *)

Awaits(c) == client[c].mode = "reply" /\ client[c].reply = "none"

(* A reply is there only for the session that asked. *)
RepliesAwaited == \A c \in Clients : client[c].mode # "reply" => client[c].reply = "none"

(* A request is held for a session that waits for it, by its device, ...   *)
HeldIsAwaited ==
  \A c \in Clients, d \in Devices : \A i \in 0..Len(inbox[d]) :
    Holds(d, i, c) => Awaits(c) /\ client[c].device = d

(* ... in one place. *)
HeldOnce ==
  \A c \in Clients, d \in Devices : \A i, j \in 0..Len(inbox[d]) :
    Holds(d, i, c) /\ Holds(d, j, c) => i = j

(* The device of a session that waits holds its request. *)
AwaitedIsHeld ==
  \A c \in Clients :
    Awaits(c) => /\ client[c].device \in Devices
                 /\ \E i \in 0..Len(inbox[client[c].device]) : Holds(client[c].device, i, c)

RequestInv == GuardInv /\ RepliesAwaited /\ HeldIsAwaited /\ HeldOnce /\ AwaitedIsHeld

-----------------------------------------------------------------------------
(* One step of a request at a time.  Each lemma says of RequestInv what    *)
(* one kind of step does to it.                                            *)

Requested == RepliesAwaited /\ HeldIsAwaited /\ HeldOnce /\ AwaitedIsHeld

(* What a typed channel holds at a place is a session or Close. *)
LEMMA PlaceTypes ==
  ASSUME TypeOK, NEW d \in Devices
  PROVE  /\ inbox[d] \in Seq(Clients \cup {Close})
         /\ Len(inbox[d]) \in Nat
         /\ task[d] \in Tasks
         /\ \A i \in 1..Len(inbox[d]) : inbox[d][i] \in Clients \cup {Close}
  BY ElementOfSeq, LenProperties DEF TypeOK

(* Every request stays where it is, and every session waits as it did.     *)
LEMMA NothingMoves ==
  ASSUME RequestInv, RepliesAwaited',
         \A c \in Clients : /\ Awaits(c)' <=> Awaits(c)
                            /\ Awaits(c) => client'[c].device = client[c].device,
         \A c \in Clients, d \in Devices :
           /\ \A i \in 0..Len(inbox[d]) :
                Holds(d, i, c) => i \in 0..Len(inbox'[d]) /\ Holds(d, i, c)'
           /\ \A i \in 0..Len(inbox'[d]) :
                Holds(d, i, c)' => i \in 0..Len(inbox[d]) /\ Holds(d, i, c)
  PROVE  Requested'
  <1> USE DEF RequestInv
  <1>1. HeldIsAwaited'
    BY DEF HeldIsAwaited
  <1>2. HeldOnce'
    BY DEF HeldOnce
  <1>3. AwaitedIsHeld'
    <2> SUFFICES ASSUME NEW c \in Clients, Awaits(c)', NEW d, d = client'[c].device
                 PROVE  d \in Devices /\ \E i \in 0..Len(inbox'[d]) : Holds(d, i, c)'
      BY DEF AwaitedIsHeld
    <2>1. Awaits(c) /\ d = client[c].device
      OBVIOUS
    <2>2. d \in Devices /\ \E i \in 0..Len(inbox[d]) : Holds(d, i, c)
      BY <2>1 DEF AwaitedIsHeld
    <2> QED BY <2>2
  <1> QED BY <1>1, <1>2, <1>3 DEF Requested

(* A session that waits for no reply does something of its own. *)
LEMMA SessionQuiet ==
  ASSUME RequestInv, NEW c \in Clients, ~Awaits(c),
         NEW s \in Sessions, client' = [client EXCEPT ![c] = s],
         s.mode # "reply", s.reply = "none",
         inbox' = inbox,
         \A d \in Devices : task'[d].mode = task[d].mode /\ task'[d].client = task[d].client
  PROVE  Requested'
  <1>1. /\ client'[c] = s
        /\ \A x \in Clients \ {c} : client'[x] = client[x]
    BY DEF RequestInv, GuardInv, TypeOK
  <1>2. RepliesAwaited'
    BY <1>1 DEF RequestInv, RepliesAwaited
  <1>3. \A x \in Clients : /\ Awaits(x)' <=> Awaits(x)
                           /\ Awaits(x) => client'[x].device = client[x].device
    BY <1>1 DEF Awaits
  <1>4. \A x \in Clients, d \in Devices : \A i : Holds(d, i, x)' <=> Holds(d, i, x)
    BY DEF Holds
  <1> QED BY <1>2, <1>3, <1>4, NothingMoves

(* A session's request enters its device's channel. *)
LEMMA RequestPosted ==
  ASSUME RequestInv, NEW c \in Clients, client[c].mode = "mailbox",
         client' = [client EXCEPT ![c].mode = "reply"],
         inbox' = [inbox EXCEPT ![client[c].device] = Append(@, c)],
         task' = task
  PROVE  Requested'
  <1> USE DEF RequestInv
  <1> DEFINE d == client[c].device
             n == Len(inbox[d])
  <1>1. d \in Devices
    BY DEF GuardInv, GuardPinsDevice, TypeOK
  <1>2. ~Awaits(c) /\ client[c].reply = "none" /\ client[c] \in Sessions
    BY DEF Awaits, RepliesAwaited, GuardInv, TypeOK
  <1>3. /\ client'[c].mode = "reply" /\ client'[c].reply = "none" /\ client'[c].device = d
        /\ \A x \in Clients \ {c} : client'[x] = client[x]
    BY <1>2 DEF GuardInv, TypeOK, Sessions
  <1>4. /\ inbox'[d] = Append(inbox[d], c)
        /\ \A x \in Devices \ {d} : inbox'[x] = inbox[x]
    BY <1>1 DEF GuardInv, TypeOK
  <1>5. /\ n \in Nat
        /\ Len(inbox'[d]) = n + 1
        /\ inbox'[d][n + 1] = c
        /\ \A i \in 1..n : inbox'[d][i] = inbox[d][i]
    BY <1>1, <1>4, PlaceTypes, AppendProperties DEF GuardInv
  <1>6. \A x \in Clients : Awaits(x)' <=> (Awaits(x) \/ x = c)
    BY <1>3 DEF Awaits
  <1> HIDE DEF d, n
  <1>7. \A x \in Clients, e \in Devices : \A i \in 0..Len(inbox'[e]) :
          Holds(e, i, x)' <=> \/ i \in 0..Len(inbox[e]) /\ Holds(e, i, x)
                              \/ e = d /\ i = n + 1 /\ x = c
    <2> SUFFICES ASSUME NEW x \in Clients, NEW e \in Devices, NEW i \in 0..Len(inbox'[e])
                 PROVE  Holds(e, i, x)' <=> \/ i \in 0..Len(inbox[e]) /\ Holds(e, i, x)
                                            \/ e = d /\ i = n + 1 /\ x = c
      OBVIOUS
    <2>1. CASE e # d
      BY <2>1, <1>4 DEF Holds
    <2>2. CASE e = d
      <3>1. Len(inbox[e]) = n
        BY <2>2 DEF n, d
      <3>2. CASE i = n + 1
        BY <2>2, <3>1, <3>2, <1>5 DEF Holds
      <3>3. CASE i \in 1..n
        BY <2>2, <3>1, <3>3, <1>5 DEF Holds
      <3>4. CASE i = 0
        BY <2>2, <3>1, <3>4, <1>5 DEF Holds
      <3> QED BY <2>2, <3>2, <3>3, <3>4, <1>5
    <2> QED BY <2>1, <2>2
  <1>8. \A e \in Devices : \A i \in 0..Len(inbox[e]) : ~Holds(e, i, c)
    BY <1>2 DEF HeldIsAwaited
  <1>9. \A e \in Devices : 0..Len(inbox[e]) \subseteq 0..Len(inbox'[e])
    <2> SUFFICES ASSUME NEW e \in Devices PROVE 0..Len(inbox[e]) \subseteq 0..Len(inbox'[e])
      OBVIOUS
    <2>1. CASE e # d
      BY <2>1, <1>4
    <2>2. CASE e = d
      BY <2>2, <1>5 DEF n, d
    <2> QED BY <2>1, <2>2
  <1>10. RepliesAwaited'
    BY <1>3 DEF RepliesAwaited
  <1>11. HeldIsAwaited'
    BY <1>3, <1>6, <1>7 DEF HeldIsAwaited, d
  <1>12. HeldOnce'
    BY <1>7, <1>8 DEF HeldOnce
  <1>13. AwaitedIsHeld'
    <2> SUFFICES ASSUME NEW x \in Clients, Awaits(x)', NEW e, e = client'[x].device
                 PROVE  e \in Devices /\ \E i \in 0..Len(inbox'[e]) : Holds(e, i, x)'
      BY DEF AwaitedIsHeld
    <2>1. CASE x = c
      <3>1. n + 1 \in 0..Len(inbox'[d])
        BY <1>5
      <3> QED BY <2>1, <3>1, <1>1, <1>3, <1>7
    <2>2. CASE x # c
      <3>1. e = client[x].device /\ Awaits(x)
        BY <2>2, <1>3, <1>6
      <3>2. e \in Devices /\ \E i \in 0..Len(inbox[e]) : Holds(e, i, x)
        BY <3>1 DEF AwaitedIsHeld
      <3> QED BY <3>2, <1>7, <1>9
    <2> QED BY <2>1, <2>2
  <1> QED BY <1>10, <1>11, <1>12, <1>13 DEF Requested

(* A device's task takes the request at the head of its channel in hand.   *)
LEMMA RequestTaken ==
  ASSUME RequestInv, NEW d \in Devices, TakeRequest(d)
  PROVE  Requested'
  <1> USE DEF RequestInv
  <1>1. /\ inbox[d] \in Seq(Clients \cup {Close}) /\ inbox[d] # <<>>
        /\ task[d] \in Tasks /\ task[d].mode = "idle"
        /\ client' = client
    BY PlaceTypes DEF TakeRequest, GuardInv
  <1>2. /\ inbox'[d] = Tail(inbox[d])
        /\ \A e \in Devices \ {d} : inbox'[e] = inbox[e] /\ task'[e] = task[e]
        /\ task'[d].mode = "work" /\ task'[d].client = Head(inbox[d])
    BY <1>1 DEF TakeRequest, GuardInv, TypeOK, Tasks
  <1>3. /\ Len(inbox[d]) \in Nat /\ Len(inbox[d]) > 0
        /\ Len(inbox'[d]) = Len(inbox[d]) - 1
        /\ \A i \in 1..Len(inbox'[d]) : inbox'[d][i] = inbox[d][i + 1]
        /\ Head(inbox[d]) = inbox[d][1]
    BY <1>1, <1>2, HeadTailProperties, LenProperties, EmptySeq
  <1>4. \A x \in Clients : \A i \in 0..Len(inbox'[d]) :
          i + 1 \in 0..Len(inbox[d]) /\ (Holds(d, i, x)' <=> Holds(d, i + 1, x))
    <2> SUFFICES ASSUME NEW x \in Clients, NEW i \in 0..Len(inbox'[d])
                 PROVE  /\ i + 1 \in 0..Len(inbox[d])
                        /\ Holds(d, i, x)' <=> Holds(d, i + 1, x)
      OBVIOUS
    <2>1. i + 1 \in 0..Len(inbox[d]) /\ i + 1 # 0
      BY <1>3
    <2>2. Holds(d, i + 1, x) <=> inbox[d][i + 1] = x
      BY <2>1 DEF Holds
    <2>3. CASE i = 0
      BY <2>1, <2>2, <2>3, <1>2, <1>3 DEF Holds
    <2>4. CASE i # 0
      <3>1. i \in 1..Len(inbox'[d])
        BY <2>4, <1>3
      <3>2. inbox'[d][i] = inbox[d][i + 1]
        BY <3>1, <1>3
      <3> QED BY <2>1, <2>2, <2>4, <3>2 DEF Holds
    <2> QED BY <2>3, <2>4
  <1>5. \A x \in Clients : \A i \in 0..Len(inbox[d]) :
          Holds(d, i, x) => i - 1 \in 0..Len(inbox'[d]) /\ (i - 1) + 1 = i
    BY <1>1, <1>3 DEF Holds
  <1>6. \A e \in Devices \ {d} : /\ Len(inbox'[e]) = Len(inbox[e])
                                 /\ \A i, x : Holds(e, i, x)' <=> Holds(e, i, x)
    BY <1>2 DEF Holds
  <1>7. \A x \in Clients : Awaits(x)' <=> Awaits(x)
    BY <1>1 DEF Awaits
  <1>8. RepliesAwaited'
    BY <1>1 DEF RepliesAwaited
  <1>9. HeldIsAwaited'
    BY <1>1, <1>4, <1>6, <1>7 DEF HeldIsAwaited
  <1>10. HeldOnce'
    <2> SUFFICES ASSUME NEW x \in Clients, NEW e \in Devices,
                        NEW i \in 0..Len(inbox'[e]), NEW j \in 0..Len(inbox'[e]),
                        Holds(e, i, x)', Holds(e, j, x)'
                 PROVE  i = j
      BY DEF HeldOnce
    <2>1. CASE e # d
      BY <2>1, <1>6 DEF HeldOnce
    <2>2. CASE e = d
      <3>1. i + 1 = j + 1
        BY <2>2, <1>4 DEF HeldOnce
      <3> QED BY <2>2, <3>1, <1>3
    <2> QED BY <2>1, <2>2
  <1>11. AwaitedIsHeld'
    <2> SUFFICES ASSUME NEW x \in Clients, Awaits(x), NEW e, e = client[x].device
                 PROVE  e \in Devices /\ \E i \in 0..Len(inbox'[e]) : Holds(e, i, x)'
      BY <1>1, <1>7 DEF AwaitedIsHeld
    <2>1. /\ e \in Devices
          /\ \E i \in 0..Len(inbox[e]) : Holds(e, i, x)
      BY DEF AwaitedIsHeld
    <2>2. PICK i \in 0..Len(inbox[e]) : Holds(e, i, x)
      BY <2>1
    <2>3. CASE e # d
      BY <2>1, <2>2, <2>3, <1>6
    <2>4. CASE e = d
      <3> DEFINE j == i - 1
      <3>1. j \in 0..Len(inbox'[d]) /\ j + 1 = i
        BY <2>2, <2>4, <1>5
      <3> HIDE DEF j
      <3>2. Holds(d, j, x)'
        BY <2>2, <2>4, <3>1, <1>4
      <3> QED BY <2>4, <3>1, <3>2, <1>1
    <2> QED BY <2>1, <2>3, <2>4
  <1> QED BY <1>8, <1>9, <1>10, <1>11 DEF Requested

(* A device's task sends the reply of the request it has in hand, and has  *)
(* no request afterwards.                                                  *)
LEMMA RequestAnswered ==
  ASSUME RequestInv, NEW d \in Devices, task[d].mode = "work",
         NEW r \in Replies \ {"none"},
         client' = [client EXCEPT ![task[d].client].reply = r],
         inbox' = inbox,
         task'[d].mode # "work",
         \A e \in Devices \ {d} : task'[e] = task[e]
  PROVE  /\ Requested'
         /\ task[d].client \in Clients /\ Awaits(task[d].client)
         /\ client[task[d].client].device = d
  <1> USE DEF RequestInv
  <1> DEFINE c == task[d].client
  <1>1. c \in Clients /\ Len(inbox[d]) \in Nat
    BY PlaceTypes DEF GuardInv, Tasks
  <1>2. Holds(d, 0, c) /\ 0 \in 0..Len(inbox[d])
    BY <1>1 DEF Holds
  <1>3. Awaits(c) /\ client[c].device = d
    BY <1>1, <1>2 DEF HeldIsAwaited
  <1> HIDE DEF c
  <1>4. /\ client'[c].mode = client[c].mode /\ client'[c].reply = r
        /\ client'[c].device = client[c].device
        /\ \A x \in Clients \ {c} : client'[x] = client[x]
    BY <1>1 DEF GuardInv, TypeOK, Sessions, c
  <1>5. \A x \in Clients : Awaits(x)' <=> (Awaits(x) /\ x # c)
    BY <1>4 DEF Awaits
  <1>6. \A x \in Clients, e \in Devices : \A i \in 0..Len(inbox[e]) :
          Holds(e, i, x)' <=> Holds(e, i, x) /\ x # c
    <2> SUFFICES ASSUME NEW x \in Clients, NEW e \in Devices, NEW i \in 0..Len(inbox[e])
                 PROVE  Holds(e, i, x)' <=> Holds(e, i, x) /\ x # c
      OBVIOUS
    <2>1. CASE x = c
      <3>1. ~Holds(e, i, x)'
        <4>1. CASE e # d
          <5>1. ~Holds(e, i, c)
            BY <4>1, <1>1, <1>3 DEF HeldIsAwaited
          <5> QED BY <2>1, <4>1, <5>1 DEF Holds
        <4>2. CASE e = d /\ i = 0
          BY <4>2 DEF Holds
        <4>3. CASE e = d /\ i # 0
          <5>1. ~Holds(d, i, c)
            BY <4>3, <1>1, <1>2 DEF HeldOnce
          <5> QED BY <2>1, <4>3, <5>1 DEF Holds
        <4> QED BY <4>1, <4>2, <4>3
      <3> QED BY <2>1, <3>1
    <2>2. CASE x # c
      <3>1. CASE e # d
        BY <2>2, <3>1 DEF Holds
      <3>2. CASE e = d /\ i = 0
        BY <2>2, <3>2 DEF Holds, c
      <3>3. CASE e = d /\ i # 0
        BY <2>2, <3>3 DEF Holds
      <3> QED BY <3>1, <3>2, <3>3
    <2> QED BY <2>1, <2>2
  <1>7. RepliesAwaited'
    BY <1>3, <1>4 DEF RepliesAwaited, Awaits
  <1>8. HeldIsAwaited'
    BY <1>4, <1>5, <1>6 DEF HeldIsAwaited
  <1>9. HeldOnce'
    BY <1>6 DEF HeldOnce
  <1>10. AwaitedIsHeld'
    <2> SUFFICES ASSUME NEW x \in Clients, Awaits(x)', NEW e, e = client'[x].device
                 PROVE  e \in Devices /\ \E i \in 0..Len(inbox'[e]) : Holds(e, i, x)'
      BY DEF AwaitedIsHeld
    <2>1. Awaits(x) /\ x # c /\ e = client[x].device
      BY <1>4, <1>5
    <2>2. e \in Devices /\ \E i \in 0..Len(inbox[e]) : Holds(e, i, x)
      BY <2>1 DEF AwaitedIsHeld
    <2> QED BY <2>1, <2>2, <1>6
  <1>11. Requested'
    BY <1>7, <1>8, <1>9, <1>10 DEF Requested
  <1> QED BY <1>1, <1>3, <1>11 DEF c

(* A task ends: whoever waited for it is told so. *)
LEMMA RequestsDropped ==
  ASSUME RequestInv, NEW d \in Devices, TaskEnds(d)
  PROVE  /\ Requested'
         /\ \A c \in Clients : c \in Waiters(d) => Awaits(c) /\ client[c].device = d
  <1> USE DEF RequestInv
  <1>0. Len(inbox[d]) \in Nat
    BY PlaceTypes DEF GuardInv
  <1>1. \A c \in Clients :
          c \in Waiters(d) <=> \E i \in 0..Len(inbox[d]) : Holds(d, i, c)
    <2> SUFFICES ASSUME NEW c \in Clients
                 PROVE  c \in Waiters(d) <=> \E i \in 0..Len(inbox[d]) : Holds(d, i, c)
      OBVIOUS
    <2>1. ASSUME NEW i \in 1..Len(inbox[d]), inbox[d][i] = c
          PROVE  i \in 0..Len(inbox[d]) /\ Holds(d, i, c)
      BY <2>1, <1>0 DEF Holds
    <2>2. ASSUME task[d].mode = "work" /\ task[d].client = c
          PROVE  0 \in 0..Len(inbox[d]) /\ Holds(d, 0, c)
      BY <2>2, <1>0 DEF Holds
    <2>3. ASSUME NEW i \in 0..Len(inbox[d]), Holds(d, i, c)
          PROVE  c \in Waiters(d)
      <3>1. CASE i = 0
        BY <2>3, <3>1 DEF Holds, Waiters
      <3>2. CASE i # 0
        <4>1. i \in 1..Len(inbox[d])
          BY <3>2, <1>0
        <4> QED BY <2>3, <3>2, <4>1 DEF Holds, Waiters
      <3> QED BY <3>1, <3>2
    <2> QED BY <2>1, <2>2, <2>3 DEF Waiters
  <1>2. \A c \in Clients : c \in Waiters(d) => Awaits(c) /\ client[c].device = d
    BY <1>1 DEF HeldIsAwaited
  <1>3. \A c \in Clients : /\ client'[c].mode = client[c].mode
                           /\ client'[c].device = client[c].device
                           /\ c \in Waiters(d) => client'[c].reply = "Dropped"
                           /\ c \notin Waiters(d) => client'[c].reply = client[c].reply
    BY DEF TaskEnds, GuardInv, TypeOK, Sessions
  <1>4. \A c \in Clients : Awaits(c)' <=> (Awaits(c) /\ c \notin Waiters(d))
    BY <1>3 DEF Awaits
  <1>5. /\ inbox'[d] = <<>> /\ task'[d].mode = "gone"
        /\ \A e \in Devices \ {d} : inbox'[e] = inbox[e] /\ task'[e] = task[e]
    BY DEF TaskEnds, GuardInv, TypeOK, InState
  <1>6. \A x \in Clients : \A i \in 0..Len(inbox'[d]) : ~Holds(d, i, x)'
    BY <1>5 DEF Holds
  <1>7. \A e \in Devices \ {d} : /\ Len(inbox'[e]) = Len(inbox[e])
                                 /\ \A i, x : Holds(e, i, x)' <=> Holds(e, i, x)
    BY <1>5 DEF Holds
  <1>8. RepliesAwaited'
    BY <1>2, <1>3 DEF RepliesAwaited, Awaits
  <1>9. HeldIsAwaited'
    <2> SUFFICES ASSUME NEW x \in Clients, NEW e \in Devices,
                        NEW i \in 0..Len(inbox'[e]), Holds(e, i, x)'
                 PROVE  Awaits(x)' /\ client'[x].device = e
      BY DEF HeldIsAwaited
    <2>1. e # d
      BY <1>6
    <2>2. Awaits(x) /\ client[x].device = e
      BY <2>1, <1>7 DEF HeldIsAwaited
    <2> QED BY <2>1, <2>2, <1>2, <1>3, <1>4
  <1>10. HeldOnce'
    BY <1>6, <1>7 DEF HeldOnce
  <1>11. AwaitedIsHeld'
    <2> SUFFICES ASSUME NEW x \in Clients, Awaits(x)', NEW e, e = client'[x].device
                 PROVE  e \in Devices /\ \E i \in 0..Len(inbox'[e]) : Holds(e, i, x)'
      BY DEF AwaitedIsHeld
    <2>1. Awaits(x) /\ x \notin Waiters(d) /\ e = client[x].device
      BY <1>3, <1>4
    <2>2. e \in Devices /\ \E i \in 0..Len(inbox[e]) : Holds(e, i, x)
      BY <2>1 DEF AwaitedIsHeld
    <2>3. e # d
      BY <2>1, <2>2, <1>1
    <2> QED BY <2>2, <2>3, <1>7
  <1>12. Requested'
    BY <1>8, <1>9, <1>10, <1>11 DEF Requested
  <1> QED BY <1>2, <1>12

(* A device's task goes on with a transfer, or back to its loop. *)
LEMMA TaskGoesOn ==
  ASSUME RequestInv, NEW d \in Devices,
         task[d].mode # "work", task'[d].mode # "work",
         \A e \in Devices \ {d} : task'[e] = task[e],
         inbox' = inbox,
         \A c \in Clients : /\ client'[c].mode = client[c].mode
                            /\ client'[c].reply = client[c].reply
                            /\ client'[c].device = client[c].device
  PROVE  Requested'
  <1>1. RepliesAwaited'
    BY DEF RequestInv, RepliesAwaited
  <1>2. \A c \in Clients : Awaits(c)' <=> Awaits(c)
    BY DEF Awaits
  <1>3. \A c \in Clients, e \in Devices : \A i : Holds(e, i, c)' <=> Holds(e, i, c)
    BY DEF Holds
  <1> QED BY <1>1, <1>2, <1>3, NothingMoves

(* The device tasks: a request taken is answered or dropped. *)
LEMMA DeviceServesRequests ==
  ASSUME RequestInv, NEW d \in Devices, DeviceStep(d) \/ EmuNwaSettles(d) \/ Fails(d)
  PROVE  Requested'
  <1> USE DEF RequestInv
  <1>t. /\ TypeOK /\ task \in [Devices -> Tasks] /\ task[d] \in Tasks
        /\ client \in [Clients -> Sessions]
    BY DEF GuardInv, TypeOK
  <1>g. ASSUME NEW t, task' = [task EXCEPT ![d] = t]
        PROVE  task'[d] = t /\ \A e \in Devices \ {d} : task'[e] = task[e]
    BY <1>g, <1>t
  <1>m. /\ InState(d, "idle").mode = "idle"
        /\ \A n : [task[d] EXCEPT !.moved = n].mode = task[d].mode
        /\ \A n, q : [task[d] EXCEPT !.moved = n, !.slices = q].mode = task[d].mode
        /\ [task[d] EXCEPT !.mode = "settle"].mode = "settle"
    BY <1>t DEF InState, Tasks
  <1>c. ASSUME NEW x, NEW n, client' = [client EXCEPT ![x].slices = Append(@, n)]
        PROVE  \A c \in Clients : /\ client'[c].mode = client[c].mode
                                   /\ client'[c].reply = client[c].reply
                                   /\ client'[c].device = client[c].device
    BY <1>c, <1>t DEF Sessions
  <1>i. ASSUME task[d].mode # "work", inbox' = inbox, client' = client,
               task' = [task EXCEPT ![d] = InState(d, "idle")]
        PROVE  Requested'
    <2>1. task'[d].mode # "work" /\ \A e \in Devices \ {d} : task'[e] = task[e]
      BY <1>i, <1>g, <1>m
    <2> QED BY <1>i, <2>1, TaskGoesOn
  <1>1. CASE TakeRequest(d)
    BY <1>1, RequestTaken
  <1>2. CASE TakeClose(d)
    BY <1>2, RequestsDropped DEF TakeClose
  <1>3. CASE Answer(d)
    <2> DEFINE r == ReplyTo(d, client[task[d].client].req.cmd)
    <2>1. /\ task[d].mode = "work" /\ r \in Replies \ {"none"}
          /\ client' = [client EXCEPT ![task[d].client].reply = r]
          /\ inbox' = inbox
          /\ task' = [task EXCEPT ![d] = InState(d, "idle")]
      BY <1>3 DEF Answer, Replies
    <2>2. task'[d].mode # "work" /\ \A e \in Devices \ {d} : task'[e] = task[e]
      BY <2>1, <1>g, <1>m
    <2> HIDE DEF r
    <2> QED BY <2>1, <2>2, RequestAnswered
  <1>4. CASE Offer(d)
    <2> DEFINE r == ReplyTo(d, client[task[d].client].req.cmd)
    <2>1. /\ task[d].mode = "work" /\ r \in Replies \ {"none"}
          /\ client' = [client EXCEPT ![task[d].client].reply = r]
          /\ inbox' = inbox
      BY <1>4 DEF Offer, Replies
    <2>2. task'[d].mode # "work" /\ \A e \in Devices \ {d} : task'[e] = task[e]
      BY <1>4, <1>t DEF Offer, Tasks
    <2> HIDE DEF r
    <2> QED BY <2>1, <2>2, RequestAnswered
  <1>5. CASE PushChunk(d)
    <2>1. /\ task[d].mode = "push" /\ inbox' = inbox
          /\ \E n : task' = [task EXCEPT ![d].moved = n]
      BY <1>5 DEF PushChunk
    <2>2. task'[d].mode # "work" /\ \A e \in Devices \ {d} : task'[e] = task[e]
      BY <2>1, <1>g, <1>m
    <2>3. client' = client \/ \E n : client' = [client EXCEPT ![task[d].client].slices = Append(@, n)]
      BY <1>5 DEF PushChunk
    <2>4. \A c \in Clients : /\ client'[c].mode = client[c].mode
                             /\ client'[c].reply = client[c].reply
                             /\ client'[c].device = client[c].device
      BY <2>3, <1>c
    <2> QED BY <2>1, <2>2, <2>4, TaskGoesOn
  <1>6. CASE PushEnds(d)
    BY <1>6, <1>i DEF PushEnds
  <1>7. CASE LuaPush(d)
    <2>1. CASE SessionHoldsReceiver(d)
      <3>1. /\ task[d].mode = "push" /\ inbox' = inbox
            /\ task' = [task EXCEPT ![d] = InState(d, "idle")]
            /\ client' = [client EXCEPT ![task[d].client].slices = Append(@, task[d].size)]
        BY <1>7, <2>1 DEF LuaPush
      <3>2. task'[d].mode # "work" /\ \A e \in Devices \ {d} : task'[e] = task[e]
        BY <3>1, <1>g, <1>m
      <3>3. \A c \in Clients : /\ client'[c].mode = client[c].mode
                               /\ client'[c].reply = client[c].reply
                               /\ client'[c].device = client[c].device
        BY <3>1, <1>c
      <3> QED BY <3>1, <3>2, <3>3, TaskGoesOn
    <2>2. CASE ~SessionHoldsReceiver(d)
      BY <1>7, <2>2, RequestsDropped DEF LuaPush
    <2> QED BY <2>1, <2>2
  <1>8. CASE PullChunk(d)
    <2>1. /\ task[d].mode = "pull" /\ inbox' = inbox /\ client' = client
          /\ \E n, q : task' = [task EXCEPT ![d].moved = n, ![d].slices = q]
      BY <1>8 DEF PullChunk
    <2>2. task'[d].mode # "work" /\ \A e \in Devices \ {d} : task'[e] = task[e]
      BY <2>1, <1>t DEF Tasks
    <2> QED BY <2>1, <2>2, TaskGoesOn
  <1>9. CASE PullEnds(d)
    BY <1>9, <1>i DEF PullEnds
  <1>10. CASE RetroarchPullEnds(d)
    BY <1>10, <1>i, RequestsDropped DEF RetroarchPullEnds
  <1>11. CASE EmuNwaPullEnds(d)
    <2>1. /\ task[d].mode = "pull" /\ inbox' = inbox /\ client' = client
          /\ task' = [task EXCEPT ![d] = [task[d] EXCEPT !.mode = "settle"]]
      BY <1>11 DEF EmuNwaPullEnds
    <2>2. task'[d].mode # "work" /\ \A e \in Devices \ {d} : task'[e] = task[e]
      BY <2>1, <1>g, <1>m
    <2> QED BY <2>1, <2>2, TaskGoesOn
  <1>12. CASE LastSenderGone(d)
    BY <1>12, RequestsDropped DEF LastSenderGone
  <1>13. CASE EmuNwaSettles(d)
    BY <1>13, <1>i DEF EmuNwaSettles
  <1>14. CASE Fails(d)
    BY <1>14, RequestsDropped DEF Fails
  <1> QED
    BY <1>1, <1>2, <1>3, <1>4, <1>5, <1>6, <1>7, <1>8, <1>9, <1>10, <1>11,
       <1>12, <1>13, <1>14 DEF DeviceStep

(* The device managers put nothing in a channel but Close. *)
LEMMA FeedRequests ==
  ASSUME RequestInv, NEW d \in Devices, Feed(d)
  PROVE  Requested'
  <1> USE DEF RequestInv
  <1>1. client' = client
    BY DEF Feed, DeviceAppears, PortRemoved, RetroarchLost, SendClose, RetroarchRemoved,
           ConnectionClosed
  <1>2. RepliesAwaited' /\ \A c \in Clients : Awaits(c)' <=> Awaits(c)
    BY <1>1 DEF RepliesAwaited, Awaits
  <1>3. ASSUME UNCHANGED <<task, inbox>> PROVE Requested'
    BY <1>1, <1>2, <1>3, NothingMoves DEF Holds
  <1>4. CASE DeviceAppears(d)
    <2>1. /\ task[d].mode # "work" /\ inbox' = inbox
          /\ task'[d].mode # "work" /\ \A e \in Devices \ {d} : task'[e] = task[e]
      BY <1>4 DEF DeviceAppears, GuardInv, TypeOK, InState
    <2> QED BY <2>1, <1>1, TaskGoesOn
  <1>5. CASE PortRemoved(d) \/ RetroarchLost(d) \/ RetroarchRemoved(d)
    BY <1>3, <1>5 DEF PortRemoved, RetroarchLost, RetroarchRemoved
  <1>6. CASE ConnectionClosed(d)
    BY <1>3, <1>6 DEF ConnectionClosed
  <1>7. CASE SendClose(d)
    <2>1. CASE inbox' = inbox
      BY <1>3, <1>7, <2>1 DEF SendClose
    <2>2. CASE inbox' = [inbox EXCEPT ![d] = Append(@, Close)]
      <3> DEFINE n == Len(inbox[d])
      <3>1. /\ inbox'[d] = Append(inbox[d], Close)
            /\ \A e \in Devices \ {d} : inbox'[e] = inbox[e]
            /\ task' = task
        BY <1>7, <2>2 DEF SendClose, GuardInv, TypeOK
      <3>2. /\ n \in Nat
            /\ Len(inbox'[d]) = n + 1
            /\ inbox'[d][n + 1] = Close
            /\ \A i \in 1..n : inbox'[d][i] = inbox[d][i]
        BY <3>1, PlaceTypes, AppendProperties DEF GuardInv
      <3> HIDE DEF n
      <3>3. \A c \in Clients, e \in Devices : \A i \in 0..Len(inbox[e]) :
              Holds(e, i, c) => i \in 0..Len(inbox'[e]) /\ Holds(e, i, c)'
        <4> SUFFICES ASSUME NEW c \in Clients, NEW e \in Devices,
                            NEW i \in 0..Len(inbox[e]), Holds(e, i, c)
                     PROVE  i \in 0..Len(inbox'[e]) /\ Holds(e, i, c)'
          OBVIOUS
        <4>1. CASE e # d
          BY <3>1, <4>1 DEF Holds
        <4>2. CASE e = d
          <5>1. i \in 0..(n + 1) /\ (i # 0 => i \in 1..n)
            BY <3>2, <4>2 DEF n
          <5> QED BY <3>1, <3>2, <4>2, <5>1 DEF Holds
        <4> QED BY <4>1, <4>2
      <3>4. \A c \in Clients, e \in Devices : \A i \in 0..Len(inbox'[e]) :
              Holds(e, i, c)' => i \in 0..Len(inbox[e]) /\ Holds(e, i, c)
        <4> SUFFICES ASSUME NEW c \in Clients, NEW e \in Devices,
                            NEW i \in 0..Len(inbox'[e]), Holds(e, i, c)'
                     PROVE  i \in 0..Len(inbox[e]) /\ Holds(e, i, c)
          OBVIOUS
        <4>1. CASE e # d
          BY <3>1, <4>1 DEF Holds
        <4>2. CASE e = d
          <5>1. i \in 0..n \/ i = n + 1
            BY <3>2, <4>2
          <5>2. i # n + 1
            BY <3>2, <4>2, ServerAssumption DEF Holds
          <5>3. i # 0 => i \in 1..n
            BY <3>2, <5>1, <5>2
          <5>4. i \in 0..Len(inbox[e])
            BY <4>2, <5>1, <5>2 DEF n
          <5> QED BY <3>1, <3>2, <4>2, <5>3, <5>4 DEF Holds
        <4> QED BY <4>1, <4>2
      <3> QED BY <1>1, <1>2, <3>3, <3>4, NothingMoves
    <2> QED BY <1>7, <2>1, <2>2 DEF SendClose
  <1> QED BY <1>4, <1>5, <1>6, <1>7 DEF Feed

(* The sessions: a request is out from Post to TakeReply and not longer.   *)
LEMMA SessionRequests ==
  ASSUME RequestInv, NEW c \in Clients, SessionStep(c)
  PROVE  Requested'
  <1> USE DEF RequestInv
  <1>t. /\ TypeOK /\ client \in [Clients -> Sessions] /\ client[c] \in Sessions
        /\ TypeOK'
    BY SessionStepType DEF GuardInv, TypeOK
  <1>r. /\ Ready(c).mode = "ready" /\ Ready(c).reply = "none" /\ Ready(c) \in Sessions
        /\ Disconnected.mode = "closed" /\ Disconnected.reply = "none"
    BY <1>t, SessionTypes DEF Ready, Disconnected, Sessions
  <1>w. Awaits(c) => client[c].mode = "reply" /\ client[c].reply = "none"
    BY DEF Awaits
  <1>n. client[c].mode # "reply" => client[c].reply = "none"
    BY DEF RepliesAwaited
  <1>q. ASSUME ~Awaits(c), NEW s, client' = [client EXCEPT ![c] = s],
               s.mode # "reply", s.reply = "none", UNCHANGED <<task, inbox>>
        PROVE  Requested'
    <2>1. client'[c] = s /\ client'[c] \in Sessions
      BY <1>q, <1>t DEF TypeOK
    <2> QED BY <1>q, <2>1, SessionQuiet
  <1>1. CASE Connect(c)
    <2>1. [Disconnected EXCEPT !.mode = "ready"].mode = "ready"
          /\ [Disconnected EXCEPT !.mode = "ready"].reply = "none"
      BY DEF Disconnected
    <2> QED BY <1>1, <1>w, <1>q, <2>1 DEF Connect, SessionStays
  <1>2. CASE PeerLeaves(c)
    BY <1>2, <1>w, <1>r, <1>q DEF PeerLeaves, Listening, SessionStays
  <1>3. CASE LocalRequest(c)
    BY <1>3, <1>w, <1>r, <1>q DEF LocalRequest, Listening, SessionStays
  <1>4. CASE AskForLock(c)
    <2>1. PICK x : client' = [client EXCEPT ![c] = [Ready(c) EXCEPT !.mode = "lock", !.req = x]]
      BY <1>4 DEF AskForLock
    <2>2. /\ [Ready(c) EXCEPT !.mode = "lock", !.req = x].mode = "lock"
          /\ [Ready(c) EXCEPT !.mode = "lock", !.req = x].reply = "none"
      BY <1>r DEF Sessions
    <2> QED BY <1>4, <1>w, <1>q, <2>1, <2>2 DEF AskForLock, Listening, SessionStays
  <1>5. CASE ServeLock(c)
    <2>1. client[c].mode = "lock"
      BY <1>5, NotQueued DEF ServeLock, ListDevices, Attach, Lookup, GuardInv
    <2>2. PICK s : client' = [client EXCEPT ![c] = s] /\ s.mode # "reply" /\ s.reply = "none"
      <3>1. CASE ListDevices(c)
        BY <3>1, <1>r DEF ListDevices
      <3>2. CASE Attach(c)
        <4>1. \A d : /\ [Ready(c) EXCEPT !.device = d].mode = "ready"
                     /\ [Ready(c) EXCEPT !.device = d].reply = "none"
          BY <1>r DEF Sessions
        <4> QED BY <3>2, <4>1, <1>r DEF Attach
      <3>3. CASE Lookup(c)
        <4>1. /\ [client[c] EXCEPT !.mode = "mailbox"].mode = "mailbox"
              /\ [client[c] EXCEPT !.mode = "mailbox"].reply = "none"
          BY <2>1, <1>n, <1>t DEF Sessions
        <4>2. \/ client' = [client EXCEPT ![c] = [client[c] EXCEPT !.mode = "mailbox"]]
              \/ client' = [client EXCEPT ![c] = Disconnected]
          BY <3>3 DEF Lookup
        <4> QED BY <4>1, <4>2, <1>r
      <3> QED BY <1>5, <3>1, <3>2, <3>3 DEF ServeLock
    <2> QED BY <1>5, <1>w, <1>q, <2>1, <2>2 DEF ServeLock, ListDevices, Attach, Lookup, SessionStays
  <1>6. CASE Post(c)
    <2>1. CASE task[client[c].device].mode # "gone"
      BY <1>6, <2>1, RequestPosted DEF Post
    <2>2. CASE task[client[c].device].mode = "gone"
      BY <1>6, <2>2, <1>w, <1>r, <1>q DEF Post
    <2> QED BY <2>1, <2>2
  <1>7. CASE TakeReply(c)
    <2> DEFINE reading == [client[c] EXCEPT !.mode = "reading", !.reply = "none"]
               sending == [Ready(c) EXCEPT !.mode = "sending", !.remaining = client[c].req.size]
    <2>1. PICK s \in {Disconnected, Ready(c), reading, sending} :
            client' = [client EXCEPT ![c] = s]
      BY <1>7 DEF TakeReply
    <2>2. /\ reading.mode = "reading" /\ reading.reply = "none"
          /\ sending.mode = "sending" /\ sending.reply = "none"
      BY <1>t, <1>r DEF Sessions
    <2> HIDE DEF reading, sending
    <2>3. ~Awaits(c)
      BY <1>7, <1>w DEF TakeReply
    <2> QED BY <1>7, <1>r, <1>q, <2>1, <2>2, <2>3 DEF TakeReply, SessionStays
  <1>8. CASE Forwards(c)
    <2> DEFINE more == [client[c] EXCEPT !.received = Head(client[c].slices), !.slices = Tail(@)]
    <2>1. client[c].mode = "reading" /\ UNCHANGED <<task, inbox>>
      BY <1>8 DEF Forwards, ForwardDown, DownBreaks, SessionStays
    <2>2. PICK s \in {Disconnected, Ready(c), more} : client' = [client EXCEPT ![c] = s]
      BY <1>8 DEF Forwards, ForwardDown, DownBreaks
    <2>3. more.mode = "reading" /\ more.reply = "none"
      BY <2>1, <1>t, <1>n DEF Sessions
    <2> HIDE DEF more
    <2> QED BY <1>w, <1>r, <1>q, <2>1, <2>2, <2>3
  <1>9. CASE SendFrame(c)
    <2>1. client[c].mode = "sending" /\ inbox' = inbox
      BY <1>9 DEF SendFrame
    <2>2. PICK s : /\ client' = [client EXCEPT ![c] = s]
                   /\ s.mode # "reply" /\ s.reply = "none"
      <3>1. PICK n : \/ client' = [client EXCEPT ![c] = Disconnected]
                     \/ client' = [client EXCEPT ![c] = Ready(c)]
                     \/ client' = [client EXCEPT ![c] = [client[c] EXCEPT !.remaining = n]]
        BY <1>9 DEF SendFrame
      <3>2. /\ [client[c] EXCEPT !.remaining = n].mode = "sending"
            /\ [client[c] EXCEPT !.remaining = n].reply = "none"
        BY <1>t, <1>n, <2>1 DEF Sessions
      <3> QED BY <3>1, <3>2, <1>r
    <2>3. \A d \in Devices : task'[d].mode = task[d].mode /\ task'[d].client = task[d].client
      <3>1. task' = task \/ \E q : task' = [task EXCEPT ![client[c].device].slices = q]
        BY <1>9 DEF SendFrame
      <3>2. \A x, q : task' = [task EXCEPT ![x].slices = q] =>
              \A d \in Devices : task'[d].mode = task[d].mode /\ task'[d].client = task[d].client
        <4> SUFFICES ASSUME NEW x, NEW q, task' = [task EXCEPT ![x].slices = q],
                            NEW d \in Devices
                     PROVE  task'[d].mode = task[d].mode /\ task'[d].client = task[d].client
          OBVIOUS
        <4>1. task \in [Devices -> Tasks]
          BY <1>t DEF TypeOK
        <4>2. task'[d] = IF d = x THEN [task[d] EXCEPT !.slices = q] ELSE task[d]
          BY <4>1
        <4> QED BY <4>1, <4>2 DEF Tasks
      <3> QED BY <3>1, <3>2
    <2>4. client'[c] = s /\ client'[c] \in Sessions
      BY <2>2, <1>t DEF TypeOK
    <2> QED BY <1>w, <2>1, <2>2, <2>3, <2>4, SessionQuiet
  <1> QED BY <1>1, <1>2, <1>3, <1>4, <1>5, <1>6, <1>7, <1>8, <1>9 DEF SessionStep

(* Every step of the server leaves each request in one place at most. *)
LEMMA RequestStep ==
  ASSUME RequestInv, GuardInv', [Next]_vars
  PROVE  RequestInv'
  <1>1. Requested'
    <2>1. ASSUME NEW c \in Clients, SessionStep(c) PROVE Requested'
      BY <2>1, SessionRequests
    <2>2. ASSUME NEW d \in Devices, DeviceStep(d) \/ EmuNwaSettles(d) \/ Fails(d)
          PROVE  Requested'
      BY <2>2, DeviceServesRequests
    <2>3. ASSUME NEW d \in Devices, Feed(d) PROVE Requested'
      BY <2>3, FeedRequests
    <2>4. ASSUME UNCHANGED <<client, task, inbox>> PROVE Requested'
      <3>1. RepliesAwaited' /\ \A c \in Clients : Awaits(c)' <=> Awaits(c)
        BY <2>4 DEF RequestInv, RepliesAwaited, Awaits
      <3> QED BY <2>4, <3>1, NothingMoves DEF Holds
    <2>5. CASE ManagerStep \/ TrayStep
      BY <2>4, <2>5 DEF ManagerStep, TrayStep, TakeEvent, ApplyEvent, RightClick, BuildMenu
    <2>6. CASE UNCHANGED vars
      BY <2>4, <2>6 DEF vars
    <2> QED BY <2>1, <2>2, <2>3, <2>5, <2>6 DEF Next
  <1> QED BY <1>1 DEF Requested, RequestInv

(* A session that waits has one ticket and any other session has none. *)
LEMMA OneTicketHolds ==
  ASSUME RequestInv
  PROVE  OneTicket
  <1> USE DEF RequestInv
  <1>1. \A c \in Clients : \A p \in Places :
          Holds(p[1], p[2], c) =>
            /\ Awaits(c) /\ client[c].device = p[1]
            /\ p[1] \in Devices /\ p[2] \in 0..Len(inbox[p[1]]) /\ p = <<p[1], p[2]>>
    BY DEF Places, HeldIsAwaited
  <1>2. ASSUME NEW c \in Clients, Awaits(c)
        PROVE  \E p \in Tickets(c) : Tickets(c) = {p} /\ p[1] = client[c].device
    <2> DEFINE d == client[c].device
    <2>1. d \in Devices
      BY <1>2 DEF AwaitedIsHeld
    <2>2. PICK i \in 0..Len(inbox[d]) : Holds(d, i, c)
      BY <1>2 DEF AwaitedIsHeld
    <2>3. <<d, i>> \in Tickets(c)
      BY <2>1, <2>2 DEF Tickets, Places
    <2>4. \A p \in Tickets(c) : p = <<d, i>>
      BY <1>1, <2>1, <2>2 DEF Tickets, HeldOnce
    <2> QED BY <2>3, <2>4
  <1>3. ASSUME NEW c \in Clients, ~Awaits(c) PROVE Tickets(c) = {}
    BY <1>1, <1>3 DEF Tickets
  <1> QED BY <1>2, <1>3 DEF OneTicket, Awaits

(* RequestInv holds at the start. *)
LEMMA InitialRequests == Init => RequestInv
  <1> SUFFICES ASSUME Init PROVE RequestInv
    OBVIOUS
  <1>1. GuardInv
    BY InitialGuard
  <1>2. \A c \in Clients : client[c].mode = "closed" /\ client[c].reply = "none"
    BY DEF Init, Disconnected
  <1>3. \A c \in Clients, d \in Devices : \A i \in 0..Len(inbox[d]) : ~Holds(d, i, c)
    BY DEF Init, Holds, NotStarted
  <1> QED
    BY <1>1, <1>2, <1>3
    DEF RequestInv, RepliesAwaited, HeldIsAwaited, HeldOnce, AwaitedIsHeld, Awaits

(* RequestInv holds in every reachable state. *)
THEOREM RequestInvariant == Spec => []RequestInv
  <1>1. RequestInv /\ [Next]_vars /\ GuardInv' => RequestInv'
    BY RequestStep
  <1> QED BY InitialRequests, GuardInvariant, <1>1, PTL DEF Spec

(* Device.request (devices/mod.rs) and the device loops: a request that is *)
(* waited for is in one place, and its reply finds the session that asked. *)
THEOREM OneTicketCorrect == Spec => []OneTicket
  <1>1. RequestInv => OneTicket
    BY OneTicketHolds
  <1> QED BY RequestInvariant, <1>1, PTL

-----------------------------------------------------------------------------
(* Transfers.  What is inductive is said from the reply on, before the     *)
(* session has taken it, and of one session and the task of its device.    *)

Downloading(s) == \/ s.mode = "reading"
                  \/ s.mode = "reply" /\ s.reply \in {"BinaryReader", "FileReader"}

Uploading(s) == \/ s.mode = "sending"
                \/ s.mode = "reply" /\ s.reply = "BinaryWriter"

Expected(s) == IF s.mode = "sending" THEN s.remaining ELSE s.req.size

(* Ascending says what each slice adds to the one before it; this says     *)
(* what follows of any two, and that none lies behind the start.           *)
Ordered(from, s, to) ==
  /\ from <= to
  /\ \A i \in 1..Len(s) : from <= s[i] /\ s[i] <= to
  /\ \A i, j \in 1..Len(s) : i <= j => s[i] <= s[j]

(* A task that is not at a transfer has nothing of one, and one that sends *)
(* has nothing to receive.                                                 *)
TaskFits(t) ==
  /\ t.mode \in {"off", "idle", "work", "gone"} => t.moved = 0 /\ t.slices = <<>>
  /\ t.mode = "push" => t.slices = <<>>
  /\ Ordered(t.moved, t.slices, t.size)

(* A session has nothing of a transfer until it has a reply. *)
SessionFresh(s) ==
  s.mode \in {"lock", "mailbox"} \/ (s.mode = "reply" /\ s.reply = "none")
    => s.received = 0 /\ s.slices = <<>>

(* The bytes of session c's download, with task t of its device.           *)
DownloadFits(c, s, t, kind) ==
  LET end == LastSlice(s.slices, s.received) IN
  /\ Ordered(s.received, s.slices, s.req.size)
  /\ \/ t.mode = "gone"
     \/ t.mode = "push" /\ t.client = c /\ end = t.moved /\ t.size = s.req.size
     \/ kind = "lua" /\ t.client # c /\ end = s.req.size

(* The bytes of session c's upload; the task has not stopped pulling.      *)
UploadFits(c, s, t) ==
  \/ t.mode = "gone"
  \/ /\ t.mode = "pull" /\ t.client = c
     /\ LastSlice(t.slices, t.moved) + Expected(s) = t.size

Fits(c, s, t, kind) ==
  /\ Downloading(s) => DownloadFits(c, s, t, kind)
  /\ Uploading(s) /\ Expected(s) > 0 => UploadFits(c, s, t)

TasksFit == \A d \in Devices : TaskFits(task[d])

SessionsFit ==
  \A c \in Clients :
    /\ SessionFresh(client[c])
    /\ Downloading(client[c]) \/ Uploading(client[c]) =>
         /\ client[c].device \in Devices
         /\ Fits(c, client[c], task[client[c].device], Kind[client[c].device])

TransferInv == RequestInv /\ TasksFit /\ SessionsFit

-----------------------------------------------------------------------------
(* Channels of slices. *)

(* A channel holds nothing yet. *)
LEMMA OrderedEmpty ==
  ASSUME NEW to \in Nat
  PROVE  Ordered(0, <<>>, to) /\ LastSlice(<<>>, 0) = 0
  BY EmptySeq DEF Ordered, LastSlice

(* What a channel holds ends between its start and its end. *)
LEMMA LastIsBetween ==
  ASSUME NEW s \in Seq(Nat), NEW from \in Nat, NEW to \in Nat, Ordered(from, s, to)
  PROVE  /\ LastSlice(s, from) \in Nat
         /\ from <= LastSlice(s, from) /\ LastSlice(s, from) <= to
  <1>1. CASE s = <<>>
    BY <1>1 DEF Ordered, LastSlice
  <1>2. CASE s # <<>>
    <2>1. Len(s) \in 1..Len(s)
      BY <1>2, LenProperties, EmptySeq
    <2>2. s[Len(s)] \in Nat
      BY <2>1, ElementOfSeq
    <2> QED BY <1>2, <2>1, <2>2 DEF Ordered, LastSlice
  <1> QED BY <1>1, <1>2

(* A slice that ends at n is added. *)
LEMMA OrderedAppend ==
  ASSUME NEW s \in Seq(Nat), NEW from \in Nat, NEW to \in Nat, NEW n \in Nat,
         Ordered(from, s, to), LastSlice(s, from) <= n, n <= to
  PROVE  /\ Append(s, n) \in Seq(Nat)
         /\ Ordered(from, Append(s, n), to)
         /\ LastSlice(Append(s, n), from) = n
  <1> DEFINE q == Append(s, n)
  <1>1. /\ q \in Seq(Nat) /\ q # <<>>
        /\ Len(s) \in Nat /\ Len(q) = Len(s) + 1
        /\ q[Len(s) + 1] = n
        /\ \A i \in 1..Len(s) : q[i] = s[i]
    BY AppendProperties, LenProperties, EmptySeq
  <1>2. \A i \in 1..Len(s) : s[i] \in Nat
    BY ElementOfSeq
  <1> HIDE DEF q
  <1>3. LastSlice(q, from) = n
    BY <1>1 DEF LastSlice
  <1>4. from <= n
    BY LastIsBetween
  <1>5. \A i \in 1..Len(s) : s[i] <= n
    <2> SUFFICES ASSUME NEW i \in 1..Len(s) PROVE s[i] <= n
      OBVIOUS
    <2>1. Len(s) \in 1..Len(s) /\ i <= Len(s) /\ s # <<>>
      BY <1>1, EmptySeq
    <2>2. s[i] <= s[Len(s)] /\ LastSlice(s, from) = s[Len(s)]
      BY <2>1 DEF Ordered, LastSlice
    <2> QED BY <2>1, <2>2, <1>2
  <1>6. \A i \in 1..Len(q) : i \in 1..Len(s) \/ i = Len(s) + 1
    BY <1>1
  <1>7. \A i \in 1..Len(q) : from <= q[i] /\ q[i] <= to
    BY <1>1, <1>4, <1>6 DEF Ordered
  <1>8. \A i, j \in 1..Len(q) : i <= j => q[i] <= q[j]
    <2> SUFFICES ASSUME NEW i \in 1..Len(q), NEW j \in 1..Len(q), i <= j
                 PROVE  q[i] <= q[j]
      OBVIOUS
    <2>1. CASE j \in 1..Len(s)
      <3>1. i \in 1..Len(s)
        BY <2>1, <1>1
      <3> QED BY <2>1, <3>1, <1>1 DEF Ordered
    <2>2. CASE j = Len(s) + 1
      <3>1. q[j] = n
        BY <2>2, <1>1
      <3>2. CASE i \in 1..Len(s)
        <4>1. q[i] = s[i] /\ s[i] <= n
          BY <3>2, <1>1, <1>5
        <4> QED BY <3>1, <4>1
      <3>3. CASE i = Len(s) + 1
        BY <2>2, <3>1, <3>3
      <3> QED BY <3>2, <3>3, <1>6
    <2> QED BY <2>1, <2>2, <1>6
  <1>9. Ordered(from, q, to)
    BY <1>7, <1>8 DEF Ordered
  <1> QED BY <1>1, <1>3, <1>9 DEF q

(* The first slice is taken. *)
LEMMA OrderedTail ==
  ASSUME NEW s \in Seq(Nat), NEW from \in Nat, NEW to \in Nat,
         Ordered(from, s, to), s # <<>>
  PROVE  /\ Head(s) \in Nat /\ Tail(s) \in Seq(Nat)
         /\ from <= Head(s) /\ Head(s) <= to
         /\ Ordered(Head(s), Tail(s), to)
         /\ LastSlice(Tail(s), Head(s)) = LastSlice(s, from)
  <1> DEFINE q == Tail(s)
  <1>1. /\ q \in Seq(Nat) /\ Head(s) = s[1] /\ Head(s) \in Nat
        /\ Len(s) \in Nat /\ Len(s) > 0 /\ Len(q) = Len(s) - 1
        /\ \A i \in 1..Len(q) : q[i] = s[i + 1]
    BY HeadTailProperties, LenProperties, EmptySeq
  <1>2. /\ 1 \in 1..Len(s)
        /\ \A i \in 1..Len(q) : i + 1 \in 1..Len(s) /\ 1 <= i + 1
    BY <1>1
  <1>3. q = <<>> <=> Len(q) = 0
    BY <1>1, EmptySeq
  <1> HIDE DEF q
  <1>4. \A i \in 1..Len(q) : Head(s) <= q[i] /\ q[i] <= to
    BY <1>1, <1>2 DEF Ordered
  <1>5. \A i, j \in 1..Len(q) : i <= j => q[i] <= q[j]
    <2> SUFFICES ASSUME NEW i \in 1..Len(q), NEW j \in 1..Len(q), i <= j
                 PROVE  s[i + 1] <= s[j + 1]
      BY <1>1
    <2>1. i + 1 <= j + 1
      BY <1>1
    <2> QED BY <2>1, <1>2 DEF Ordered
  <1>6. from <= Head(s) /\ Head(s) <= to
    BY <1>1, <1>2 DEF Ordered
  <1>7. LastSlice(q, Head(s)) = LastSlice(s, from)
    <2>1. CASE q = <<>>
      <3>1. Len(s) = 1
        BY <2>1, <1>1, <1>3
      <3> QED BY <2>1, <3>1, <1>1 DEF LastSlice
    <2>2. CASE q # <<>>
      <3>1. Len(q) \in 1..Len(q) /\ Len(q) + 1 = Len(s)
        BY <2>2, <1>1, <1>3
      <3>2. q[Len(q)] = s[Len(s)]
        BY <3>1, <1>1
      <3> QED BY <2>2, <3>2 DEF LastSlice
    <2> QED BY <2>1, <2>2
  <1>8. Ordered(Head(s), q, to)
    BY <1>4, <1>5, <1>6 DEF Ordered
  <1> QED BY <1>1, <1>6, <1>7, <1>8 DEF q

(* What is ordered ascends. *)
LEMMA OrderedAscends ==
  ASSUME NEW s \in Seq(Nat), NEW from, NEW to, Ordered(from, s, to)
  PROVE  Ascending(from, s, to)
  <1>1. Len(s) \in Nat
    BY LenProperties
  <1>2. ASSUME NEW i \in 1..Len(s), i # 1
        PROVE  s[i - 1] <= s[i]
    <2>1. i - 1 \in 1..Len(s) /\ i - 1 <= i
      BY <1>1, <1>2
    <2> QED BY <2>1 DEF Ordered
  <1> QED BY <1>2 DEF Ordered, Ascending

-----------------------------------------------------------------------------
(* Steps of a transfer. *)

(* A session and its task are typed. *)
LEMMA TransferTypes ==
  ASSUME TypeOK
  PROVE  /\ \A c \in Clients : /\ client[c] \in Sessions
                               /\ client[c].slices \in Seq(Nat)
                               /\ client[c].received \in Nat
                               /\ client[c].remaining \in Nat
                               /\ client[c].req.size \in Nat
         /\ \A d \in Devices : /\ task[d] \in Tasks
                               /\ task[d].slices \in Seq(Nat)
                               /\ task[d].moved \in Nat
                               /\ task[d].size \in Nat
  BY RequestTypes DEF TypeOK, Sessions, Tasks

(* A task that is not at this session's transfer may do anything but begin *)
(* something for it.                                                       *)
LEMMA OtherFits ==
  ASSUME NEW c, NEW s, NEW t, NEW u, NEW k, Fits(c, s, t, k),
         t.mode # "gone",
         t.mode \in {"push", "pull"} => t.client # c,
         u.client # c
  PROVE  Fits(c, s, u, k)
  BY DEF Fits, DownloadFits, UploadFits

(* Once the task has ended nothing more is promised. *)
LEMMA GoneFits ==
  ASSUME NEW c, NEW s, NEW t, NEW u, NEW k, Fits(c, s, t, k), u.mode = "gone"
  PROVE  Fits(c, s, u, k)
  BY DEF Fits, DownloadFits, UploadFits

(* A session does something of its own. *)
LEMMA SessionAlone ==
  ASSUME TransferInv, NEW c \in Clients, NEW s,
         client' = [client EXCEPT ![c] = s], task' = task,
         SessionFresh(s),
         Downloading(s) \/ Uploading(s) =>
           s.device \in Devices /\ Fits(c, s, task[s.device], Kind[s.device])
  PROVE  TasksFit' /\ SessionsFit'
  <1>1. /\ client'[c] = s
        /\ \A x \in Clients \ {c} : client'[x] = client[x]
    BY DEF TransferInv, RequestInv, GuardInv, TypeOK
  <1>2. SessionsFit'
    BY <1>1 DEF TransferInv, SessionsFit
  <1> QED BY <1>2 DEF TransferInv, TasksFit

(* One task takes a step, and its sessions go along with it.               *)
LEMMA TaskAlone ==
  ASSUME TransferInv, NEW d \in Devices, NEW t, TaskFits(t),
         task' = [task EXCEPT ![d] = t],
         \A c \in Clients :
           /\ client'[c].device = client[c].device
           /\ client[c].device # d => client'[c] = client[c]
           /\ SessionFresh(client'[c])
           /\ client[c].device = d /\ (Downloading(client'[c]) \/ Uploading(client'[c]))
                => Fits(c, client'[c], t, Kind[d])
  PROVE  TasksFit' /\ SessionsFit'
  <1>1. /\ task'[d] = t
        /\ \A e \in Devices \ {d} : task'[e] = task[e]
    BY DEF TransferInv, RequestInv, GuardInv, TypeOK
  <1>2. TasksFit'
    BY <1>1 DEF TransferInv, TasksFit
  <1>3. SessionsFit'
    <2> SUFFICES ASSUME NEW c \in Clients
                 PROVE  /\ SessionFresh(client'[c])
                        /\ Downloading(client'[c]) \/ Uploading(client'[c]) =>
                             /\ client'[c].device \in Devices
                             /\ Fits(c, client'[c], task'[client'[c].device],
                                     Kind[client'[c].device])
      BY DEF SessionsFit
    <2>1. CASE client[c].device = d
      BY <2>1, <1>1
    <2>2. CASE client[c].device # d
      BY <2>2, <1>1 DEF TransferInv, SessionsFit
    <2> QED BY <2>1, <2>2
  <1> QED BY <1>2, <1>3

(* One task and one of its sessions take a step. *)
LEMMA TaskAndSession ==
  ASSUME TransferInv, NEW d \in Devices, NEW t, TaskFits(t),
         task' = [task EXCEPT ![d] = t],
         NEW c \in Clients, client[c].device = d, NEW s, s.device = d,
         client'[c] = s, \A x \in Clients : x # c => client'[x] = client[x],
         SessionFresh(s), Downloading(s) \/ Uploading(s) => Fits(c, s, t, Kind[d]),
         \A x \in Clients :
           x # c /\ client[x].device = d /\ (Downloading(client[x]) \/ Uploading(client[x]))
             => Fits(x, client[x], t, Kind[d])
  PROVE  TasksFit' /\ SessionsFit'
  <1>1. ASSUME NEW x \in Clients
        PROVE  /\ client'[x].device = client[x].device
               /\ client[x].device # d => client'[x] = client[x]
               /\ SessionFresh(client'[x])
               /\ client[x].device = d /\ (Downloading(client'[x]) \/ Uploading(client'[x]))
                    => Fits(x, client'[x], t, Kind[d])
    <2>1. CASE x = c
      BY <2>1
    <2>2. CASE x # c
      BY <2>2 DEF TransferInv, SessionsFit
    <2> QED BY <2>1, <2>2
  <1> QED BY <1>1, TaskAlone

(* A task goes back to its loop, or takes a request, or settles: no        *)
(* session counts on it any more.                                          *)
LEMMA TaskLetsGo ==
  ASSUME TransferInv, NEW d \in Devices, NEW t, TaskFits(t),
         task' = [task EXCEPT ![d] = t], client' = client,
         task[d].mode # "gone",
         \A c \in Clients :
           client[c].device = d /\ (Downloading(client[c]) \/ Uploading(client[c])) =>
             /\ t.client # c
             /\ task[d].mode \in {"push", "pull"} => task[d].client # c
  PROVE  TasksFit' /\ SessionsFit'
  <1>1. ASSUME NEW c \in Clients, client[c].device = d,
               Downloading(client[c]) \/ Uploading(client[c])
        PROVE  Fits(c, client[c], t, Kind[d])
    <2>1. Fits(c, client[c], task[d], Kind[d])
      BY <1>1 DEF TransferInv, SessionsFit
    <2> QED BY <1>1, <2>1, OtherFits
  <1>2. \A c \in Clients : SessionFresh(client[c])
    BY DEF TransferInv, SessionsFit
  <1> QED BY <1>1, <1>2, TaskAlone

(* A task that has nothing of a transfer fits. *)
LEMMA IdleFits ==
  ASSUME NEW d, NEW m \in TaskModes
  PROVE  TaskFits(InState(d, m)) /\ InState(d, m).client = NoClient /\ InState(d, m).mode = m
  BY OrderedEmpty DEF TaskFits, InState

(* A task ends, and every request it held is dropped. *)
LEMMA EndedTransfers ==
  ASSUME TransferInv, NEW d \in Devices, TaskEnds(d)
  PROVE  TasksFit' /\ SessionsFit'
  <1> DEFINE t == InState(d, "gone")
  <1>1. TaskFits(t) /\ t.mode = "gone"
    BY IdleFits DEF TaskModes
  <1>2. task' = [task EXCEPT ![d] = t]
    BY DEF TaskEnds
  <1> HIDE DEF t
  <1>3. \A c \in Clients : c \in Waiters(d) => Awaits(c) /\ client[c].device = d
    BY RequestsDropped DEF TransferInv
  <1>4. ASSUME NEW c \in Clients
        PROVE  /\ client'[c].device = client[c].device
               /\ client[c].device # d => client'[c] = client[c]
               /\ SessionFresh(client'[c])
               /\ client[c].device = d /\ (Downloading(client'[c]) \/ Uploading(client'[c]))
                    => Fits(c, client'[c], t, Kind[d])
    <2>1. SessionFresh(client[c])
      BY DEF TransferInv, SessionsFit
    <2>2. CASE c \in Waiters(d)
      <3>1. client' [c] = [client[c] EXCEPT !.reply = "Dropped"] /\ client[c] \in Sessions
        BY <2>2 DEF TaskEnds, TransferInv, RequestInv, GuardInv, TypeOK
      <3>2. /\ client'[c].device = client[c].device
            /\ client'[c].mode = "reply" /\ client'[c].reply = "Dropped"
        BY <2>2, <3>1, <1>3 DEF Awaits, Sessions
      <3> QED BY <2>2, <3>2, <1>3 DEF SessionFresh, Downloading, Uploading
    <2>3. CASE c \notin Waiters(d)
      <3>1. client'[c] = client[c]
        BY <2>3 DEF TaskEnds
      <3>2. client[c].device = d /\ (Downloading(client[c]) \/ Uploading(client[c]))
              => Fits(c, client[c], task[d], Kind[d])
        BY DEF TransferInv, SessionsFit
      <3> QED BY <3>1, <3>2, <2>1, <1>1, GoneFits
    <2> QED BY <2>2, <2>3
  <1> QED BY <1>1, <1>2, <1>4, TaskAlone

(* A request is answered: with data, the transfer begins with nothing of   *)
(* it anywhere but what was asked for; without, nothing begins.            *)
LEMMA AnsweredTransfers ==
  ASSUME TransferInv, NEW d \in Devices, task[d].mode = "work",
         NEW r \in Replies \ {"none"},
         client' = [client EXCEPT ![task[d].client].reply = r],
         inbox' = inbox,
         NEW t, task' = [task EXCEPT ![d] = t],
         \/ r \in {"Strings", "Empty"} /\ t = InState(d, "idle")
         \/ /\ r \in {"BinaryReader", "FileReader", "BinaryWriter"}
            /\ t = [task[d] EXCEPT
                     !.mode = IF r = "BinaryWriter" THEN "pull" ELSE "push",
                     !.size = client[task[d].client].req.size]
  PROVE  TasksFit' /\ SessionsFit'
  <1> DEFINE c == task[d].client
  <1>t. TypeOK
    BY DEF TransferInv, RequestInv, GuardInv
  <1>u. /\ task[d] \in Tasks /\ task[d].slices = <<>> /\ task[d].moved = 0
    BY <1>t, TransferTypes DEF TransferInv, TasksFit, TaskFits
  <1>1. t.mode # "work"
    BY <1>u, IdleFits DEF TaskModes, Tasks
  <1>2. task'[d] = t /\ \A e \in Devices \ {d} : task'[e] = task[e]
    BY <1>t DEF TypeOK
  <1>3. c \in Clients /\ Awaits(c) /\ client[c].device = d
    BY <1>1, <1>2, RequestAnswered DEF TransferInv
  <1> HIDE DEF c
  <1>4. /\ client'[c] = [client[c] EXCEPT !.reply = r]
        /\ \A x \in Clients \ {c} : client'[x] = client[x]
    BY <1>3, <1>t DEF TypeOK, c
  <1>5. /\ client[c] \in Sessions /\ client[c].mode = "reply"
        /\ client[c].received = 0 /\ client[c].slices = <<>>
        /\ client[c].req.size \in Nat
    BY <1>t, <1>3, TransferTypes DEF TransferInv, SessionsFit, SessionFresh, Awaits
  <1>6. /\ client'[c].mode = "reply" /\ client'[c].reply = r /\ client'[c].device = d
        /\ client'[c].received = 0 /\ client'[c].slices = <<>>
        /\ client'[c].req = client[c].req
    BY <1>3, <1>4, <1>5 DEF Sessions
  <1>7. TaskFits(t)
    <2>1. CASE t = InState(d, "idle")
      BY <2>1, IdleFits DEF TaskModes
    <2>2. CASE t # InState(d, "idle")
      <3>1. /\ t.moved = 0 /\ t.slices = <<>> /\ t.size = client[c].req.size
            /\ t.mode \in {"pull", "push"}
        BY <2>2, <1>u DEF Tasks, c
      <3>2. Ordered(t.moved, t.slices, t.size)
        BY <3>1, <1>5, OrderedEmpty
      <3> QED BY <3>1, <3>2 DEF TaskFits
    <2> QED BY <2>1, <2>2
  <1>8. Downloading(client'[c]) \/ Uploading(client'[c]) => Fits(c, client'[c], t, Kind[d])
    <2>1. CASE r \in {"BinaryReader", "FileReader"}
      <3>1. t.mode = "push" /\ t.client = c /\ t.moved = 0 /\ t.size = client[c].req.size
        BY <2>1, <1>u DEF Tasks, c
      <3>2. Ordered(0, <<>>, client[c].req.size) /\ LastSlice(<<>>, 0) = 0
        BY <1>5, OrderedEmpty
      <3>3. ~Uploading(client'[c])
        BY <2>1, <1>6 DEF Uploading
      <3> QED BY <3>1, <3>2, <3>3, <1>6 DEF Fits, DownloadFits
    <2>2. CASE r = "BinaryWriter"
      <3>1. /\ t.mode = "pull" /\ t.client = c /\ t.moved = 0 /\ t.slices = <<>>
            /\ t.size = client[c].req.size
        BY <2>2, <1>u DEF Tasks, c
      <3>2. LastSlice(t.slices, t.moved) = 0 /\ Expected(client'[c]) = client[c].req.size
        BY <3>1, <1>6, OrderedEmpty, <1>5 DEF Expected
      <3>3. ~Downloading(client'[c])
        BY <2>2, <1>6 DEF Downloading
      <3> QED BY <3>1, <3>2, <3>3, <1>5 DEF Fits, UploadFits
    <2>3. CASE r \notin {"BinaryReader", "FileReader", "BinaryWriter"}
      BY <2>3, <1>6 DEF Downloading, Uploading
    <2> QED BY <2>1, <2>2, <2>3
  <1>9. t.client \in {c, NoClient}
    <2>1. CASE t = InState(d, "idle")
      BY <2>1 DEF InState
    <2>2. CASE t # InState(d, "idle")
      BY <2>2, <1>u DEF Tasks, c
    <2> QED BY <2>1, <2>2
  <1>10. ASSUME NEW x \in Clients
         PROVE  /\ client'[x].device = client[x].device
                /\ client[x].device # d => client'[x] = client[x]
                /\ SessionFresh(client'[x])
                /\ client[x].device = d /\ (Downloading(client'[x]) \/ Uploading(client'[x]))
                     => Fits(x, client'[x], t, Kind[d])
    <2>1. CASE x = c
      <3>1. SessionFresh(client'[c])
        BY <1>6 DEF SessionFresh
      <3> QED BY <2>1, <3>1, <1>3, <1>6, <1>8
    <2>2. CASE x # c
      <3>1. client'[x] = client[x] /\ SessionFresh(client[x])
        BY <2>2, <1>4 DEF TransferInv, SessionsFit
      <3>2. client[x].device = d /\ (Downloading(client[x]) \/ Uploading(client[x]))
              => Fits(x, client[x], task[d], Kind[d])
        BY DEF TransferInv, SessionsFit
      <3>3. t.client # x
        BY <2>2, <1>9, ServerAssumption
      <3> QED BY <3>1, <3>2, <3>3, OtherFits
    <2> QED BY <2>1, <2>2
  <1> QED BY <1>7, <1>10, TaskAlone

(* Device tasks: whatever a task does with the bytes of a transfer, it     *)
(* does with those of its own session, and it stops for no reason but that *)
(* there are none left to come.                                            *)
LEMMA DeviceTransfers ==
  ASSUME TransferInv, NEW d \in Devices, DeviceStep(d) \/ EmuNwaSettles(d) \/ Fails(d)
  PROVE  TasksFit' /\ SessionsFit'
  <1> DEFINE c == task[d].client
  <1>t. /\ TypeOK /\ task \in [Devices -> Tasks] /\ task[d] \in Tasks
        /\ client \in [Clients -> Sessions]
        /\ task[d].slices \in Seq(Nat) /\ task[d].moved \in Nat /\ task[d].size \in Nat
    BY TransferTypes DEF TransferInv, RequestInv, GuardInv, TypeOK
  <1>f. TaskFits(task[d])
    BY DEF TransferInv, TasksFit
  <1>i. /\ TaskFits(InState(d, "idle")) /\ InState(d, "idle").client = NoClient
        /\ \A x \in Clients : x # NoClient
    BY IdleFits, ServerAssumption DEF TaskModes
  <1>s. \A x \in Clients : /\ SessionFresh(client[x])
                           /\ Awaits(x) => ~Downloading(client[x]) /\ ~Uploading(client[x])
    BY DEF TransferInv, SessionsFit, Awaits, Downloading, Uploading
  <1>x. \A x \in Clients :
          client[x].device = d /\ (Downloading(client[x]) \/ Uploading(client[x]))
            => Fits(x, client[x], task[d], Kind[d])
    BY DEF TransferInv, SessionsFit
  <1> HIDE DEF c
  <1>1. CASE TakeRequest(d)
    <2> DEFINE y == Head(inbox[d])
               t == [task[d] EXCEPT !.mode = "work", !.client = y]
    <2>1. /\ task[d].mode = "idle" /\ inbox[d] # <<>> /\ y \in Clients
          /\ task' = [task EXCEPT ![d] = t] /\ client' = client
      BY <1>1 DEF TakeRequest
    <2>2. Awaits(y)
      <3>1. 1 \in 0..Len(inbox[d]) /\ inbox[d][1] = y
        BY <2>1, PlaceTypes, HeadTailProperties, EmptySeq, <1>t
      <3>2. Holds(d, 1, y)
        BY <3>1 DEF Holds
      <3> QED BY <2>1, <3>1, <3>2 DEF TransferInv, RequestInv, HeldIsAwaited
    <2> HIDE DEF y
    <2>3. t.client = y /\ TaskFits(t)
      BY <2>1, <1>t, <1>f DEF Tasks, TaskFits
    <2> HIDE DEF t
    <2> QED BY <2>1, <2>2, <2>3, <1>s, TaskLetsGo
  <1>2. CASE TakeClose(d)
    BY <1>2, EndedTransfers DEF TakeClose
  <1>3. CASE Answer(d)
    BY <1>3, AnsweredTransfers DEF Answer, Replies
  <1>4. CASE Offer(d)
    <2> DEFINE r == ReplyTo(d, client[task[d].client].req.cmd)
               t == [task[d] EXCEPT !.mode = IF r = "BinaryWriter" THEN "pull" ELSE "push",
                                    !.size = client[task[d].client].req.size]
    <2>1. /\ task[d].mode = "work" /\ inbox' = inbox
          /\ r \in {"BinaryReader", "FileReader", "BinaryWriter"}
          /\ client' = [client EXCEPT ![task[d].client].reply = r]
          /\ task' = [task EXCEPT ![d] = t]
      BY <1>4 DEF Offer
    <2> HIDE DEF r
    <2>2. r \in Replies \ {"none"}
      BY <2>1 DEF Replies
    <2> QED BY <2>1, <2>2, AnsweredTransfers
  <1>5. CASE PushChunk(d)
    <2>1. PICK n \in (task[d].moved + 1)..task[d].size :
            /\ task' = [task EXCEPT ![d].moved = n]
            /\ IF SessionHoldsReceiver(d)
               THEN client' = [client EXCEPT ![c].slices = Append(@, n)]
               ELSE client' = client
      BY <1>5 DEF PushChunk, c
    <2> DEFINE t == [task[d] EXCEPT !.moved = n]
    <2>2. /\ n \in Nat /\ task[d].moved <= n /\ n <= task[d].size
          /\ task[d].mode = "push" /\ task[d].slices = <<>> /\ Kind[d] # "lua"
      BY <2>1, <1>5, <1>t, <1>f DEF PushChunk, TaskFits
    <2>3. /\ task' = [task EXCEPT ![d] = t]
          /\ t.mode = "push" /\ t.client = c /\ t.moved = n
          /\ t.size = task[d].size /\ t.slices = <<>>
      BY <2>1, <2>2, <1>t DEF Tasks, c
    <2> HIDE DEF t
    <2>4. TaskFits(t)
      <3>1. Ordered(n, <<>>, task[d].size)
        BY <2>2, EmptySeq DEF Ordered
      <3> QED BY <2>3, <3>1 DEF TaskFits
    <2>5. ASSUME NEW x \in Clients, x # c
          PROVE  client'[x] = client[x]
      BY <2>1, <2>5, <1>t
    <2>6. ASSUME NEW x \in Clients, x # c,
                 client[x].device = d, Downloading(client[x]) \/ Uploading(client[x])
          PROVE  Fits(x, client[x], t, Kind[d])
      BY <2>2, <2>3, <2>6, <1>x, OtherFits DEF c
    <2>7. CASE ~SessionHoldsReceiver(d)
      <3>1. ASSUME c \in Clients, client[c].device = d,
                   Downloading(client[c]) \/ Uploading(client[c])
            PROVE  Fits(c, client[c], t, Kind[d])
        <4>1. ~Downloading(client[c])
          BY <2>7, <3>1 DEF SessionHoldsReceiver, Downloading, c
        <4>2. ~(Expected(client[c]) > 0)
          BY <3>1, <4>1, <1>x, <2>2 DEF Fits, UploadFits
        <4> QED BY <4>1, <4>2 DEF Fits
      <3>2. client' = client
        BY <2>1, <2>7
      <3> QED BY <2>3, <2>4, <2>6, <3>1, <3>2, <1>s, TaskAlone
    <2>8. CASE SessionHoldsReceiver(d)
      <3>1. /\ c \in Clients /\ client[c].device = d /\ Downloading(client[c])
            /\ client[c] \in Sessions
            /\ client[c].slices \in Seq(Nat) /\ client[c].received \in Nat
            /\ client[c].req.size \in Nat
        BY <2>8, <1>t, TransferTypes DEF SessionHoldsReceiver, Downloading, c
      <3>2. /\ Ordered(client[c].received, client[c].slices, client[c].req.size)
            /\ LastSlice(client[c].slices, client[c].received) = task[d].moved
            /\ task[d].size = client[c].req.size
        BY <3>1, <1>x, <2>2 DEF Fits, DownloadFits, c
      <3> DEFINE q == Append(client[c].slices, n)
      <3>3. /\ client'[c] = [client[c] EXCEPT !.slices = q]
        BY <2>1, <2>8, <3>1, <1>t
      <3>4. Ordered(client[c].received, q, client[c].req.size)
            /\ LastSlice(q, client[c].received) = n
        BY <3>1, <3>2, <2>2, OrderedAppend
      <3> HIDE DEF q
      <3>5. /\ client'[c].device = d /\ client'[c].mode = client[c].mode
            /\ client'[c].reply = client[c].reply /\ client'[c].req = client[c].req
            /\ client'[c].received = client[c].received /\ client'[c].slices = q
        BY <3>1, <3>3 DEF Sessions
      <3>6. /\ SessionFresh(client'[c]) /\ ~Uploading(client'[c])
        BY <3>1, <3>5 DEF SessionFresh, Uploading, Downloading
      <3>7. Fits(c, client'[c], t, Kind[d])
        BY <2>3, <3>2, <3>4, <3>5, <3>6 DEF Fits, DownloadFits
      <3> QED BY <2>3, <2>4, <2>5, <2>6, <3>1, <3>5, <3>6, <3>7, TaskAndSession
    <2> QED BY <2>7, <2>8
  <1>6. CASE PushEnds(d)
    <2>1. /\ task[d].mode = "push" /\ Kind[d] # "lua" /\ ~SessionHoldsReceiver(d)
          /\ task' = [task EXCEPT ![d] = InState(d, "idle")] /\ client' = client
      BY <1>6 DEF PushEnds
    <2>2. ASSUME NEW x \in Clients, client[x].device = d, task[d].client = x
          PROVE  ~Downloading(client[x])
      BY <2>1, <2>2 DEF SessionHoldsReceiver, Downloading
    <2>3. ASSUME NEW x \in Clients, client[x].device = d,
                 Downloading(client[x]) \/ Uploading(client[x])
          PROVE  Fits(x, client[x], InState(d, "idle"), Kind[d])
      <3>1. Fits(x, client[x], task[d], Kind[d])
        BY <2>3, <1>x
      <3>2. ~Downloading(client[x])
        BY <2>1, <2>2, <2>3, <3>1 DEF Fits, DownloadFits
      <3>3. ~(Expected(client[x]) > 0)
        BY <2>1, <2>3, <3>1, <3>2 DEF Fits, UploadFits
      <3> QED BY <3>2, <3>3 DEF Fits
    <2> QED BY <2>1, <2>3, <1>i, <1>s, TaskAlone
  <1>7. CASE LuaPush(d)
    <2>1. CASE SessionHoldsReceiver(d)
      <3>1. /\ task[d].mode = "push" /\ Kind[d] = "lua"
            /\ task' = [task EXCEPT ![d] = InState(d, "idle")]
            /\ client' = [client EXCEPT ![c].slices = Append(@, task[d].size)]
        BY <1>7, <2>1 DEF LuaPush, c
      <3>2. /\ c \in Clients /\ client[c].device = d /\ Downloading(client[c])
            /\ client[c] \in Sessions
            /\ client[c].slices \in Seq(Nat) /\ client[c].received \in Nat
            /\ client[c].req.size \in Nat
        BY <2>1, <1>t, TransferTypes DEF SessionHoldsReceiver, Downloading, c
      <3>3. /\ Ordered(client[c].received, client[c].slices, client[c].req.size)
            /\ LastSlice(client[c].slices, client[c].received) = task[d].moved
            /\ task[d].size = client[c].req.size
        BY <3>1, <3>2, <1>x DEF Fits, DownloadFits, c
      <3>4. task[d].moved <= task[d].size
        BY <1>f DEF TaskFits, Ordered
      <3> DEFINE q == Append(client[c].slices, task[d].size)
      <3>5. client'[c] = [client[c] EXCEPT !.slices = q]
        BY <3>1, <3>2, <1>t
      <3>6. Ordered(client[c].received, q, client[c].req.size)
            /\ LastSlice(q, client[c].received) = task[d].size
        BY <3>2, <3>3, <3>4, <1>t, OrderedAppend
      <3> HIDE DEF q
      <3>7. /\ client'[c].device = d /\ client'[c].mode = client[c].mode
            /\ client'[c].reply = client[c].reply /\ client'[c].req = client[c].req
            /\ client'[c].received = client[c].received /\ client'[c].slices = q
        BY <3>2, <3>5 DEF Sessions
      <3>8. SessionFresh(client'[c]) /\ ~Uploading(client'[c])
        BY <3>2, <3>7 DEF SessionFresh, Uploading, Downloading
      <3>9. Fits(c, client'[c], InState(d, "idle"), Kind[d])
        BY <3>1, <3>2, <3>3, <3>6, <3>7, <3>8, <1>i DEF Fits, DownloadFits
      <3>10. ASSUME NEW x \in Clients, x # c
             PROVE  client'[x] = client[x]
        BY <3>1, <3>10, <1>t
      <3>11. ASSUME NEW x \in Clients, x # c,
                    client[x].device = d, Downloading(client[x]) \/ Uploading(client[x])
             PROVE  Fits(x, client[x], InState(d, "idle"), Kind[d])
        BY <3>1, <3>11, <1>x, <1>i, OtherFits DEF c
      <3> QED BY <3>1, <3>2, <3>7, <3>8, <3>9, <3>10, <3>11, <1>i, TaskAndSession
    <2>2. CASE ~SessionHoldsReceiver(d)
      BY <1>7, <2>2, EndedTransfers DEF LuaPush
    <2> QED BY <2>1, <2>2
  <1>8. CASE PullChunk(d)
    <2> DEFINE t == [task[d] EXCEPT !.moved = Head(task[d].slices), !.slices = Tail(task[d].slices)]
    <2>1. /\ task[d].mode = "pull" /\ task[d].slices # <<>> /\ client' = client
          /\ task' = [task EXCEPT ![d] = t]
      BY <1>8 DEF PullChunk
    <2>2. Ordered(task[d].moved, task[d].slices, task[d].size)
      BY <1>f DEF TaskFits
    <2>3. /\ Ordered(Head(task[d].slices), Tail(task[d].slices), task[d].size)
          /\ LastSlice(Tail(task[d].slices), Head(task[d].slices))
               = LastSlice(task[d].slices, task[d].moved)
      BY <2>1, <2>2, <1>t, OrderedTail
    <2>4. /\ t.mode = "pull" /\ t.client = task[d].client /\ t.size = task[d].size
          /\ t.moved = Head(task[d].slices) /\ t.slices = Tail(task[d].slices)
      BY <2>1, <1>t DEF Tasks
    <2> HIDE DEF t
    <2>5. TaskFits(t)
      BY <2>3, <2>4 DEF TaskFits
    <2>6. ASSUME NEW x \in Clients, client[x].device = d,
                 Downloading(client[x]) \/ Uploading(client[x])
          PROVE  Fits(x, client[x], t, Kind[d])
      BY <2>1, <2>3, <2>4, <2>6, <1>x DEF Fits, DownloadFits, UploadFits
    <2> QED BY <2>1, <2>5, <2>6, <1>s, TaskAlone
  <1>p. ASSUME task[d].mode = "pull", Complete(d) \/ Abandoned(d),
               NEW x \in Clients, client[x].device = d, task[d].client = x,
               Downloading(client[x]) \/ Uploading(client[x])
        PROVE  /\ ~(Uploading(client[x]) /\ Expected(client[x]) > 0)
    <2> SUFFICES ASSUME Uploading(client[x]), Expected(client[x]) > 0 PROVE FALSE
      OBVIOUS
    <2>1. LastSlice(task[d].slices, task[d].moved) + Expected(client[x]) = task[d].size
      BY <1>p, <1>x DEF Fits, UploadFits
    <2>2. Ordered(task[d].moved, task[d].slices, task[d].size)
      BY <1>f DEF TaskFits
    <2>3. /\ LastSlice(task[d].slices, task[d].moved) \in Nat
          /\ task[d].moved <= LastSlice(task[d].slices, task[d].moved)
      BY <2>2, <1>t, LastIsBetween
    <2>4. CASE Complete(d)
      <3>1. Expected(client[x]) \in Nat
        BY <1>t, TransferTypes DEF Expected
      <3> QED BY <2>1, <2>3, <2>4, <3>1, <1>t DEF Complete
    <2>5. CASE Abandoned(d)
      BY <1>p, <2>5 DEF Abandoned, SessionHoldsSender, Uploading
    <2> QED BY <1>p, <2>4, <2>5
  <1>e. ASSUME task[d].mode = "pull", Complete(d) \/ Abandoned(d), client' = client,
               NEW t, TaskFits(t), task' = [task EXCEPT ![d] = t],
               t.client = NoClient \/ (t.mode = "settle" /\ Kind[d] # "lua")
        PROVE  TasksFit' /\ SessionsFit'
    <2>1. ASSUME NEW x \in Clients, client[x].device = d,
                 Downloading(client[x]) \/ Uploading(client[x])
          PROVE  Fits(x, client[x], t, Kind[d])
      <3>1. Fits(x, client[x], task[d], Kind[d])
        BY <2>1, <1>x
      <3>2. ~(Uploading(client[x]) /\ Expected(client[x]) > 0)
        BY <1>e, <1>p, <2>1, <3>1 DEF Fits, UploadFits
      <3>3. Downloading(client[x]) => DownloadFits(x, client[x], t, Kind[d])
        BY <1>e, <1>i, <3>1 DEF Fits, DownloadFits
      <3> QED BY <3>2, <3>3 DEF Fits
    <2> QED BY <1>e, <2>1, <1>s, TaskAlone
  <1>9. CASE PullEnds(d)
    <2> DEFINE t == InState(d, "idle")
    <2>1. /\ task[d].mode = "pull" /\ (Complete(d) \/ Abandoned(d)) /\ client' = client
          /\ task' = [task EXCEPT ![d] = t]
      BY <1>9 DEF PullEnds
    <2>2. TaskFits(t) /\ t.client = NoClient
      BY <1>i
    <2> HIDE DEF t
    <2> QED BY <2>1, <2>2, <1>e
  <1>10. CASE RetroarchPullEnds(d)
    BY <1>10, <1>e, <1>i, EndedTransfers DEF RetroarchPullEnds
  <1>11. CASE EmuNwaPullEnds(d)
    <2> DEFINE t == [task[d] EXCEPT !.mode = "settle"]
    <2>1. /\ task[d].mode = "pull" /\ (Complete(d) \/ Abandoned(d)) /\ client' = client
          /\ task' = [task EXCEPT ![d] = t] /\ Kind[d] = "emunwa"
      BY <1>11 DEF EmuNwaPullEnds
    <2>2. t.mode = "settle" /\ TaskFits(t)
      BY <1>t, <1>f DEF Tasks, TaskFits
    <2> HIDE DEF t
    <2> QED BY <1>11, <2>1, <2>2, <1>e DEF EmuNwaPullEnds
  <1>12. CASE LastSenderGone(d)
    BY <1>12, EndedTransfers DEF LastSenderGone
  <1>13. CASE EmuNwaSettles(d)
    BY <1>13, <1>i, TaskLetsGo DEF EmuNwaSettles
  <1>14. CASE Fails(d)
    BY <1>14, EndedTransfers DEF Fails
  <1> QED
    BY <1>1, <1>2, <1>3, <1>4, <1>5, <1>6, <1>7, <1>8, <1>9, <1>10, <1>11,
       <1>12, <1>13, <1>14 DEF DeviceStep

(* Device managers start tasks and touch no transfer. *)
LEMMA FeedTransfers ==
  ASSUME TransferInv, NEW d \in Devices, Feed(d)
  PROVE  TasksFit' /\ SessionsFit'
  <1>1. CASE DeviceAppears(d)
    <2> DEFINE t == InState(d, "idle")
    <2>1. /\ task[d].mode = "off" /\ client' = client
          /\ task' = [task EXCEPT ![d] = t]
      BY <1>1 DEF DeviceAppears
    <2>2. TaskFits(t) /\ t.client = NoClient /\ \A c \in Clients : c # NoClient
      BY IdleFits, ServerAssumption DEF TaskModes
    <2> HIDE DEF t
    <2> QED BY <2>1, <2>2, TaskLetsGo
  <1>2. CASE UNCHANGED <<client, task>>
    BY <1>2 DEF TransferInv, TasksFit, SessionsFit
  <1> QED
    BY <1>1, <1>2
    DEF Feed, PortRemoved, RetroarchLost, SendClose, RetroarchRemoved, ConnectionClosed

(* Sessions: nothing of a transfer is left in a session that turns to      *)
(* something else, and a reply, a slice or a frame is passed on as it is.  *)
LEMMA SessionTransfers ==
  ASSUME TransferInv, NEW c \in Clients, SessionStep(c)
  PROVE  TasksFit' /\ SessionsFit'
  <1>t. /\ TypeOK /\ client \in [Clients -> Sessions] /\ client[c] \in Sessions
        /\ client[c].slices \in Seq(Nat) /\ client[c].received \in Nat
        /\ client[c].remaining \in Nat /\ client[c].req.size \in Nat
    BY TransferTypes DEF TransferInv, RequestInv, GuardInv, TypeOK
  <1>f. /\ SessionFresh(client[c])
        /\ Downloading(client[c]) \/ Uploading(client[c]) =>
             /\ client[c].device \in Devices
             /\ Fits(c, client[c], task[client[c].device], Kind[client[c].device])
    BY DEF TransferInv, SessionsFit
  <1>r. /\ Ready(c).mode = "ready" /\ Ready(c).received = 0 /\ Ready(c).slices = <<>>
        /\ Ready(c) \in Sessions /\ Ready(c).device = client[c].device
        /\ Disconnected.mode = "closed"
    BY <1>t, SessionTypes DEF Ready, Disconnected, Sessions
  <1>q. ASSUME NEW s, client' = [client EXCEPT ![c] = s], task' = task,
               s.mode \in {"closed", "ready"}
        PROVE  TasksFit' /\ SessionsFit'
    <2>1. SessionFresh(s) /\ ~Downloading(s) /\ ~Uploading(s)
      BY <1>q DEF SessionFresh, Downloading, Uploading
    <2> QED BY <1>q, <2>1, SessionAlone
  <1>w. ASSUME NEW s, client' = [client EXCEPT ![c] = s], task' = task,
               s.received = 0, s.slices = <<>>,
               s.mode \in {"lock", "mailbox"} \/ (s.mode = "reply" /\ s.reply = "none")
        PROVE  TasksFit' /\ SessionsFit'
    <2>1. SessionFresh(s) /\ ~Downloading(s) /\ ~Uploading(s)
      BY <1>w DEF SessionFresh, Downloading, Uploading
    <2> QED BY <1>w, <2>1, SessionAlone
  <1>1. CASE Connect(c)
    <2>1. [Disconnected EXCEPT !.mode = "ready"].mode = "ready"
      BY DEF Disconnected
    <2> QED BY <1>1, <1>q, <2>1 DEF Connect, SessionStays
  <1>2. CASE PeerLeaves(c)
    BY <1>2, <1>r, <1>q DEF PeerLeaves, SessionStays
  <1>3. CASE LocalRequest(c)
    BY <1>3, <1>r, <1>q DEF LocalRequest, SessionStays
  <1>4. CASE AskForLock(c)
    <2>1. PICK x : client' = [client EXCEPT ![c] = [Ready(c) EXCEPT !.mode = "lock", !.req = x]]
      BY <1>4 DEF AskForLock
    <2> DEFINE s == [Ready(c) EXCEPT !.mode = "lock", !.req = x]
    <2>2. s.mode = "lock" /\ s.received = 0 /\ s.slices = <<>>
      BY <1>r DEF Sessions
    <2> HIDE DEF s
    <2> QED BY <1>4, <1>w, <2>1, <2>2 DEF AskForLock, SessionStays, s
  <1>5. CASE ListDevices(c)
    BY <1>5, <1>r, <1>q DEF ListDevices, SessionStays
  <1>6. CASE Attach(c)
    <2>1. \A d : [Ready(c) EXCEPT !.device = d].mode = "ready"
      BY <1>r DEF Sessions
    <2> QED BY <1>6, <2>1, <1>r, <1>q DEF Attach, SessionStays
  <1>7. CASE Lookup(c)
    <2> DEFINE s == [client[c] EXCEPT !.mode = "mailbox"]
    <2>1. client[c].mode = "lock"
      BY <1>7, NotQueued DEF Lookup, TransferInv, RequestInv, GuardInv
    <2>2. s.mode = "mailbox" /\ s.received = 0 /\ s.slices = <<>>
      BY <2>1, <1>t, <1>f DEF Sessions, SessionFresh
    <2>3. client' = [client EXCEPT ![c] = s] \/ client' = [client EXCEPT ![c] = Disconnected]
      BY <1>7 DEF Lookup
    <2> HIDE DEF s
    <2> QED BY <1>7, <2>2, <2>3, <1>r, <1>q, <1>w DEF Lookup, SessionStays
  <1>8. CASE Post(c)
    <2> DEFINE s == [client[c] EXCEPT !.mode = "reply"]
    <2>1. client[c].mode = "mailbox" /\ client[c].reply = "none" /\ task' = task
      BY <1>8 DEF Post, TransferInv, RequestInv, RepliesAwaited
    <2>2. s.mode = "reply" /\ s.reply = "none" /\ s.received = 0 /\ s.slices = <<>>
      BY <2>1, <1>t, <1>f DEF Sessions, SessionFresh
    <2>3. client' = [client EXCEPT ![c] = s] \/ client' = [client EXCEPT ![c] = Disconnected]
      BY <1>8 DEF Post
    <2> HIDE DEF s
    <2> QED BY <2>1, <2>2, <2>3, <1>r, <1>q, <1>w
  <1>9. CASE TakeReply(c)
    <2> DEFINE reading == [client[c] EXCEPT !.mode = "reading", !.reply = "none"]
               sending == [Ready(c) EXCEPT !.mode = "sending", !.remaining = client[c].req.size]
    <2>0. client[c].mode = "reply" /\ task' = task
      BY <1>9 DEF TakeReply, SessionStays
    <2>1. \/ client' = [client EXCEPT ![c] = Ready(c)]
          \/ client' = [client EXCEPT ![c] = Disconnected]
          \/ /\ client[c].reply \in {"BinaryReader", "FileReader"}
             /\ client' = [client EXCEPT ![c] = reading]
          \/ /\ client[c].reply = "BinaryWriter"
             /\ client' = [client EXCEPT ![c] = sending]
      BY <1>9 DEF TakeReply
    <2>2. /\ reading.mode = "reading" /\ reading.device = client[c].device
          /\ reading.received = client[c].received /\ reading.slices = client[c].slices
          /\ reading.req = client[c].req
      BY <1>t DEF Sessions
    <2>3. /\ sending.mode = "sending" /\ sending.device = client[c].device
          /\ sending.remaining = client[c].req.size
      BY <1>r DEF Sessions
    <2> HIDE DEF reading, sending
    <2>4. CASE /\ client[c].reply \in {"BinaryReader", "FileReader"}
               /\ client' = [client EXCEPT ![c] = reading]
      <3>1. Downloading(client[c]) /\ ~Uploading(reading) /\ SessionFresh(reading)
        BY <2>0, <2>2, <2>4 DEF Downloading, Uploading, SessionFresh
      <3>2. /\ client[c].device \in Devices
            /\ Fits(c, reading, task[client[c].device], Kind[client[c].device])
        BY <3>1, <2>2, <1>f DEF Fits, DownloadFits
      <3> QED BY <2>0, <2>2, <2>4, <3>1, <3>2, SessionAlone
    <2>5. CASE /\ client[c].reply = "BinaryWriter"
               /\ client' = [client EXCEPT ![c] = sending]
      <3>1. /\ Uploading(client[c]) /\ ~Downloading(sending) /\ SessionFresh(sending)
            /\ Expected(sending) = Expected(client[c])
        BY <2>0, <2>3, <2>5 DEF Downloading, Uploading, SessionFresh, Expected
      <3>2. /\ client[c].device \in Devices
            /\ Fits(c, sending, task[client[c].device], Kind[client[c].device])
        BY <3>1, <1>f DEF Fits, UploadFits
      <3> QED BY <2>0, <2>3, <2>5, <3>1, <3>2, SessionAlone
    <2> QED BY <2>0, <2>1, <2>4, <2>5, <1>r, <1>q
  <1>10. CASE Forwards(c)
    <2>1. CASE ForwardDown(c)
      <3> DEFINE more == [client[c] EXCEPT !.received = Head(client[c].slices),
                                           !.slices = Tail(client[c].slices)]
      <3>1. /\ client[c].mode = "reading" /\ client[c].slices # <<>> /\ task' = task
            /\ \/ client' = [client EXCEPT ![c] = Disconnected]
               \/ client' = [client EXCEPT ![c] = Ready(c)]
               \/ client' = [client EXCEPT ![c] = more]
        BY <2>1 DEF ForwardDown, SessionStays
      <3>2. /\ more.mode = "reading" /\ more.device = client[c].device
            /\ more.received = Head(client[c].slices) /\ more.slices = Tail(client[c].slices)
            /\ more.req = client[c].req
        BY <3>1, <1>t DEF Sessions
      <3> HIDE DEF more
      <3>3. Downloading(client[c]) /\ ~Uploading(more) /\ SessionFresh(more)
        BY <3>1, <3>2 DEF Downloading, Uploading, SessionFresh
      <3>4. Ordered(client[c].received, client[c].slices, client[c].req.size)
        BY <3>3, <1>f DEF Fits, DownloadFits
      <3>5. /\ Ordered(more.received, more.slices, more.req.size)
            /\ LastSlice(more.slices, more.received)
                 = LastSlice(client[c].slices, client[c].received)
        BY <3>1, <3>2, <3>4, <1>t, OrderedTail
      <3>6. /\ client[c].device \in Devices
            /\ Fits(c, more, task[client[c].device], Kind[client[c].device])
        BY <3>2, <3>3, <3>5, <1>f DEF Fits, DownloadFits
      <3>7. CASE client' = [client EXCEPT ![c] = more]
        BY <3>1, <3>2, <3>3, <3>6, <3>7, SessionAlone
      <3> QED BY <3>1, <3>7, <1>r, <1>q
    <2>2. CASE DownBreaks(c)
      BY <2>2, <1>r, <1>q DEF DownBreaks, SessionStays
    <2> QED BY <1>10, <2>1, <2>2 DEF Forwards
  <1>11. CASE SendFrame(c)
    <2>1. CASE ~DeviceHoldsReceiver(c)
      BY <1>11, <2>1, <1>r, <1>q DEF SendFrame
    <2>2. CASE DeviceHoldsReceiver(c)
      <3> DEFINE d == client[c].device
                 last == LastSlice(task[d].slices, task[d].moved)
                 left(n) == client[c].remaining - n
      <3>1. /\ d \in Devices /\ task[d].client = c /\ task[d].mode \in {"pull", "settle"}
            /\ client[c].mode = "sending"
        BY <1>11, <2>2 DEF DeviceHoldsReceiver, SendFrame
      <3>2. PICK n : /\ n \in Nat /\ n <= client[c].remaining
                     /\ task' = [task EXCEPT ![d].slices = Append(@, LastSlice(@, task[d].moved) + n)]
                     /\ client' = [client EXCEPT ![c] =
                          IF left(n) > 0 THEN [client[c] EXCEPT !.remaining = left(n)]
                                         ELSE Ready(c)]
        <4>1. PICK frame \in 1..MaxFrame :
                /\ task' = [task EXCEPT ![d].slices =
                              Append(@, LastSlice(@, task[d].moved) + Taken(c, frame))]
                /\ client' = [client EXCEPT ![c] =
                     IF left(Taken(c, frame)) > 0
                     THEN [client[c] EXCEPT !.remaining = left(Taken(c, frame))]
                     ELSE Ready(c)]
          BY <1>11, <2>2 DEF SendFrame
        <4>2. Taken(c, frame) \in Nat /\ Taken(c, frame) <= client[c].remaining
          BY <1>t, ServerAssumption DEF Taken
        <4> QED BY <4>1, <4>2
      <3>3. /\ task[d] \in Tasks /\ task[d].slices \in Seq(Nat)
            /\ task[d].moved \in Nat /\ task[d].size \in Nat
            /\ Ordered(task[d].moved, task[d].slices, task[d].size)
        BY <3>1, <1>t, TransferTypes DEF TransferInv, TasksFit, TaskFits
      <3>4. last \in Nat /\ last <= task[d].size
        BY <3>3, LastIsBetween
      <3>5. /\ client[c].remaining > 0 => /\ task[d].mode = "pull"
                                          /\ last + client[c].remaining = task[d].size
        <4>1. Uploading(client[c]) /\ Expected(client[c]) = client[c].remaining
          BY <3>1 DEF Uploading, Expected
        <4> QED BY <3>1, <4>1, <1>f DEF Fits, UploadFits
      <3>6. last + n \in Nat /\ last <= last + n /\ last + n <= task[d].size
        BY <3>2, <3>3, <3>4, <3>5, <1>t
      <3> DEFINE q == Append(task[d].slices, last + n)
                 t == [task[d] EXCEPT !.slices = q]
                 s == IF left(n) > 0 THEN [client[c] EXCEPT !.remaining = left(n)] ELSE Ready(c)
      <3>7. /\ task' = [task EXCEPT ![d] = t]
            /\ client'[c] = s /\ \A x \in Clients : x # c => client'[x] = client[x]
        BY <3>2, <1>t
      <3>8. Ordered(task[d].moved, q, task[d].size) /\ LastSlice(q, task[d].moved) = last + n
        BY <3>3, <3>6, OrderedAppend
      <3>9. /\ left(n) > 0 => /\ s.mode = "sending" /\ s.device = d /\ s.remaining = left(n)
                              /\ client[c].remaining > 0
            /\ ~(left(n) > 0) => s.mode = "ready" /\ s.device = d
        BY <3>1, <3>2, <1>t, <1>r DEF Sessions
      <3>10. last + n + left(n) = last + client[c].remaining
        BY <3>2, <3>4, <1>t
      <3> HIDE DEF q
      <3>11. /\ t.mode = task[d].mode /\ t.client = c /\ t.size = task[d].size
             /\ t.moved = task[d].moved /\ t.slices = q
        BY <3>1, <3>3 DEF Tasks
      <3> HIDE DEF t, s, last, d, left
      <3>12. TaskFits(t)
        BY <3>1, <3>8, <3>11 DEF TaskFits
      <3>13. s.device = d /\ SessionFresh(s) /\ ~Downloading(s)
             /\ (Uploading(s) => left(n) > 0)
        BY <3>9 DEF SessionFresh, Downloading, Uploading
      <3>14. Uploading(s) => Fits(c, s, t, Kind[d])
        <4> SUFFICES ASSUME Uploading(s) PROVE UploadFits(c, s, t)
          BY <3>13 DEF Fits
        <4>1. t.mode = "pull" /\ last + client[c].remaining = task[d].size
          BY <3>5, <3>9, <3>11, <3>13
        <4>2. Expected(s) = left(n)
          BY <3>9, <3>13 DEF Expected
        <4>3. LastSlice(t.slices, t.moved) + Expected(s) = t.size
          BY <4>1, <4>2, <3>8, <3>10, <3>11
        <4> QED BY <4>1, <4>3, <3>11 DEF UploadFits
      <3>15. ASSUME NEW x \in Clients, x # c, client[x].device = d,
                    Downloading(client[x]) \/ Uploading(client[x])
             PROVE  Fits(x, client[x], t, Kind[d])
        <4>1. Fits(x, client[x], task[d], Kind[d])
          BY <3>15 DEF TransferInv, SessionsFit
        <4> QED BY <4>1, <3>1, <3>11, <3>15 DEF Fits, DownloadFits, UploadFits
      <3>16. client[c].device = d
        BY DEF d
      <3>17. /\ \A x \in Clients :
                  x # c /\ client[x].device = d /\ (Downloading(client[x]) \/ Uploading(client[x]))
                    => Fits(x, client[x], t, Kind[d])
             /\ Downloading(s) \/ Uploading(s) => Fits(c, s, t, Kind[d])
             /\ d \in Devices /\ SessionFresh(s) /\ s.device = d
        BY <3>1, <3>13, <3>14, <3>15
      <3> QED BY <3>7, <3>12, <3>16, <3>17, TaskAndSession, ZenonT(30)
    <2> QED BY <2>1, <2>2
  <1> QED
    BY <1>1, <1>2, <1>3, <1>4, <1>5, <1>6, <1>7, <1>8, <1>9, <1>10, <1>11
    DEF SessionStep, ServeLock

(* TransferInv holds in every reachable state. *)
THEOREM TransferInvariant == Spec => []TransferInv
  <1>1. Init => TransferInv
    <2> SUFFICES ASSUME Init PROVE TransferInv
      OBVIOUS
    <2>1. RequestInv
      BY InitialRequests
    <2>2. TasksFit
      BY OrderedEmpty DEF Init, NotStarted, TasksFit, TaskFits
    <2>3. SessionsFit
      BY DEF Init, Disconnected, SessionsFit, SessionFresh, Downloading, Uploading
    <2> QED BY <2>1, <2>2, <2>3 DEF TransferInv
  <1>2. TransferInv /\ [Next]_vars /\ RequestInv' => TransferInv'
    <2> SUFFICES ASSUME TransferInv, [Next]_vars, RequestInv' PROVE TasksFit' /\ SessionsFit'
      BY DEF TransferInv
    <2>1. ASSUME NEW c \in Clients, SessionStep(c) PROVE TasksFit' /\ SessionsFit'
      BY <2>1, SessionTransfers
    <2>2. ASSUME NEW d \in Devices, DeviceStep(d) \/ EmuNwaSettles(d) \/ Fails(d)
          PROVE  TasksFit' /\ SessionsFit'
      BY <2>2, DeviceTransfers
    <2>3. ASSUME NEW d \in Devices, Feed(d) PROVE TasksFit' /\ SessionsFit'
      BY <2>3, FeedTransfers
    <2>4. ASSUME UNCHANGED <<client, task>> PROVE TasksFit' /\ SessionsFit'
      BY <2>4 DEF TransferInv, TasksFit, SessionsFit
    <2>5. CASE ManagerStep \/ TrayStep
      BY <2>4, <2>5 DEF ManagerStep, TrayStep, TakeEvent, ApplyEvent, RightClick, BuildMenu
    <2>6. CASE UNCHANGED vars
      BY <2>4, <2>6 DEF vars
    <2> QED BY <2>1, <2>2, <2>3, <2>5, <2>6 DEF Next
  <1> QED BY RequestInvariant, <1>1, <1>2, PTL DEF Spec

(* write_stream of the devices and the binary frames of server.rs: what a  *)
(* device took, what its channel holds and what its session still expects  *)
(* make up the announced size, whichever sizes and frames a peer chooses.  *)
THEOREM UploadCorrect == Spec => []UploadAddsUp
  <1>1. TransferInv => UploadAddsUp
    <2> SUFFICES ASSUME TransferInv PROVE UploadAddsUp
      OBVIOUS
    <2>t. TypeOK
      BY DEF TransferInv, RequestInv, GuardInv
    <2>1. \A d \in Devices : Ascending(task[d].moved, task[d].slices, task[d].size)
      BY <2>t, TransferTypes, OrderedAscends DEF TransferInv, TasksFit, TaskFits
    <2>2. ASSUME NEW c \in Clients, client[c].mode = "sending", client[c].remaining > 0
          PROVE  LET d == client[c].device IN
                 \/ task[d].mode = "gone"
                 \/ /\ DeviceHoldsReceiver(c)
                    /\ LastSlice(task[d].slices, task[d].moved) + client[c].remaining = task[d].size
      <3>1. Uploading(client[c]) /\ Expected(client[c]) = client[c].remaining
        BY <2>2 DEF Uploading, Expected
      <3>2. /\ client[c].device \in Devices
            /\ UploadFits(c, client[c], task[client[c].device])
        BY <2>2, <3>1 DEF TransferInv, SessionsFit, Fits
      <3> QED BY <3>1, <3>2 DEF UploadFits, DeviceHoldsReceiver
    <2> QED BY <2>1, <2>2 DEF UploadAddsUp
  <1> QED BY TransferInvariant, <1>1, PTL

(* read_stream of the devices and the loop over receiver.recv() of         *)
(* server.rs: no byte of a download is lost, doubled or taken from another *)
(* one, unless the device has ended.                                       *)
THEOREM DownloadCorrect == Spec => []DownloadAddsUp
  <1>1. TransferInv => DownloadAddsUp
    <2> SUFFICES ASSUME TransferInv, NEW c \in Clients, client[c].mode = "reading"
                 PROVE  LET d == client[c].device
                            end == LastSlice(client[c].slices, client[c].received) IN
                        /\ Ascending(client[c].received, client[c].slices, client[c].req.size)
                        /\ \/ task[d].mode = "gone"
                           \/ /\ DeviceHoldsSender(c) /\ end = task[d].moved
                              /\ task[d].size = client[c].req.size
                           \/ Kind[d] = "lua" /\ end = client[c].req.size
      BY DEF DownloadAddsUp
    <2>1. Downloading(client[c])
      BY DEF Downloading
    <2>2. /\ client[c].device \in Devices
          /\ DownloadFits(c, client[c], task[client[c].device], Kind[client[c].device])
      BY <2>1 DEF TransferInv, SessionsFit, Fits
    <2>3. Ascending(client[c].received, client[c].slices, client[c].req.size)
      BY <2>2, TransferTypes, OrderedAscends
      DEF DownloadFits, TransferInv, RequestInv, GuardInv
    <2> QED BY <2>2, <2>3 DEF DownloadFits, DeviceHoldsSender
  <1> QED BY TransferInvariant, <1>1, PTL
=============================================================================
