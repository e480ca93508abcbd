---------------------------- MODULE DeviceTasks ----------------------------
(***************************************************************************)
(* The tasks that Lua::start, SD2Snes::start, Retroarch::start and         *)
(* EmuNwa::start spawn: one per device, each taking one request at a time  *)
(* from its channel, answering it on the request's oneshot and then moving *)
(* the bytes of a transfer.  The four loops have the same shape and differ *)
(* in which commands they know, when they talk to the hardware, what they  *)
(* do when an upload is abandoned, and whether a failure is reported.      *)
(*                                                                         *)
(* Hardware and emulators are external: an exchange with them succeeds or  *)
(* fails (an unwrap that panics or an error that ends the task).           *)
(***************************************************************************)
EXTENDS ServerState

(* The kind of answer each device gives.  A file transfer is known to the  *)
(* sd2snes alone; what a device does not know it answers Empty.            *)
ReplyTo(d, cmd) ==
  CASE cmd = "Info"       -> "Strings"
    [] cmd = "GetAddress" -> "BinaryReader"
    [] cmd = "PutAddress" -> "BinaryWriter"
    [] cmd = "GetFile" /\ Kind[d] = "sd2snes" -> "FileReader"
    [] cmd = "PutFile" /\ Kind[d] = "sd2snes" -> "BinaryWriter"
    [] OTHER -> "Empty"

(* The command is sent to the hardware before the reply is: the exchange   *)
(* can fail while the session still waits.                                 *)
TalksFirst(d, cmd) ==
  \/ Kind[d] = "sd2snes" /\ cmd \in {"Info", "Reset", "GetFile"}
  \/ Kind[d] = "emunwa" /\ cmd \in {"Info", "Reset"}

(* Mutant: whatever the channel gives is taken for a request.               *)
TakeAnything(d) ==
  /\ task[d].mode = "idle"
  /\ inbox[d] # <<>>
  /\ task' = [task EXCEPT ![d].mode = "work", ![d].client = Head(inbox[d])]
  /\ inbox' = [inbox EXCEPT ![d] = Tail(@)]
  /\ UNCHANGED <<registry, events, lockVars, client, feedVars>>

(* device_rx.recv() gives the next request. *)
TakeRequest(d) ==
  /\ task[d].mode = "idle"
  /\ inbox[d] # <<>>
  /\ Head(inbox[d]) \in Clients
  /\ task' = [task EXCEPT ![d].mode = "work", ![d].client = Head(inbox[d])]
  /\ inbox' = [inbox EXCEPT ![d] = Tail(@)]
  /\ UNCHANGED <<registry, events, lockVars, client, feedVars>>

(* device_rx.recv() gives DeviceRequest::Close, which a RetroarchManager   *)
(* sends: the task returns.                                                *)
TakeClose(d) ==
  /\ task[d].mode = "idle"
  /\ inbox[d] # <<>>
  /\ Head(inbox[d]) = Close
  /\ TaskEnds(d)
  /\ UNCHANGED <<registry, events, lockVars, feedVars>>

(* A command without data is answered and the task returns to its loop.    *)
Answer(d) ==
  LET c == task[d].client IN
  /\ task[d].mode = "work"
  /\ ReplyTo(d, client[c].req.cmd) \in {"Strings", "Empty"}
  /\ client' = [client EXCEPT ![c].reply = ReplyTo(d, client[c].req.cmd)]
  /\ task' = [task EXCEPT ![d] = InState(d, "idle")]
  /\ UNCHANGED <<registry, events, lockVars, inbox, feedVars>>

(* A transfer is answered with one end of a new binary channel; the task   *)
(* keeps the other end and moves the data.                                 *)
Offer(d) ==
  LET c == task[d].client
      r == ReplyTo(d, client[c].req.cmd) IN
  /\ task[d].mode = "work"
  /\ r \in {"BinaryReader", "FileReader", "BinaryWriter"}
  /\ client' = [client EXCEPT ![c].reply = r]
  /\ task' = [task EXCEPT
       ![d].mode = IF r = "BinaryWriter" THEN "pull" ELSE "push",
       ![d].size = client[c].req.size]
  /\ UNCHANGED <<registry, events, lockVars, inbox, feedVars>>

-----------------------------------------------------------------------------
(* Downloads. *)

(* read_stream: the next bytes of the transfer go to the session, or are   *)
(* discarded when the session no longer listens.                           *)
PushChunk(d) ==
  LET c == task[d].client IN
  /\ task[d].mode = "push"
  /\ Kind[d] # "lua"
  /\ \E end \in (task[d].moved + 1)..task[d].size :
       /\ task' = [task EXCEPT ![d].moved = end]
       /\ IF SessionHoldsReceiver(d)
          THEN /\ Len(client[c].slices) < ChannelCap
               /\ client' = [client EXCEPT ![c].slices = Append(@, end)]
          ELSE UNCHANGED client
  /\ UNCHANGED <<registry, events, lockVars, inbox, feedVars>>

(* Mutant: the task returns to its loop without awaiting tx.closed().       *)
PushEndsEarly(d) ==
  /\ task[d].mode = "push"
  /\ Kind[d] # "lua"
  /\ task[d].moved = task[d].size
  /\ task' = [task EXCEPT ![d] = InState(d, "idle")]
  /\ UNCHANGED <<registry, events, lockVars, client, inbox, feedVars>>

(* The end of read_stream: tx.closed() keeps the Sender until the session  *)
(* has dropped the Receiver.                                               *)
PushEnds(d) ==
  /\ task[d].mode = "push"
  /\ Kind[d] # "lua"
  /\ task[d].moved = task[d].size
  /\ ~SessionHoldsReceiver(d)
  /\ task' = [task EXCEPT ![d] = InState(d, "idle")]
  /\ UNCHANGED <<registry, events, lockVars, client, inbox, feedVars>>

(* A Lua device sends its zeroes in one piece and returns to its loop; the *)
(* send is unwrapped, so a session that left already ends the task.        *)
LuaPush(d) ==
  LET c == task[d].client IN
  /\ task[d].mode = "push"
  /\ Kind[d] = "lua"
  /\ IF SessionHoldsReceiver(d)
     THEN /\ client' = [client EXCEPT ![c].slices = Append(@, task[d].size)]
          /\ task' = [task EXCEPT ![d] = InState(d, "idle")]
          /\ UNCHANGED inbox
     ELSE TaskEnds(d)
  /\ UNCHANGED <<registry, events, lockVars, feedVars>>

-----------------------------------------------------------------------------
(* Uploads. *)

(* The next message of the channel goes to the hardware.                   *)
PullChunk(d) ==
  /\ task[d].mode = "pull"
  /\ task[d].moved < task[d].size
  /\ task[d].slices # <<>>
  /\ task' = [task EXCEPT ![d].moved = Head(task[d].slices),
                          ![d].slices = Tail(@)]
  /\ UNCHANGED <<registry, events, lockVars, client, inbox, feedVars>>

Complete(d) == task[d].moved = task[d].size

(* rx.recv() gives None: every message was taken and the Sender is gone.   *)
Abandoned(d) ==
  task[d].moved < task[d].size /\ task[d].slices = <<>> /\ ~SessionHoldsSender(d)

(* A Lua device forgets what is missing and an sd2snes pads it with zeroes *)
(* so that the hardware gets the size it was promised.                     *)
PullEnds(d) ==
  /\ task[d].mode = "pull"
  /\ Kind[d] \in {"lua", "sd2snes"}
  /\ Complete(d) \/ Abandoned(d)
  /\ task' = [task EXCEPT ![d] = InState(d, "idle")]
  /\ UNCHANGED <<registry, events, lockVars, client, inbox, feedVars>>

(* RetroArch gets its data in commands of their own, so an abandoned       *)
(* upload is an error, which ends the device.                              *)
RetroarchPullEnds(d) ==
  /\ task[d].mode = "pull"
  /\ Kind[d] = "retroarch"
  /\ \/ /\ Complete(d)
        /\ task' = [task EXCEPT ![d] = InState(d, "idle")]
        /\ UNCHANGED <<client, inbox, reported>>
     \/ /\ Abandoned(d)
        /\ TaskEnds(d)
        /\ reported' = reported \cup {d}
  /\ UNCHANGED <<registry, events, lockVars, handles, removal>>

(* write_stream stops, complete or not, and read_response waits for the    *)
(* emulator to acknowledge the write it was promised.                      *)
EmuNwaPullEnds(d) ==
  /\ task[d].mode = "pull"
  /\ Kind[d] = "emunwa"
  /\ Complete(d) \/ Abandoned(d)
  /\ task' = [task EXCEPT ![d].mode = "settle"]
  /\ UNCHANGED <<registry, events, lockVars, client, inbox, feedVars>>

EmuNwaSettles(d) ==
  /\ task[d].mode = "settle"
  /\ task' = [task EXCEPT ![d] = InState(d, "idle")]
  /\ UNCHANGED <<registry, events, lockVars, client, inbox, feedVars>>

-----------------------------------------------------------------------------
(* The ends of a task. *)

ExchangeMayFail(d) ==
  \/ task[d].mode = "work" /\ TalksFirst(d, client[task[d].client].req.cmd)
  \/ task[d].mode = "push" /\ Kind[d] # "lua"
  \/ task[d].mode \in {"pull", "settle"}
  \/ task[d].mode = "idle" /\ Kind[d] = "lua"

Reports(d) ==
  \/ Kind[d] \in {"retroarch", "emunwa"}
  \/ Kind[d] = "lua" /\ task[d].mode = "idle"

(* An sd2snes or Lua exchange is unwrapped, and so is each number that     *)
(* RetroArch sends.                                                        *)
Panics(d) ==
  \/ ~Reports(d)
  \/ Kind[d] = "retroarch" /\ task[d].mode = "push"

(* An exchange with the hardware fails.  RetroArch and emulator tasks, and *)
(* a Lua task whose socket read fails, report ConnectionClosed and return; *)
(* a task that panics reports nothing.                                     *)
Fails(d) ==
  /\ ExchangeMayFail(d)
  /\ TaskEnds(d)
  /\ \/ Reports(d) /\ reported' = reported \cup {d}
     \/ Panics(d) /\ reported' = reported
  /\ UNCHANGED <<registry, events, lockVars, handles, removal>>

(* recv gives None once no clone of the device's Sender is left, in the    *)
(* registry, the manager's HashMap or a DeviceCreated event: the select    *)
(* breaks (sd2snes, emunwa) or panics for want of an else (retroarch).  A  *)
(* Lua task keeps polling its socket.                                      *)
LastSenderGone(d) ==
  /\ task[d].mode = "idle"
  /\ Kind[d] # "lua"
  /\ inbox[d] = <<>>
  /\ d \notin registry \cup handles
  /\ ~\E i \in 1..Len(events) : events[i] = [kind |-> "Created", dev |-> d]
  /\ TaskEnds(d)
  /\ UNCHANGED <<registry, events, lockVars, feedVars>>

DeviceStep(d) ==
  \/ TakeRequest(d) \/ TakeClose(d)
  \/ Answer(d) \/ Offer(d)
  \/ PushChunk(d) \/ PushEnds(d) \/ LuaPush(d)
  \/ PullChunk(d) \/ PullEnds(d) \/ RetroarchPullEnds(d) \/ EmuNwaPullEnds(d)
  \/ LastSenderGone(d)
=============================================================================
