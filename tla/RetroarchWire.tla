---------------------------- MODULE RetroarchWire ----------------------------
(***************************************************************************)
(* What one Retroarch task and its emulator say to each other over UDP.    *)
(* A transfer is cut into pieces of one bank and these into commands of at *)
(* most CMD_SIZE bytes.  Each command of a download waits a second for its *)
(* answer; a write to ROM waits a tenth of a second for a refusal and then *)
(* goes on, and other writes wait for nothing.  An answer carries nothing  *)
(* that the task compares with the command.                                *)
(*                                                                         *)
(* Bytes are counted, not named; addresses are those of the console.       *)
(* RetroArch is external: it handles commands in order, may refuse or      *)
(* answer short, any datagram may be late or lost, and when it has gone    *)
(* the socket, which is connected, learns so from what it sent.            *)
(***************************************************************************)
EXTENDS AddressMap, Sums, FiniteSetsExt

CONSTANTS
  Lists,      \* the addresses of a transfer, sequences of [address, size]
  FrameSizes, \* sizes of the frames of an upload
  MaxStray    \* bound on the datagrams under way

ASSUME ListsAssumption ==
  /\ Lists \subseteq Seq([address : Nat, size : Nat])
  /\ FrameSizes \subseteq Nat \ {0}
  /\ MaxStray \in Nat \ {0}

CMD_SIZE == 512

VARIABLES
  rom_mapping, \* of the ROM, as its header says
  rom_access,  \* RetroArch let the header be read
  phase,       \* the await at which the device's task stands
  req,         \* the command in hand, and its addresses
  plan,        \* what of ra_addr_info is still to be moved
  recv_buf,    \* bytes of an upload that wait for a whole command
  sent,        \* bytes of this transfer handed from task to session or back
  taken,       \* bytes of a download that the session has forwarded
  listening,   \* the session still holds its end of the binary channel
  asked,       \* commands that RetroArch has still to answer
  inbox,       \* answers in the device's socket
  bounced,     \* a datagram came back, and the socket has not yet said so
  mishaps      \* what went wrong so far

header == <<rom_mapping, rom_access>>
session == <<sent, taken, listening>>
vars == <<header, phase, req, plan, recv_buf, session, asked, inbox, bounced, mishaps>>

Bytes(p) == SumOf([i \in 1..Len(p) |-> p[i].size])
Total == Bytes(req.list)
Download == req.cmd = "GetAddress"

-----------------------------------------------------------------------------
(* map_addresses, when it is no error. *)
MapAddresses(l) ==
  FlattenSeq([i \in 1..Len(l) |->
    IF Domain(l[i].address) = "CARTROM"
    THEN MapRom(rom_mapping, l[i].address, l[i].size)
    ELSE << [domain |-> Domain(l[i].address), address |-> Offset(l[i].address),
             size |-> l[i].size] >>])

Mappable(l) ==
  Supported(rom_mapping) \/ \A i \in 1..Len(l) : Domain(l[i].address) # "CARTROM"

Refused(p) == p.domain = "CARTROM" /\ ~rom_access

(* The command for the next bytes of the plan. *)
Next512 == Min({ Head(plan).size, CMD_SIZE })
Place(p) == IF p.domain = "CARTRAM" THEN p.address + 131072 ELSE p.address
Target == Place(Head(plan))
Advanced ==
  << [Head(plan) EXCEPT !.address = @ + Next512, !.size = @ - Next512] >> \o Tail(plan)

(* The loop over the pieces goes on to the next one that has bytes, and    *)
(* fails at one of ROM that may not be accessed.                           *)
Stops(p) == { i \in 1..Len(p) : p[i].size > 0 \/ Refused(p[i]) }

GoesOn(p, busy, finished) ==
  IF Stops(p) = {}
  THEN phase' = finished /\ plan' = <<>>
  ELSE LET i == Min(Stops(p)) IN
       /\ plan' = SubSeq(p, i, Len(p))
       /\ phase' = IF Refused(p[i]) THEN "ended" ELSE busy

(* A datagram that goes out is answered in its turn, if it asks for an     *)
(* answer and reaches RetroArch; if nobody has its port, it bounces.       *)
Sends(asks) ==
  \E there \in BOOLEAN :
    /\ asked' = IF there /\ Len(asked) + Len(inbox) < MaxStray THEN asked \o asks ELSE asked
    /\ bounced' = IF there THEN bounced ELSE TRUE
    /\ mishaps' = IF there THEN mishaps ELSE mishaps \cup {"unreachable"}

-----------------------------------------------------------------------------
Init ==
  /\ rom_mapping \in { RomMapping(bits) : bits \in 0..7 } /\ rom_access \in BOOLEAN
  /\ ~rom_access => rom_mapping = "LoROM" \* RomHeader::default
  /\ phase = "idle" /\ req = [cmd |-> "Info", list |-> <<>>]
  /\ plan = <<>> /\ recv_buf = 0
  /\ sent = 0 /\ taken = 0 /\ listening = FALSE
  /\ asked = <<>> /\ inbox = <<>> /\ bounced = FALSE
  /\ mishaps = {}

(* What a request that ended leaves behind. *)
Lasting ==
  mishaps \cap ({"late", "refused"} \cup IF bounced THEN {"unreachable"} ELSE {})

(* The task has a request: the session has its channel first of all.       *)
Take(cmd, l) ==
  /\ phase = "idle"
  /\ req' = [cmd |-> cmd, list |-> l]
  /\ recv_buf' = 0 /\ sent' = 0 /\ taken' = 0
  /\ listening' = (cmd = "PutAddress" \/ Bytes(l) > 0)
  /\ mishaps' = Lasting
  /\ IF ~Mappable(l)
     THEN phase' = "ended" /\ plan' = <<>>
     ELSE IF cmd = "GetAddress"
     THEN GoesOn(MapAddresses(l), "read", "closing")
     ELSE GoesOn(MapAddresses(l), "fill", "idle")
  /\ UNCHANGED <<header, inbox, asked, bounced>>

-----------------------------------------------------------------------------
(* read_stream *)

SendRead ==
  /\ phase = "read"
  /\ phase' = "await"
  /\ Sends(<<"read">>)
  /\ UNCHANGED <<header, req, plan, recv_buf, session, inbox>>

(* Mutant: an answer is parsed when it comes, however short it is.         *)
ReadAnswerUnmeasured ==
  /\ phase \in {"await", "spoilt"}
  /\ inbox # <<>>
  /\ inbox' = Tail(inbox)
  /\ IF Head(inbox) = "data" THEN GoesOn(Advanced, "read", "closing")
     ELSE /\ phase' = IF Head(inbox) = "-1" THEN "ended" ELSE "panicked"
          /\ UNCHANGED plan
  /\ sent' = IF phase' \in {"ended", "panicked"} THEN sent ELSE sent + Next512
  /\ UNCHANGED <<header, req, recv_buf, taken, listening, asked, bounced, mishaps>>

(* Datagrams are taken for the answer until there are enough bytes.  A     *)
(* short one leaves the task waiting; the answer to an old write is no     *)
(* hex, and once there are enough bytes the unwrap takes the task with it. *)
ReadAnswer ==
  /\ phase \in {"await", "spoilt"}
  /\ inbox # <<>>
  /\ inbox' = Tail(inbox)
  /\ \/ /\ Head(inbox) = "data" /\ phase = "await"
        /\ GoesOn(Advanced, "read", "closing")
        /\ sent' = sent + Next512
     \/ /\ Head(inbox) # "data" \/ phase = "spoilt"
        /\ phase' \in CASE Head(inbox) = "-1" -> {"ended"}
                       [] Head(inbox) = "data" -> {"panicked"}
                       [] Head(inbox) = "short" /\ phase = "await" -> {"await"}
                       [] OTHER -> {"spoilt", "panicked"}
        /\ UNCHANGED <<plan, sent>>
  /\ UNCHANGED <<header, req, recv_buf, taken, listening, asked, bounced, mishaps>>

(* Mutant: the receive has no timeout.                                     *)
ReadTimeoutNever == FALSE

(* A second without an answer ends the device. *)
ReadTimeout ==
  /\ phase \in {"await", "spoilt"}
  /\ inbox = <<>>
  /\ phase' = "ended"
  /\ mishaps' = mishaps \cup {"timeout"}
  /\ UNCHANGED <<header, req, plan, recv_buf, session, asked, inbox, bounced>>

(* tx.closed(): the session has dropped its end. *)
DownloadEnds ==
  /\ phase = "closing"
  /\ ~listening
  /\ phase' = "idle"
  /\ UNCHANGED <<header, req, plan, recv_buf, session, asked, inbox, bounced, mishaps>>

-----------------------------------------------------------------------------
(* write_stream *)

(* One frame; the session cuts frames to the size of the transfer and      *)
(* drops its end after the last.                                           *)
Fill ==
  /\ phase = "fill"
  /\ recv_buf < Next512
  /\ listening
  /\ \E size \in FrameSizes :
       LET n == Min({size, Total - sent}) IN
       /\ recv_buf' = recv_buf + n
       /\ sent' = sent + n
       /\ listening' = (sent' < Total)
  /\ UNCHANGED <<header, phase, req, plan, taken, asked, inbox, bounced, mishaps>>

(* recv() gives None with bytes still wanted: the device ends. *)
GotZeroData ==
  /\ phase = "fill"
  /\ recv_buf < Next512
  /\ ~listening
  /\ phase' = "ended"
  /\ UNCHANGED <<header, req, plan, recv_buf, session, asked, inbox, bounced, mishaps>>

(* Mutant: a command goes out with what there is.                          *)
SendWriteEarly ==
  /\ phase = "fill"
  /\ recv_buf > 0
  /\ recv_buf' = recv_buf - Next512
  /\ IF Head(plan).domain = "CARTROM"
     THEN phase' = "confirm" /\ Sends(<<"write">>) /\ UNCHANGED plan
     ELSE GoesOn(Advanced, "fill", "idle") /\ Sends(<<>>)
  /\ UNCHANGED <<header, req, session, inbox>>

(* Mutant: what is left in the buffer is dropped with the command.         *)
SendWriteAll ==
  /\ phase = "fill"
  /\ recv_buf >= Next512
  /\ recv_buf' = 0
  /\ IF Head(plan).domain = "CARTROM"
     THEN phase' = "confirm" /\ Sends(<<"write">>) /\ UNCHANGED plan
     ELSE GoesOn(Advanced, "fill", "idle") /\ Sends(<<>>)
  /\ UNCHANGED <<header, req, session, inbox>>

(* A whole command goes out; only one to ROM waits. *)
SendWrite ==
  /\ phase = "fill"
  /\ recv_buf >= Next512
  /\ recv_buf' = recv_buf - Next512
  /\ IF Head(plan).domain = "CARTROM"
     THEN phase' = "confirm" /\ Sends(<<"write">>) /\ UNCHANGED plan
     ELSE GoesOn(Advanced, "fill", "idle") /\ Sends(<<>>)
  /\ UNCHANGED <<header, req, session, inbox>>

(* Any datagram but a refusal is as good as none. *)
Confirm ==
  /\ phase = "confirm"
  /\ inbox # <<>>
  /\ inbox' = Tail(inbox)
  /\ IF Head(inbox) = "-1"
     THEN phase' = "ended" /\ UNCHANGED plan
     ELSE GoesOn(Advanced, "fill", "idle")
  /\ UNCHANGED <<header, req, recv_buf, session, asked, bounced, mishaps>>

(* No datagram in a tenth of a second, or an error of the socket, which    *)
(* the task takes for the same.                                            *)
ConfirmTimeout ==
  /\ phase = "confirm"
  /\ inbox = <<>> \/ bounced
  /\ GoesOn(Advanced, "fill", "idle")
  /\ bounced' \in {bounced, FALSE}
  /\ mishaps' = IF asked = <<>> /\ inbox = <<>> THEN mishaps ELSE mishaps \cup {"late"}
  /\ UNCHANGED <<header, req, recv_buf, session, asked, inbox>>

(* Elsewhere an error of a send or a receive ends the device at once: what *)
(* came back of something sent before, be it for another request, or a     *)
(* socket that is broken itself or takes no datagram for a second.         *)
SocketFails ==
  /\ \/ phase \in {"read", "await", "spoilt"}
     \/ phase = "fill" /\ recv_buf >= Next512
  /\ phase' = "ended"
  /\ mishaps' = IF bounced THEN mishaps ELSE mishaps \cup {"broken"}
  /\ UNCHANGED <<header, req, plan, recv_buf, session, asked, inbox, bounced>>

DeviceTask ==
  \/ SendRead \/ ReadAnswer \/ ReadTimeout \/ DownloadEnds
  \/ GotZeroData \/ SendWrite \/ Confirm \/ ConfirmTimeout

-----------------------------------------------------------------------------
(* It forwards what it was given and drops its end with the last byte, or  *)
(* leaves before.                                                          *)
SessionForwards ==
  /\ Download /\ listening
  /\ taken < sent
  /\ taken' = sent
  /\ listening' \in IF sent >= Total THEN {FALSE} ELSE BOOLEAN
  /\ UNCHANGED <<header, phase, req, plan, recv_buf, sent, asked, inbox, bounced, mishaps>>

SessionAbandons ==
  /\ req.cmd = "PutAddress" /\ listening
  /\ listening' = FALSE
  /\ mishaps' = mishaps \cup {"abandoned"}
  /\ UNCHANGED <<header, phase, req, plan, recv_buf, sent, taken, asked, inbox, bounced>>

-----------------------------------------------------------------------------
(* RetroArch answers the oldest command; an error is one datagram, and it  *)
(* says what it has written.                                               *)
Answers ==
  /\ asked # <<>>
  /\ asked' = Tail(asked)
  /\ \E m \in {"-1"} \cup IF Head(asked) = "read" THEN {"data", "short"} ELSE {"done"} :
       /\ inbox' = Append(inbox, m)
       /\ mishaps' = IF m = "-1" THEN mishaps \cup {"refused"} ELSE mishaps
  /\ UNCHANGED <<header, phase, req, plan, recv_buf, session, bounced>>

(* A command or its answer is lost. *)
Lost ==
  /\ asked # <<>>
  /\ asked' = Tail(asked)
  /\ UNCHANGED <<header, phase, req, plan, recv_buf, session, inbox, bounced, mishaps>>

(* A task that ended is gone for good. *)
Stays == phase \in {"ended", "panicked"} /\ UNCHANGED vars

Next ==
  \/ \E cmd \in {"GetAddress", "PutAddress"}, l \in Lists : Take(cmd, l)
  \/ DeviceTask \/ SocketFails
  \/ Fill
  \/ SessionForwards \/ SessionAbandons
  \/ Answers \/ Lost
  \/ Stays

Spec == Init /\ [][Next]_vars

(* The task goes on, its timers expire, and a session forwards what it is  *)
(* given and sends the rest of its upload or leaves.  RetroArch may stop,  *)
(* and no error of the socket is counted on.                               *)
FairSpec ==
  /\ Spec
  /\ WF_vars(DeviceTask)
  /\ WF_vars(SessionForwards) /\ WF_vars(Fill \/ SessionAbandons)

-----------------------------------------------------------------------------
(* The type of the state. *)
TypeOK ==
  /\ rom_mapping \in {"LoROM", "HiROM", "ExHiROM", "SDD1", "SA1", "Unknown"}
  /\ rom_access \in BOOLEAN
  /\ phase \in {"idle", "read", "await", "spoilt", "closing", "fill", "confirm", "ended", "panicked"}
  /\ req \in [cmd : {"Info", "GetAddress", "PutAddress"}, list : Lists \cup {<<>>}]
  /\ plan \in Seq([domain : {"WRAM", "CARTRAM", "CARTROM"}, address : Nat, size : Nat])
  /\ recv_buf \in Nat /\ sent \in Nat /\ taken \in Nat /\ listening \in BOOLEAN
  /\ asked \in Seq({"read", "write"}) /\ inbox \in Seq({"data", "short", "-1", "done"})
  /\ bounced \in BOOLEAN
  /\ mishaps \subseteq {"refused", "timeout", "late", "abandoned", "unreachable", "broken"}

Busy == phase \in {"read", "await", "spoilt", "fill", "confirm"}

(* Bytes of the transfer are neither lost nor made up: what the plan has   *)
(* still to move is what the session has not had yet, or what it has not   *)
(* given and the buffer holds; when the task is done, all of it has moved. *)
AddsUp ==
  LET left == IF Busy THEN Bytes(plan) ELSE 0
      gone == IF phase = "confirm" THEN Next512 ELSE 0 IN
  Busy \/ phase \in {"closing", "idle"} =>
    left - gone = IF Download THEN Total - sent ELSE Total - sent + recv_buf

(* The byte of the transfer l that comes k-th: its domain and offset.      *)
Upto(l, i) == Bytes(SubSeq(l, 1, i))

Wanted(l, k) ==
  LET i == Min({ j \in 1..Len(l) : Upto(l, j) > k }) IN
  [domain |-> Domain(l[i].address), offset |-> Offset(l[i].address) + k - Upto(l, i - 1)]

(* What RetroArch has at a place of its system RAM or of the bus.          *)
Shown(mapping, domain, place) ==
  IF domain = "CARTROM" THEN [domain |-> domain, offset |-> RomByte(mapping, place)]
  ELSE IF place < 131072 THEN [domain |-> "WRAM", offset |-> place]
  ELSE [domain |-> "CARTRAM", offset |-> place - 131072]

(* The transfer l asks for memory that there is. *)
InReach(l) ==
  \A i \in 1..Len(l) :
    LET end == Offset(l[i].address) + l[i].size IN
    CASE Domain(l[i].address) = "CARTROM" -> end <= Reach(rom_mapping)
      [] Domain(l[i].address) = "WRAM" -> end <= 131072
      [] OTHER -> TRUE

(* Every command, of a read or of a write, is about the bytes whose turn   *)
(* it is, from its first to its last, and stays in one bank.               *)
RightPlace ==
  Busy /\ InReach(req.list) =>
    LET k == Total - Bytes(plan)
        at(j) == Shown(rom_mapping, Head(plan).domain, Target + j) IN
    /\ at(0) = Wanted(req.list, k)
    /\ at(Next512 - 1) = Wanted(req.list, k + Next512 - 1)
    /\ Head(plan).domain = "CARTROM" =>
         Target \div Bank = (Target + Next512 - 1) \div Bank

(* A device is given up when RetroArch refuses, does not answer or cannot  *)
(* be reached, be it a request later, when the socket is broken, when a    *)
(* session abandons its upload, or for ROM that cannot be reached.  It is  *)
(* lost without a word only after a write whose answer came too late.      *)
GivenUpExplained ==
  /\ phase = "panicked" => "late" \in mishaps
  /\ phase = "ended" =>
       \/ mishaps \cap {"refused", "timeout", "abandoned", "unreachable", "broken"} # {}
       \/ ~rom_access \/ ~Supported(rom_mapping)

(* Every request comes to its end and the task to the next one, or the     *)
(* device is given up, whatever RetroArch does.                            *)
Returns == (phase # "idle") ~> (phase \in {"idle", "ended", "panicked"})
=============================================================================
