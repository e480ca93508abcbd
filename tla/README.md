# A TLA+ model of ruccs

`ruccs` (Rust Console Control Server) speaks the usb2snes websocket protocol to
clients and forwards their requests to game consoles and emulators: sd2snes
flash cartridges on a serial port, Lua scripts that connect over TCP, RetroArch
over UDP, and emulators with the EmuNWA protocol over TCP. Several clients share
the devices; devices come and go. This directory holds a model of how its tasks
work together, what TLC checks of it, and what TLAPS proves of it.

## The system

| Component | State | Operations | Interacts with |
|---|---|---|---|
| websocket sessions, `server.rs` | per connection: `ClientState`, the attached device's Uuid, the channel of a transfer under way | accept, parse a message, handle a request, forward binary data both ways | the registry (read lock), device channels |
| registry and manager task, `manager.rs` | `Manager.devices` behind a `tokio::sync::RwLock`; the event channel `manager_rx` | list, look up, forward a request, apply creations and removals | everyone |
| device tasks, `devices/*.rs` | the request in hand, the channel of a transfer, the hardware connection | one loop per device: take a request, answer it, move its bytes | sessions (request, oneshot and binary channels), device managers (`ConnectionClosed`) |
| device managers, `devices/*.rs` | a `HashMap` of live devices by Uuid, port name, url or port number | start devices, drop them, announce both | enumerators, device tasks, the manager task |
| enumerators, `devices/*.rs` | which ports, urls or emulators they believe connected | poll, announce, be corrected by their manager | device managers |
| tray thread, `tao.rs` | the menu | rebuild the menu on a right click, blocking on the read lock | the registry |
| protocol parsing, `protocol.rs` | none | requests, operands, memory domains, opcodes | sessions, sd2snes |
| address mapping, `util/snes.rs` and `Retroarch::map_addresses` | none | ROM offsets to SNES addresses, splitting at banks | RetroArch |

What is hard in it: a session keeps the registry's read guard from the lookup of
a device until its reply, so a slow device, a waiting writer and every other
reader depend on each other; a session's upload and its next request can meet in
one device; a device's end is noticed at different times by its task, its
manager, its enumerator, the registry and the sessions attached to it; and every
hop is a bounded channel that makes its sender wait. Behind each device task is a
wire of its own, and on all of them only counting or order tells what an answer
or a byte belongs to: the task must send and await exactly what it announced,
although sessions leave in the middle, emulators answer short or late, and a
transfer crosses banks, blocks and addresses. `PROJECT.json` lists these
hazards one by one at the line where they bite, with the properties that watch
over them.

## The modules

The core: one system, split by task, over one set of variables.

- `ServerState` declares the state that the tasks share: the registry, the event
  channel, the lock's queue and read guards, each session, each device task and
  its request channel, the device managers' handles and unhandled reports, and the
  RetroArch whose removal its manager is in the middle of (`removal`). It
  also says when an end of a binary channel is still open and what is lost when
  a device task ends (`TaskEnds`: every unanswered request is failed).
- `ClientSessions` is `handle_client` and `handle_request`. A session's `mode`
  is the await it stands at: its select loop (`ready`, `sending`), the lock, room
  in the device's channel (`mailbox`), the `reply`, or the bytes of a download
  (`reading`). What the code does between two awaits is one action.
- `DeviceTasks` is the loop of the four device files. They share their shape and
  differ by `Kind`: which commands they know, whether they talk to the hardware
  before they answer, how an abandoned upload ends (a Lua task forgets it, an
  sd2snes pads it, RetroArch ends the device, EmuNWA waits for an
  acknowledgement), and whether a failure is reported or is a panic (a read of
  RetroArch may be either: its numbers are unwrapped at `retroarch.rs:128`).
- `Registry` is `run_manager`, the effect of the device managers on a device,
  and the tray. The handler of `RaRemoved` is three steps, as it waits twice
  (`retroarch.rs:285-289`): `RetroarchLost` takes the message, `SendClose` waits for
  room in the device's channel, `RetroarchRemoved` announces the removal. The manager
  of the RetroArchs does nothing else until it is through.
- `ControlServer` composes them: `Init`, `Next`, the fairness, the properties.
- `MCControlServer` gives constants values; each `.cfg` picks from it.

The device managers and their enumerators, each a system of its own. In the core
they appear only through what they do to devices; here the two tasks and their
channels are modelled, against one abstract specification.

- `DeviceFeed` is what a device manager promises the registry: a Uuid is
  announced once and taken back at most once, and no port, url or name has two
  devices that were announced and not taken back.
- `RetroarchManager`, `EmuNwaManager`, `Sd2SnesManager`, with `MC` modules. Each
  is shown to implement `DeviceFeed` (property `FeedSpec`). The Lua manager has
  no enumerator and no more state than a step of `Registry` shows.
- An EmuNWA or a RetroArch task may end with a report, a RetroArch task may also
  panic without one, and an sd2snes manager never hears of the end of a task. The
  questions of the RetroArch and EmuNWA enumerators, which have no timeout, may
  stay unanswered for ever (step `hung`).
- In all three the send of an event to the registry always has room; the
  waiting that a full event channel causes is in the core.

The wires: one device task against its hardware or emulator, with every command,
answer and byte of a transfer counted. In the core the same task's exchanges only
succeed or fail.

- `Sd2SnesWire` is `send_command`, `read_data`, `read_stream`, `write_stream` and
  the loop of `SD2Snes::start` over a serial line without framing: blocks,
  padding, trimming, vector commands of several addresses (`Opcode::from_request`),
  listings and files, and a cartridge that is unplugged at any step. A client's
  request may be odd in every way that the code lets through (`odd`, `noresp` and the
  sizes of a request), and any read or write of the port may time out
  (`ReadTimesOut`, `Write`, `Command`).
- `EmuNwaWire` is the same for `EmuNwa::start` over TCP: addresses grouped by
  memory domain (`Groups`), commands sent ahead of their answers, headers and
  acknowledgements, an emulator that refuses, answers short or closes anywhere. A
  textual answer is read in pieces of up to 1024 bytes until the text ends in two
  newlines (`ReadText`), so an error may swallow the answers that follow it.
- `RetroarchWire` is the same for `Retroarch::start` over UDP: `map_addresses`,
  commands of at most `CMD_SIZE` bytes, the timeouts of one second and of a tenth,
  answers that are short, refused, lost or late, datagrams that bounce off a closed
  port (`bounced`) and a socket that is broken itself (`SocketFails`).
- `AddressMap` holds the functions below it: `AddressInfo::create`, the mappings
  of `util/snes.rs` and the splitting of `map_addresses` at banks, with what the
  console shows at an address of its bus (`RomByte`, `Reach`) as the reference.

- `Sums` is the sum of a sequence, by which the wires count.

The theorems are in modules of their own: `ControlServerProofs` for the core,
`RetroarchManagerProofs`, `EmuNwaManagerProofs` and `Sd2SnesManagerProofs` for the
managers, `Sd2SnesWireProofs`, `EmuNwaWireProofs` and `RetroarchWireProofs` for the
wires, the last with the address map, and `SumsProofs` for the facts about sums that
the wires rest on.

### How data is abstracted

- In the core a binary channel carries slices of one transfer. A slice is written
  as the position where it ends, so order, loss, repetition and sums of bytes can
  be told from the numbers. Frames of no bytes are left out.
- In the core a request is its command, the size of its transfer, or the name to
  attach to. `Reset` stands for every command that is answered `Empty`, `Info` for
  every one answered with strings. A transfer has one address there; lists of
  addresses are in the wires.
- On a wire a byte has no value, only a place in a count. A session is reduced to
  its end of the binary channel: it forwards what it has, sends a frame, or drops
  its end. Room in the channel is the core's matter, not the wires'.
- The sizes of `Sd2SnesWire` are scaled: a block, a block of a vector, the values
  of a byte and the entries of a vector are constants. `RetroarchWire` and
  `AddressMap` have the code's own numbers.
- What a client may ask for that the sd2snes code does not expect is one field of a
  request: a `path` of more than 256 bytes, a second `name` too long for a `Rename`, a
  `space` without addresses (FILE or CONFIG) or `DATA64B` for a `flag`; `NORESP` is a
  field of its own. A request has at most one of the first four.
- The port of an sd2snes has its default timeout of 0 ms (`set_timeout` is commented
  out at `sd2snes.rs:261`), which some systems take for no waiting at all. So any read
  of bytes that are still to come may time out, and none has to.
- A write to an emulator takes the whole command, as a short command on a socket that
  has room in its buffer does; the count that `stream.write` gives at `emunwa.rs:58` is
  dropped by the code.
- What went wrong in a request is kept in a set (`mishaps`) or a flag (`tidy`,
  `stalled`, `garbled`) of the wires, so that a property can say "except after ...". No
  action of the task reads them, but for a `garbled` EmuNWA emulator, which
  understands nothing any more.
- An sd2snes task that panics leaves its device in the registry, as in the code
  (`mode = "gone"`, no report).
- The `RwLock` is a queue: a reader is granted at its head, a writer at its head
  with no read guard left. `get_names` and the manager's write live within one
  step. tokio's channels, oneshots and lock are external, and so are serial
  ports, cartridges and emulators.
- `EventCap` is the capacity of `manager_rx` plus the event that the manager
  task has taken and still holds while it waits for the lock.

## The runs

Core (`MCControlServer`). One or two devices, two sessions, binary channels of
capacity 1 or 2, transfers of up to 3 bytes and frames of up to 2: two bytes in
flight and one that does not fit are enough to cut, reorder or overrun; two
sessions are enough for one to wait behind the other in every queue; two Uuids of
one name are enough for a device and its successor; two events fill the event
channel. Between them the runs have all four kinds of devices.

| Run | Instance | Shows |
|---|---|---|
| `Transfers` | one sd2snes; transfers and files of 0 and 3 bytes | `UploadAddsUp`: bytes taken, queued and still expected make up the announced size |
| `TwoDevices` | a Lua device and an emulator that sessions move between | `OneTicket`: a waiting session's request is in one place, at its device, and nobody else's is anywhere, so no unwrap on a reply channel can fail; `DownloadAddsUp`: no byte is lost, repeated or another session's |
| `TwoLives` | two lives of one RetroArch | `GuardPinsDevice`: a request's device stays registered until the reply; `WaitsOnce`: the lock serves whoever waits for it; `RegistryFollowsHandles`: the registry lags by the queued events only; `TypeOK` |
| `Liveness` | one RetroArch, fair scheduling | `RequestsEnd`, `MenuOpens`, `EventsApplied`: nothing waits for ever, although a session may wait for a device that waits for that session's upload, behind a removal that waits for the lock; `RemovalsEnd`: the RetroArch manager gets through a removal, although its Close waits for room behind the requests to a busy device, or meets a device that has ended |
| `MenuBehindEmulator` (violation) | an emulator and an sd2snes, fair scheduling | one upload cut short to an emulator stops the tray, which `main.rs:50-51` promises not to happen |

Device managers. Three Uuids (a device, its successor, one more), one url or two
ports, channels of capacity 2, so that the order of messages between ports and
waiting for room happen. An emulator, a RetroArch or a cartridge may come and go
at any step. When the Uuids of the instance are used up the manager stops
creating devices, so the liveness properties claim nothing from there on.

| Run | Shows |
|---|---|
| `RetroarchFeed` | `FeedSpec`; `KnownIsServed`: what the enumerator takes for connected is served or about to be corrected; `NoStandoff`: the two tasks never wait for each other; `Found`: a RetroArch with a game gets a device, unless an answer was lost |
| `RetroarchIndex` (violation) | `devices[&url]` at `retroarch.rs:285` panics when a report overtakes a removal |
| `EmuNwaFeed` | `FeedSpec`; `OnePlace`: a known port is on its way, served or on its way back, never two of these; `Found`: a listening emulator gets a device, unless it refused the manager's own connection or a port kept silent |
| `Sd2SnesFeed` | `FeedSpec`; `FollowsPolls`: the manager hears what the polls found, in alternating messages, so that the index at `sd2snes.rs:489` finds its port; `UnpluggedIsRemoved` |

The index that holds for the sd2snes (part of `FollowsPolls`) fails for RetroArch
(`RetroarchIndex`): the sd2snes manager hears of removals from one task only. The
panics of the sd2snes manager on a port that it cannot open (`sd2snes.rs:258`) and of
its enumerator on a poll that fails (`sd2snes.rs:531`) are actions of the model,
`OpenPanics` and `PollPanics`; `UnpluggedIsRemoved` claims nothing after one, the other
properties hold in spite of both.

Wires. A request follows another without bound, each of any kind and any of the
given lists of addresses, so whatever one leaves behind meets the next.

| Run | Instance | Shows |
|---|---|---|
| `Sd2SnesWire` | blocks of 4 and 2 bytes, bytes of 3 values, vectors of 2 entries; lists that are empty, short, one block and more, exactly at and over each limit; files of 0, 1, 4 and 5 bytes, listings of 1, 4 and 5; one stale byte on its way when a command is sent (`InFlight`) | `InStep`: task and cartridge agree on every byte to come, whatever the session does, as long as requests fit their command (`tidy`) and the port has not timed out (`stalled`); `Trimmed`: a session gets its bytes and no padding; `PanicExplained`: the task panics only for an unplugged cartridge, a port that timed out, a command that overran or named no length, or an Info or a listing after a request that did not fit; `Returns`. What follows a request that does not fit is in the state space too |
| `EmuNwaWire` | lists of one, two and three addresses in two domains, of 0, 1 and 2 bytes: one, two and three commands ahead of their answers | `InStep`: answers and commands pair up, also after an error that was read together with the answers behind it, except after a frame that spans two addresses; `SwallowExplained`: answers are read as one, and the task may wait for ever for the end of the text, only where a download of several commands was refused; `NoMutualWait`: task and session wait for each other only after a short answer; `EndExplained`: only a refusal, a closed connection or a read of no bytes ends a device; `Returns` |
| `RetroarchWire` | all eight values of the header's mapping bits; transfers that cross a bank (0x7FF0, 32 bytes), end with one (0x7E00, 512), cover three (65000, 33500), cross or reach the end of a mapping (0x3FFFE0, 32), go through all domains, or have no bytes; frames of 256 and 768 around `CMD_SIZE`; two datagrams under way | `AddsUp`: no byte lost or made up between frames, commands, pieces and banks; `RightPlace`: each command is about the bytes whose turn it is; `GivenUpExplained`: why a device ends (a refusal, a timeout, an upload that was abandoned, a socket that reports an unreachable port, perhaps of the request before, or is broken, ROM out of reach), and that a silent panic needs a late answer; `Returns` |

Blocks of 4 have every remainder that the three cases of `read_stream` can tell
apart; two entries suffice for one too many. A list of three addresses has a first,
a middle and a last group. Two datagrams under way suffice for an answer to come
before the one that is waited for. One stale byte suffices to shift the answer to the
next command, and more than one only shift it further.

Deadlock is checked in every run. Every property of a passing run has a mutant:
a mapped definition changed as a plausible bug would change it, kept in the
module before the definition it replaces and marked `Mutant`. With it the same
run finds the property violated.

## Fairness

Safety is checked without any. For liveness, `FairTasks` assumes what tokio and the
operating system give: a task that can go on is run (weak fairness of each task's own
steps); the lock and the channels serve their waiters in order, so a session, or a
manager with a Close, that finds room in a device's channel again and again gets it
(strong fairness of `Post` and `SendClose`, which stands for the queue of a full
channel's senders); a websocket takes what is written to it or breaks; hardware answers.
Of an emulator only this is assumed: it acknowledges a write it received in full.
`FairPeers` assumes that a peer that announced an upload goes on with it, sends
something else, or leaves; a peer that does nothing keeps its device by design. In the
managers, both tasks run; a question is answered, refused or lost, and `Found` claims
nothing after one was lost. On the wires the device's task runs and its timers expire,
and a session forwards what it is given and goes on with its upload or leaves. The
cartridge sends what it owes and the EmuNWA emulator handles its commands, as neither
task sets a timeout; RetroArch is not assumed to answer at all. Nothing assumes that
devices appear, fail or are unplugged. `FairSpec` has no fairness on connecting, on
requests or on failures: a port need not time out (`ReadTimesOut`), a socket need not
report an error (`SocketFails`), and a poll need not panic (`PollPanics`).

## The proofs

Every safety property of the passing runs is a theorem, proved for any number of
sessions, devices of any kind, ports and Uuids, for every capacity and size, from the
modules' named assumptions alone (`ServerAssumption`, `ListsAssumption` and the like:
capacities and sizes are numbers, what must be finite is finite). Each rests on an
inductive invariant. Where it says more than the properties it was checked by TLC on
the runs' instances before it was proved, `PlanShows` excepted; a lemma per action, or
per task, shows that a step preserves each of its conjuncts.

### The core

`ControlServerProofs` has four invariants; each rests on the one before.

- `GuardInv` gives `TypeCorrect`, `GuardCorrect` (`GuardPinsDevice`) and
  `QueueCorrect` (`WaitsOnce`), and is the conjunction of the three. The last two
  are not inductive alone. That a removal cannot take a session's device while its
  request is out needs that only the manager removes, that the manager is granted
  the lock with no reader left, and that the readers are exactly the sessions in
  `mailbox` or `reply`. That a session granted the lock is one that waits for it
  needs `WaitsOnce`, and `WaitsOnce` needs the types: a session, the manager and the
  tray are told apart in the queue.
- `RegistryInv` gives `RegistryCorrect` (`RegistryFollowsHandles`). It adds
  `HandlesStarted`: a manager has handles of devices that it started, so a new device
  cannot meet an event about itself in the channel, and `RemovalHeld`: a device whose
  removal is under way keeps its handle until the removal is announced. From them
  follows `HandlesAreFed`:
  the composed system implements `DeviceFeed` for the managers' handles, with the
  device's name for its port.
- `RequestInv` gives `OneTicketCorrect`. `OneTicket` counts places, which no step
  preserves one by one; the invariant says of each place that what is held there is
  awaited by its session at this device (`HeldIsAwaited`), of each session that its
  request is held at one place of one device (`HeldOnce`, `AwaitedIsHeld`), and that
  a reply is there only for who asked (`RepliesAwaited`). The end of a task is the
  hard step: it fails all requests of its device at once.
- `TransferInv` gives `UploadCorrect` and `DownloadCorrect` (`UploadAddsUp`,
  `DownloadAddsUp`). Their sums say nothing of a session that has not yet begun its
  transfer or of a task that has ended one, from which the next sum starts:
  `SessionFresh` and `TaskFits` say that nothing is left over there. `Ordered` says
  that slices in a channel end one after the other, so that taking one adds what
  it should. A Lua task may take its next request while a session still reads
  (`DownloadFits`' last case); then everything was sent.

### The device managers

Each has one inductive invariant, the types and safety properties of its run, and
the refinement of `DeviceFeed`.

- `RetroarchManagerProofs`: `ManagerInv` gives `KnownIsServed`, `EndedIsReported` and
  `NoStandoff`. What was missing is how the two tasks' ideas of the one url differ:
  messages alternate and end with what the enumerator believes (`Alternates`,
  `InAgreement`), except on the way to a correction, or when the next message finds
  nothing and ends the manager (`Doomed`, the panic that `RetroarchIndex` finds).
  `FeedCorrect` holds in spite of that panic.
- `EmuNwaManagerProofs`: `EmuInv` gives `OnePlace` and `EndedIsReported`, with the
  reports in the channel told apart and each about a device that was announced and
  not taken back (`ReportsLive`), and the device that a report is about still the
  port's own while it is replaced (`BusyServes`, `HandleLives`).
  `EndedIsReported`, that a registered device whose task returned has a report to be
  handled, is a part of both invariants and has no run of its own.
- `Sd2SnesManagerProofs`: `UsbInv` gives `FollowsPolls`, for any capacity of the
  channel: lemmas say what the manager will have after any number of the queued
  messages, when one is added at the end or taken from the front. From it
  `RemovalFindsDevice`: the index at `sd2snes.rs:489` finds its port.

### The wires

- `Sd2SnesWireProofs`: `WireInv` gives `TypeOK`, `InStep`, `Trimmed` and
  `PanicExplained`, for every size of block, vector and transfer, every request and
  every timeout of the port. They are inductive
  together with `AnswerIsFirst`: no byte of a transfer has moved when its command is
  still to be answered. The proof rests on two facts about sizes: rounding up to
  blocks takes nothing away (`Padding`), and a command that fits its opcode tells the
  cartridge the very size that the task goes by (`FittingIsTold`). That an Info or a
  listing which fits is never misread, and so never panics, needs `InStep`.
- `EmuNwaWireProofs`: `EmuWireInv` gives `TypeOK`, `InStep`, `EndExplained`,
  `SwallowExplained` and `NoMutualWait`, for all lists of addresses. `InStep` counts answers;
  `EndExplained` and `NoMutualWait` are about what they say. The invariant adds that
  never more answers are out than are awaited, also out of step and after the
  connection closed (`NoneExtra`), that the i-th of them is what the i-th command
  asked for unless it was refused or short (`AnswersFit`), and that a session that
  listens has been given the bytes of the commands answered so far (`Delivered`), and
  that a text which goes on was a refusal of a download of several commands
  (`TextFits`).
  `GroupsAddUp` closes the argument: the commands of a download read together what
  its addresses say, so a session that misses bytes at the end was answered short.
- `RetroarchWireProofs`: `RetroarchInv` gives `TypeOK`, `AddsUp`, `RightPlace` and
  `GivenUpExplained`, for all lists of addresses. What `RightPlace` says of the next
  command is inductive only for all that is left: the pieces of the plan, one after
  the other, show the rest of the request's bytes (`PlanShows`). For the others the
  invariant says where in which request the task stands (`StagesFit`), that until a
  write is answered too late one command at a time is under way and each answer is
  one to the command that waits for it (`Timely`), that a refusal or an error in the
  socket was noted (`RefusalsNoted`, `BouncesNoted`), and that a session leaves an
  upload at its end or before (`UploadGiven`).
- `SumsProofs`, the first part of `EmuNwaWireProofs` and the address map need
  induction over sequences or numbers, and the library's induction theorems take a
  predicate as a parameter, which the provers here cannot instantiate. The lemmas
  take the least number at which the claim fails instead (`LeastNumber`, from `WFMin`,
  which quantifies over sets): that the functions behind a fold, behind `Groups` and
  behind `MapRom` exist, that a sum is a number, and what one more element adds to it.

The address map comes first in `RetroarchWireProofs`, in three results, each of which
rests on the one before.

- `PieceShown` is about one piece: one that `map_addresses` does not split, or the one
  it splits off, shows at each of its places the byte that was asked for and stays in
  its bank. `BankDivision` says how a number divides by the size of a bank; with it
  one lemma for each mapping (`LoRomShown`, `HiRomShown`, `ExHiRomShown`) follows the
  address through `ToSnes` and back through `RomByte`.
- `RunShown` is about a run of ROM: for every supported mapping, every offset and
  every length inside the mapping's reach, `MapRom` gives a chain of pieces, none of
  them across a bank, that shows the bytes in order and without a gap. What is split
  off is never nothing and never more than there is (`CutGoesOn`), so a function that
  splits all runs exists (`CutsExist`, `AllCutsExist`), and each of its chains shows
  its run.
- `TransferShown` is about a list of addresses, of whatever domains: the pieces that
  `MapAddresses` gives are as long as it in all and show its bytes in order.
  `GoesOnStands` and `AdvancedGoesOn` carry that over the loop of `read_stream` and
  `write_stream`: pieces of no bytes are dropped, and a command takes what it is about
  off the front.

`RomByte`, `Reach`, and `Shown` are the console's side, from how its mappings are
known to work, not from the code.

What is only model-checked: everything temporal. Liveness under fairness and `ENABLED`
are out of the prover's reach. `PlanShows` is proved but no run checks it: it asks for
a function to the natural numbers; its first and last byte are `RightPlace`, which the
run does check.

## Departures met while modelling

Two have runs of their own: `MenuBehindEmulator` and `RetroarchIndex`. The others
are in the models, as actions or as the exceptions that properties name:

- `server.rs:155`: the send of an upload's frame is unwrapped; it fails when the
  device has ended (`SendFrame`'s second case), and ends that session only.
- `emunwa.rs:348`: an emulator that refuses the manager's connection right after it
  answered the enumerator stays known and without a device (`Stranded`): a known
  port is not asked again (`emunwa.rs:418`), and only the failing reconnection at
  `emunwa.rs:379-382` tells the enumerator to forget one.
- `sd2snes.rs:538`: a cartridge unplugged and plugged in between two polls is not
  noticed and its device stays dead.
- `sd2snes.rs:531`: an error of `available_ports` ends the enumerator (`PollPanics`).
- `sd2snes.rs:192-195`: a size of 256 or more within a vector is cut to one byte
  (`Told`), so the task waits for bytes that were never asked for, and an entry after
  the eighth is an index out of bounds (`Overruns`), as is a second name too long for a
  `Rename`. The comment at `sd2snes.rs:350-351` says that such pairs are looped as
  single requests; `Opcode::from_request` picks `VGET` for every list of more than one
  address.
- `sd2snes.rs:217`: a transfer whose space is FILE or CONFIG matches no arm, so its
  command names no address and no size, and a vector's is not cut to 64 bytes (`Told`,
  `Spills`). A path of more than 256 bytes makes a command of two blocks
  (`sd2snes.rs:201`), and `DATA64B` on any command but a vector's makes the cartridge's
  blocks smaller than the task's (`TheirUnit`).
- `sd2snes.rs:97` and `122`: every error of a read is unwrapped, a timeout of a port that
  was never given one (`sd2snes.rs:261`) among them; `sd2snes.rs:81`: the errors of
  writes are ignored, so that the cartridge may miss what the task counts
  (`ReadTimesOut`, `Write`, `Command`).
- `sd2snes.rs:410`: a client's `NORESP` on `GetFile` makes the unwrapped answer
  `None`.
- `emunwa.rs:134-138`: a frame that goes beyond its address is counted wholly for
  it, so the emulator is sent data for a command (`spanned`).
- `emunwa.rs:74`: an error that answers the first of several reads is read together
  with what follows it; if that is binary, the task waits for two newlines that
  nobody sends (`swallowed`).
- `emunwa.rs:121` and `75`: the end of the stream inside an answer is polled for ever
  (`Spins`).
- `retroarch.rs:108`, `115`, `172`: an error of the socket ends the device, also one that
  belongs to a datagram of the request before; at `retroarch.rs:176` it is taken for an
  answer that did not come.
- `retroarch.rs:176`: an answer to a ROM write that comes after the timeout is taken
  by the next read, which may panic (`late`).
- `util/snes.rs:22`: under LoROM the offsets from 0x400000 on show the first half
  again; `InReach` leaves them out.
- `util/snes.rs:121`: the arm for `SPC7110` cannot match what three bits give.

## What is not modelled

- The text of commands and answers, JSON, operands, numbers and flags. An odd
  number of operands panics the session's task between two requests, where
  `PeerLeaves` already ends it.
- Negative addresses and sizes, and sizes of 2^32 and more, which the code casts.
- Flags of a request other than `NORESP` and `DATA64B` (`STREAM_BURST` and the like),
  and requests that are odd in two ways at once.
- How many stale bytes arrive while `clear_read_buffer` runs, beyond the bound `InFlight`,
  and a write to an emulator of which the socket takes a part (`emunwa.rs:58`).
- The fields of an answer to `Info`, and of the ROM's header all but its mapping.
  `to_snes` for other domains than ROM: nothing calls it for them.
- `DeviceManagerCommand::Close` and `EmuInfo::EmuRemoved` to the EmuNWA manager,
  `DeviceRequest::Close` to an EmuNWA task: handled by the code, sent by nothing.
- The bytes that a Lua script sends, which are read and dropped. The end of its
  stream, which the code does not recognise and polls for ever, changes no state.
- Drawing of the tray, logging, start-up errors such as a port already bound.
- A wire and the core are not composed: each has the other's part as a
  nondeterministic environment (a session that may leave at any step there, an
  exchange that may fail at any step here), and the product is out of TLC's reach.

## The plan

Done: the core, `DeviceFeed` and the three managers, the three wires, the address
map, and the proofs of all their safety properties and of the refinements. Left:
`RequestService`, the abstract promise of the server to one session (each request
answered once, by the device attached to, or the session ends), with `ControlServer`
shown to implement it from `RequestInv`.
