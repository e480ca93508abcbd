----------------------------- MODULE Sd2SnesWire -----------------------------
(***************************************************************************)
(* What one sd2snes task and its cartridge say to each other.  The serial  *)
(* line has no framing: commands, data and padding are told apart by       *)
(* counting alone, so the task and the cartridge must agree on the number  *)
(* of bytes of every command to the last one, whatever the session that    *)
(* sends or receives the data does.                                        *)
(*                                                                         *)
(* Bytes are counted, not named.  The cartridge is external: it answers a  *)
(* command with as many bytes as the command says and takes as many.  The  *)
(* port's timeout is left at 0 ms, which some systems take for no waiting  *)
(* at all and others for no limit: any read of bytes that have not come    *)
(* and any write may time out, and none need.                              *)
(***************************************************************************)
EXTENDS Sums

CONSTANTS
  Block,      \* bytes of a block, of a command and of an answer (512)
  VBlock,     \* bytes of a block of a vector transfer (64)
  ByteRange,  \* how many values a byte has (256)
  MaxEntries, \* addresses that the 64 bytes of a vector command hold (8)
  InFlight,   \* bound: stale bytes still on their way when a command is sent
  Lists,      \* the sizes of the addresses of a request, a set of sequences
  Lengths     \* lengths of directory listings and of files that are not empty

ASSUME WireAssumption ==
  /\ Block \in Nat \ {0} /\ VBlock \in Nat \ {0}
  /\ ByteRange \in Nat \ {0} /\ MaxEntries \in Nat \ {0} /\ InFlight \in Nat
  /\ Lists \subseteq Seq(Nat) \ {<<>>}
  /\ Lengths \subseteq Nat \ {0}

VARIABLES
  phase,     \* the await at which the device's task stands
  req,       \* the request in hand
  moved,     \* read_len or write_len
  sent,      \* bytes handed to the session's channel
  listening, \* the session still holds its end of the binary channel
  owes,      \* bytes the cartridge will still send
  wants,     \* bytes the cartridge still takes for data
  garbled,   \* it was sent data for a command, or a command for data
  stalled,   \* a read or a write of the port timed out
  plugged,   \* the cartridge is connected
  tidy       \* every request so far fits its command

wire == <<owes, wants, garbled, stalled>>
vars == <<phase, req, moved, sent, listening, wire, plugged, tidy>>

(* A request: the sizes of its addresses, or the length of the file or of  *)
(* the listing (which for a download only the cartridge knows); whether    *)
(* the client set NORESP, where the task does not set it itself; and what  *)
(* else is odd about it: a "path" of more than 256 bytes, a new "name" too *)
(* long for a Rename's command, a "space" that has no addresses (FILE or   *)
(* CONFIG), or DATA64B for a "flag".                                       *)
(* Plain stands for the commands that are answered Empty.                  *)
Request(cmd, sizes, noresp, odd) ==
  [cmd |-> cmd, sizes |-> sizes, noresp |-> noresp, odd |-> odd]

FileReads ==
  { Request("GetFile", <<n>>, b, o) : n \in Lengths \cup {0}, b \in BOOLEAN,
                                      o \in {"none", "path", "flag"} }

Requests ==
  { Request("Info", <<>>, FALSE, "none") } \cup
  { Request("Plain", <<>>, b, o) : b \in BOOLEAN, o \in {"none", "path", "name"} } \cup
  { Request("List", <<n>>, FALSE, o) : n \in Lengths, o \in {"none", "path", "flag"} } \cup
  FileReads \cup
  { Request("PutFile", <<n>>, FALSE, o) : n \in Lengths \cup {0},
                                          o \in {"none", "path", "flag"} } \cup
  { Request(c, s, FALSE, o) : c \in {"GetAddress", "PutAddress"}, s \in Lists,
                              o \in {"none", "space", "flag"} }

Download(r) == r.cmd \in {"GetAddress", "GetFile"}
Upload(r) == r.cmd \in {"PutAddress", "PutFile"}

Least(a, b) == IF a < b THEN a ELSE b

(* pad_size *)
Pad(n, b) == ((n + b - 1) \div b) * b

(* Opcode::from_request: a single address of 256 bytes or more makes a GET *)
(* or a PUT, every other list of addresses a VGET or a VPUT.               *)
Vector(r) ==
  /\ r.cmd \in {"GetAddress", "PutAddress"}
  /\ ~(Len(r.sizes) = 1 /\ r.sizes[1] >= ByteRange)

Unit(r) == IF Vector(r) THEN VBlock ELSE Block

(* The bytes that the task moves and those that go over the wire.          *)
Size(r) == SumOf(r.sizes)
Padded(r) == Pad(Size(r), Unit(r))

(* The bytes that the command names: each entry of a vector has one byte   *)
(* for its size, and a space without addresses leaves no address and no    *)
(* size in it.  The cartridge moves them in blocks of its own: DATA64B     *)
(* makes them small, and a vector's command always has it.                 *)
Told(r) ==
  IF r.odd = "space" THEN 0
  ELSE SumOf([i \in 1..Len(r.sizes) |-> IF Vector(r) THEN r.sizes[i] % ByteRange
                                                     ELSE r.sizes[i]])

TheirUnit(r) == IF r.odd = "flag" THEN VBlock ELSE Unit(r)

(* Writing the command runs past its end: a vector of too many entries, or *)
(* a Rename to too long a name.                                            *)
Overruns(r) ==
  r.odd = "name" \/ (Vector(r) /\ r.odd # "space" /\ Len(r.sizes) > MaxEntries)

(* The cartridge takes the bytes of the command for more than one: a path  *)
(* that spills into a second block, or a vector's command that was not cut *)
(* to 64 bytes.                                                            *)
Spills(r) == r.odd = "path" \/ (r.odd = "space" /\ Vector(r))

(* The length of a file is in an answer that was not asked for.            *)
Unanswered(r) == r.cmd = "GetFile" /\ r.noresp

(* The request fits its command: nothing odd, no entry cut or left over,   *)
(* and a file's length is answered.                                        *)
Fits(r) ==
  /\ Vector(r) => /\ Len(r.sizes) <= MaxEntries
                  /\ \A i \in 1..Len(r.sizes) : r.sizes[i] < ByteRange
  /\ r.odd = "none"
  /\ ~Unanswered(r)

(* send_command waits for an answer of one block.                          *)
Answers(r) == r.cmd = "Info" \/ (r.cmd \in {"GetFile", "Plain"} /\ ~r.noresp)

-----------------------------------------------------------------------------
Init ==
  /\ phase = "idle"
  /\ req = Request("Info", <<>>, FALSE, "none")
  /\ moved = 0 /\ sent = 0
  /\ listening = FALSE
  /\ owes = 0 /\ wants = 0 /\ garbled = FALSE /\ stalled = FALSE
  /\ plugged = TRUE
  /\ tidy = TRUE

(* The bytes that the task will still read, and write.                     *)
ToRead ==
  CASE phase = "answer" -> Block + (IF req.cmd = "GetFile" THEN Padded(req) ELSE 0)
    [] phase \in {"list", "read"} -> Padded(req) - moved
    [] OTHER -> 0

ToWrite == IF phase = "write" THEN Padded(req) - moved ELSE 0

(* The cartridge takes a command, or the write times out and it has none   *)
(* of it or a part.  clear_read_buffer has dropped what had arrived.       *)
Command(r) ==
  \/ /\ plugged
     /\ \E late \in 0..Least(owes, InFlight) :
          owes' = late + (IF Answers(r) THEN Block ELSE 0)
                       + (IF Download(r) \/ r.cmd = "List"
                          THEN Pad(Told(r), TheirUnit(r)) ELSE 0)
     /\ wants' = IF Upload(r) THEN Pad(Told(r), TheirUnit(r)) ELSE 0
     /\ garbled' = (garbled \/ wants > 0 \/ Spills(r))
     /\ UNCHANGED stalled
  \/ /\ plugged
     /\ owes' \in 0..Least(owes, InFlight)
     /\ garbled' \in {garbled, TRUE}
     /\ stalled' = TRUE
     /\ UNCHANGED wants
  \/ ~plugged /\ UNCHANGED wire

(* A request is taken; a transfer of addresses or an upload of a file is   *)
(* answered with its channel; the command is sent.  A command that         *)
(* overruns is an index out of bounds before anything is sent, and a       *)
(* GetFile without an answer is an unwrap on None after it.                *)
Take(r) ==
  /\ phase = "idle"
  /\ req' = r
  /\ tidy' = (tidy /\ Fits(r))
  /\ moved' = 0 /\ sent' = 0
  /\ listening' = (Upload(r) \/ r.cmd = "GetAddress")
  /\ IF Overruns(r)
     THEN phase' = "panicked" /\ UNCHANGED wire
     ELSE /\ Command(r)
          /\ phase' = CASE Unanswered(r)         -> "panicked"
                        [] Answers(r)            -> "answer"
                        [] r.cmd = "List"        -> "list"
                        [] r.cmd = "GetAddress"  -> "read"
                        [] Upload(r)             -> "write"
                        [] OTHER                 -> "idle"
  /\ UNCHANGED plugged

(* read_data(512) has the answer.  A GetFile knows its size from it and    *)
(* gives the session its channel, whether or not the session is there.     *)
Answered ==
  /\ phase = "answer"
  /\ owes >= Block
  /\ owes' = owes - Block
  /\ phase' = IF req.cmd = "GetFile" THEN "read" ELSE "idle"
  /\ listening' = (req.cmd = "GetFile")
  /\ UNCHANGED <<req, moved, sent, wants, garbled, stalled, plugged, tidy>>

(* One block of a listing, the last of which has the entry 0xFF.           *)
ListBlock ==
  /\ phase = "list"
  /\ owes >= Block
  /\ owes' = owes - Block
  /\ moved' = moved + Block
  /\ phase' = IF moved' >= Padded(req) THEN "idle" ELSE "list"
  /\ UNCHANGED <<req, sent, listening, wants, garbled, stalled, plugged, tidy>>

(* A block that is not the one expected: an Info or a listing that cannot  *)
(* be taken apart is an index out of bounds, a listing may end early or go *)
(* on, and a file has the length that the bytes happen to say.             *)
Misread ==
  /\ owes >= Block
  /\ garbled \/ owes # ToRead
  /\ \/ /\ phase = "answer" /\ req.cmd = "Info"
        /\ phase' = "panicked"
        /\ UNCHANGED <<req, listening>>
     \/ /\ phase = "list"
        /\ phase' \in {"list", "idle", "panicked"}
        /\ UNCHANGED <<req, listening>>
     \/ /\ phase = "answer" /\ req.cmd = "GetFile"
        /\ \E n \in Lengths \cup {0} : req' = [req EXCEPT !.sizes = <<n>>]
        /\ phase' = "read"
        /\ listening' = TRUE
  /\ owes' = owes - Block
  /\ UNCHANGED <<moved, sent, wants, garbled, stalled, plugged, tidy>>

(* Mutant: the padding is handed on too.                                   *)
WholeSlice(n) == n

(* Mutant: the first case is missing.                                      *)
SliceUnchecked(n) ==
  IF moved + n > Size(req) THEN n - ((moved + n) - Size(req)) ELSE n

(* What read_stream hands on of n more bytes: the padding is held back.    *)
Slice(n) ==
  CASE moved > Size(req)      -> 0
    [] moved + n <= Size(req) -> n
    [] moved <= Size(req) /\ moved + n > Size(req) -> n - ((moved + n) - Size(req))

(* Mutant: the send to the session is unwrapped.                           *)
ReadSomeUnwrapped ==
  /\ phase = "read"
  /\ moved < Padded(req)
  /\ \E n \in 1..Least(owes, Padded(req) - moved) :
       /\ owes' = owes - n
       /\ moved' = moved + n
       /\ sent' = IF listening THEN sent + Slice(n) ELSE sent
  /\ phase' = IF listening THEN phase ELSE "panicked"
  /\ UNCHANGED <<req, listening, wants, garbled, stalled, plugged, tidy>>

(* read_stream: the port gives some of the bytes it is waiting for, which  *)
(* go to the session as long as it listens.                                *)
ReadSome ==
  /\ phase = "read"
  /\ moved < Padded(req)
  /\ \E n \in 1..Least(owes, Padded(req) - moved) :
       /\ owes' = owes - n
       /\ moved' = moved + n
       /\ sent' = IF listening THEN sent + Slice(n) ELSE sent
  /\ UNCHANGED <<phase, req, listening, wants, garbled, stalled, plugged, tidy>>

(* Everything was read, and tx.closed() saw the session's end go.          *)
ReadEnds ==
  /\ phase = "read"
  /\ moved >= Padded(req)
  /\ ~listening
  /\ phase' = "idle"
  /\ UNCHANGED <<req, moved, sent, listening, wire, plugged, tidy>>

(* Of n bytes, k are written: all, or fewer because the write timed out or *)
(* nobody is there to take them.  write_data ignores the error.            *)
Write(n, k) ==
  /\ ~plugged => k = 0
  /\ wants' = wants - Least(k, wants)
  /\ garbled' = (garbled \/ k > wants)
  /\ stalled' = (stalled \/ (plugged /\ k < n))
  /\ UNCHANGED owes

(* write_stream: a frame of the session goes to the cartridge.             *)
WriteFrame ==
  /\ phase = "write"
  /\ listening
  /\ \E n \in 1..(Size(req) - moved) :
       /\ moved' = moved + n
       /\ \E k \in 0..n : Write(n, k)
  /\ UNCHANGED <<phase, req, sent, listening, plugged, tidy>>

(* The end of an upload with n bytes of padding, the only write whose      *)
(* error is unwrapped.                                                     *)
PadUpload(n) ==
  /\ \E k \in 0..n :
       /\ Write(n, k)
       /\ phase' = IF k < n THEN "panicked" ELSE "idle"
  /\ listening' = FALSE
  /\ UNCHANGED <<req, moved, sent, plugged, tidy>>

(* Mutant: an upload is padded from its promised size, not from what came. *)
WriteEndsAsPromised ==
  /\ phase = "write"
  /\ moved >= Size(req) \/ ~listening
  /\ PadUpload(Padded(req) - Size(req))

(* Mutant: a Sender that is gone is not noticed.                           *)
WriteEndsComplete ==
  /\ phase = "write"
  /\ moved >= Size(req)
  /\ PadUpload(Padded(req) - moved)

(* The upload is complete or abandoned; what is missing is padding.        *)
WriteEnds ==
  /\ phase = "write"
  /\ moved >= Size(req) \/ ~listening
  /\ PadUpload(Padded(req) - moved)

(* The task waits for bytes in a read that is unwrapped.                   *)
Reading == phase \in {"answer", "list"} \/ (phase = "read" /\ moved < Padded(req))

(* The port is gone.                                                       *)
ReadPanics ==
  /\ Reading
  /\ ~plugged
  /\ phase' = "panicked"
  /\ UNCHANGED <<req, moved, sent, listening, wire, plugged, tidy>>

(* The bytes have not come yet, and the port does not wait for them.       *)
ReadTimesOut ==
  /\ Reading
  /\ plugged
  /\ phase' = "panicked"
  /\ stalled' = TRUE
  /\ UNCHANGED <<req, moved, sent, listening, owes, wants, garbled, plugged, tidy>>

DeviceTask ==
  Answered \/ ListBlock \/ Misread \/ ReadSome \/ ReadEnds \/ WriteEnds \/ ReadPanics

(* The session leaves, or starts something else, in the middle.            *)
SessionLeaves ==
  /\ listening
  /\ listening' = FALSE
  /\ UNCHANGED <<phase, req, moved, sent, wire, plugged, tidy>>

(* The session has received what was announced and drops its end.          *)
SessionDone ==
  /\ listening
  /\ Download(req) /\ sent >= Size(req)
  /\ listening' = FALSE
  /\ UNCHANGED <<phase, req, moved, sent, wire, plugged, tidy>>

Unplug ==
  /\ plugged
  /\ plugged' = FALSE
  /\ owes' = 0 /\ wants' = 0
  /\ UNCHANGED <<phase, req, moved, sent, listening, garbled, stalled, tidy>>

(* A task that panicked is gone for good.                                  *)
Panicked == phase = "panicked" /\ UNCHANGED vars

Next ==
  \/ \E r \in Requests : Take(r)
  \/ DeviceTask \/ ReadTimesOut
  \/ WriteFrame
  \/ SessionLeaves \/ SessionDone
  \/ Unplug
  \/ Panicked

Spec == Init /\ [][Next]_vars

(* The task runs, the cartridge sends what it owes, and a session goes on  *)
(* with its upload or leaves, and drops a download that it has in full.  A *)
(* port may time out, but none has to: where 0 ms is no limit, nothing but *)
(* bytes ends a read.                                                      *)
FairSpec ==
  /\ Spec
  /\ WF_vars(DeviceTask)
  /\ WF_vars(WriteFrame \/ (Upload(req) /\ SessionLeaves))
  /\ WF_vars(SessionDone)

-----------------------------------------------------------------------------
(* The type of the state. *)
TypeOK ==
  /\ phase \in {"idle", "answer", "list", "read", "write", "panicked"}
  /\ req \in Requests
  /\ moved \in Nat /\ sent \in Nat
  /\ owes \in Nat /\ wants \in Nat
  /\ listening \in BOOLEAN /\ garbled \in BOOLEAN /\ stalled \in BOOLEAN
  /\ plugged \in BOOLEAN /\ tidy \in BOOLEAN

(* The task and the cartridge agree on every byte that is still to come,   *)
(* and so on where the next command begins, although sessions leave in the *)
(* middle of either transfer.  It needs requests that fit their commands   *)
(* and a port that waits, neither of which the code makes sure of.         *)
InStep ==
  tidy /\ plugged /\ ~stalled /\ phase # "panicked" =>
    owes = ToRead /\ wants = ToWrite /\ ~garbled

(* A session that stays gets the bytes it was announced and no padding,    *)
(* however the port cuts them: read_stream's three cases add up.           *)
Trimmed ==
  phase = "read" /\ listening => sent = Least(moved, Size(req))

(* The task panics because the cartridge is gone, the port timed out, the  *)
(* command overran or a file's length was not asked for; or, of the        *)
(* requests that fit, in an Info or a listing after one that did not.      *)
(* Nothing a session does ends it, nor any other size.                     *)
PanicExplained ==
  phase = "panicked" =>
    \/ ~plugged \/ stalled
    \/ Overruns(req) \/ Unanswered(req)
    \/ req.cmd \in {"Info", "List"} /\ ~tidy

(* Every request that fits comes to its end, and the task to the next one, *)
(* unless a write that timed out left the cartridge without its command or *)
(* an earlier request left it out of step.                                 *)
Returns == (phase # "idle") ~> (phase \in {"idle", "panicked"} \/ ~tidy \/ stalled)
=============================================================================
