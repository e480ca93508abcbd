----------------------------- MODULE EmuNwaWire -----------------------------
(***************************************************************************)
(* What one EmuNwa task and its emulator say to each other over TCP.  A    *)
(* download sends a command for each run of addresses of one memory domain *)
(* and then reads the answers in order; an upload sends, for each address, *)
(* a command, a header with the address's size and the frames that the     *)
(* session gives, and then reads the acknowledgement.  Nothing but order   *)
(* and counting ties answers to commands and bytes to addresses.           *)
(*                                                                         *)
(* Bytes are counted, not named.  The emulator is external: it handles     *)
(* commands in order, may answer short or with an error, and may close the *)
(* connection at any byte.                                                 *)
(***************************************************************************)
EXTENDS Sums

CONSTANTS
  Lists \* the addresses of a transfer, a set of sequences of [dom, size]

ASSUME ListsAssumption ==
  \A l \in Lists :
    /\ Len(l) \in Nat \ {0} /\ DOMAIN l = 1..Len(l)
    /\ \A i \in 1..Len(l) : l[i].size \in Nat

VARIABLES
  phase,     \* the await at which the device's task stands
  req,       \* the command in hand, and its addresses
  turn,      \* which answer or which address is next
  need,      \* bytes of the current answer still to be read
  moved,     \* write_len
  sent,      \* bytes of this transfer handed from task to session or back
  taken,     \* bytes of a download that the session has forwarded
  listening, \* the session still holds its end of the binary channel
  open,      \* the emulator has the connection open
  torn,      \* what came last of a closed connection is incomplete
  asked,     \* commands on their way, a number of bytes or Ascii
  wants,     \* bytes of data the emulator still takes for a write
  owesAck,   \* it has not acknowledged that write
  pipe,      \* answers on their way
  garbled,   \* the emulator was sent data for a command or the reverse
  mishaps    \* what went wrong so far

task == <<phase, req, turn, need, moved>>
session == <<sent, taken, listening>>
emulator == <<open, torn, asked, wants, owesAck, pipe, garbled>>
vars == <<task, session, emulator, mishaps>>

Ascii == -1 \* a textual command or answer
Junk == -2  \* an answer that is rejected

Sizes(l) == [i \in 1..Len(l) |-> l[i].size]
Total == SumOf(Sizes(req.list))
Download == req.cmd = "GetAddress"

(* Mutant: the command under way when the addresses end is not pushed.     *)
GroupsButLast(l) ==
  LET upTo[i \in 0..Len(l)] ==
        IF i = 0 THEN <<>>
        ELSE IF i > 1 /\ l[i].dom = l[i - 1].dom
             THEN [upTo[i - 1] EXCEPT ![Len(upTo[i - 1])] = @ + l[i].size]
             ELSE Append(upTo[i - 1], l[i].size)
  IN Front(upTo[Len(l)])

(* A CORE_READ for each run of addresses of one domain: the bytes of each. *)
Groups(l) ==
  LET upTo[i \in 0..Len(l)] ==
        IF i = 0 THEN <<>>
        ELSE IF i > 1 /\ l[i].dom = l[i - 1].dom
             THEN [upTo[i - 1] EXCEPT ![Len(upTo[i - 1])] = @ + l[i].size]
             ELSE Append(upTo[i - 1], l[i].size)
  IN upTo[Len(l)]

(* Answers that the request in hand still waits for. *)
Rounds ==
  CASE Download -> Len(Groups(req.list))
    [] req.cmd = "PutAddress" -> Len(req.list)
    [] req.cmd = "Info" -> 3
    [] OTHER -> 1

-----------------------------------------------------------------------------
Init ==
  /\ phase = "idle" /\ req = [cmd |-> "Plain", list |-> <<>>]
  /\ turn = 1 /\ need = 0 /\ moved = 0
  /\ sent = 0 /\ taken = 0 /\ listening = FALSE
  /\ open = TRUE /\ torn = FALSE
  /\ asked = <<>> /\ wants = 0 /\ owesAck = FALSE /\ pipe = <<>>
  /\ garbled = FALSE
  /\ mishaps = {}

(* Commands reach the emulator, unless it has closed or takes them for the *)
(* data that it still wants; once out of step it understands nothing.      *)
Understands == open /\ wants = 0 /\ ~garbled

Ask(commands) ==
  /\ asked' = IF Understands THEN asked \o commands ELSE asked
  /\ garbled' = (garbled \/ (open /\ wants > 0))
  /\ UNCHANGED <<open, torn, wants, owesAck>>

(* A bCORE_WRITE and its header. *)
AskWrite(n) ==
  /\ wants' = IF Understands THEN n ELSE wants
  /\ owesAck' = (Understands \/ owesAck)
  /\ garbled' = (garbled \/ (open /\ wants > 0))
  /\ UNCHANGED <<open, torn, asked>>

(* What a request that ended leaves behind. *)
Lasting == mishaps \cap {"spanned"}

(* EMULATOR_INFO, EMULATION_STATUS and GAME_INFO, or one textual command.  *)
TakePlain(cmd) ==
  /\ phase = "idle"
  /\ req' = [cmd |-> cmd, list |-> <<>>]
  /\ phase' = "ascii" /\ turn' = 1
  /\ mishaps' = Lasting
  /\ Ask(<<Ascii>>)
  /\ UNCHANGED <<need, moved, session, pipe>>

(* GetAddress: the session has its channel, all commands are sent.         *)
TakeDownload(l) ==
  /\ phase = "idle"
  /\ req' = [cmd |-> "GetAddress", list |-> l]
  /\ phase' = "head" /\ turn' = 1
  /\ sent' = 0 /\ taken' = 0
  /\ listening' = (SumOf(Sizes(l)) > 0)
  /\ Ask(Groups(l))
  /\ mishaps' = Lasting \cup { "zero" : g \in { g \in 1..Len(Groups(l)) : Groups(l)[g] = 0 } }
  /\ UNCHANGED <<need, moved, pipe>>

(* PutAddress: the session has its channel, the first write is sent.       *)
TakeUpload(l) ==
  /\ phase = "idle"
  /\ req' = [cmd |-> "PutAddress", list |-> l]
  /\ phase' = "frames" /\ turn' = 1
  /\ moved' = 0 /\ sent' = 0 /\ taken' = 0
  /\ listening' = TRUE
  /\ mishaps' = Lasting
  /\ AskWrite(l[1].size)
  /\ UNCHANGED <<need, pipe>>

Take ==
  \/ \E cmd \in {"Info", "Plain"} : TakePlain(cmd)
  \/ \E l \in Lists : TakeDownload(l) \/ TakeUpload(l)

-----------------------------------------------------------------------------
(* The task reads. *)

(* An answer has come, and a textual one as a whole. *)
Arrived == pipe # <<>> /\ ~(torn /\ Len(pipe) = 1 /\ Head(pipe) = Ascii)
TakeAnswer ==
  pipe' = Tail(pipe) /\ UNCHANGED <<open, torn, asked, wants, owesAck, garbled>>

(* The request is answered or fails; failing reports ConnectionClosed and  *)
(* ends the task, which closes its side.                                   *)
EndsWith(p) == phase' = p /\ UNCHANGED <<req, turn, need, moved>>

(* read_response has a textual answer: the next command or the end.        *)
AsciiAnswer ==
  /\ phase = "ascii"
  /\ Arrived
  /\ IF Head(pipe) = Ascii /\ turn < Rounds
     THEN /\ Ask(<<Ascii>>)
          /\ pipe' = Tail(pipe)
          /\ turn' = turn + 1
          /\ UNCHANGED <<phase, req, need, moved>>
     ELSE /\ TakeAnswer
          /\ EndsWith(IF Head(pipe) = Ascii THEN "idle" ELSE "ended")
  /\ UNCHANGED <<session, mishaps>>

(* Mutant: whatever read_response gives is taken for a size.               *)
ReadHeadUnchecked ==
  /\ phase = "head"
  /\ Arrived
  /\ TakeAnswer
  /\ phase' = "data" /\ need' = Head(pipe)
  /\ UNCHANGED <<req, turn, moved, session, mishaps>>

(* The header of the next answer to a read: its size is the emulator's.    *)
ReadHead ==
  /\ phase = "head"
  /\ Arrived /\ Head(pipe) >= 0
  /\ TakeAnswer
  /\ IF Head(pipe) > 0
     THEN phase' = "data" /\ need' = Head(pipe) /\ UNCHANGED <<req, turn, moved>>
     ELSE EndsWith("ended")
  /\ UNCHANGED <<session, mishaps>>

(* The answer is not binary, so the request has failed; but read_response  *)
(* takes up to 1024 bytes at a time until what it has ends in two newlines,*)
(* and so perhaps k answers, the ones to the next commands among them.  If *)
(* the last is no text, it goes on as long as those bytes do not happen to *)
(* end that way.                                                           *)
ReadText ==
  /\ \/ phase = "head" /\ Arrived /\ Head(pipe) < 0
     \/ phase = "text" /\ pipe # <<>>
  /\ \E k \in 1..Len(pipe) :
       /\ pipe' = SubSeq(pipe, k + 1, Len(pipe))
       /\ turn' = IF phase = "head" THEN turn + (k - 1) ELSE turn + k
       /\ LET over == \/ phase = "head" /\ k = 1
                      \/ pipe[k] = Ascii /\ ~(torn /\ k = Len(pipe))
          IN  phase' \in IF over THEN {"ended"} ELSE {"ended", "text"}
  /\ mishaps' = IF phase' = "text" THEN mishaps \cup {"swallowed"} ELSE mishaps
  /\ UNCHANGED <<req, need, moved, session, open, torn, asked, wants, owesAck, garbled>>

(* Mutant: an error of the send to the session ends the device.            *)
ReadDataUnwrapped ==
  /\ phase = "data"
  /\ need' = 0 /\ sent' = sent + need
  /\ ~(torn /\ pipe = <<>>)
  /\ phase' = IF ~listening THEN "ended" ELSE IF turn < Rounds THEN "head" ELSE "closing"
  /\ turn' = IF turn < Rounds THEN turn + 1 ELSE turn
  /\ UNCHANGED <<req, moved, taken, listening, emulator, mishaps>>

(* Mutant: the last answer is left in the stream.                          *)
ReadDataButLast ==
  /\ phase = "data"
  /\ \E n \in 1..need :
       /\ torn /\ pipe = <<>> => n < need
       /\ need' = need - n
       /\ sent' = IF listening THEN sent + n ELSE sent
  /\ phase' = IF need' > 0 THEN "data" ELSE IF turn + 1 < Rounds THEN "head" ELSE "closing"
  /\ turn' = IF need' = 0 /\ turn < Rounds THEN turn + 1 ELSE turn
  /\ UNCHANGED <<req, moved, taken, listening, emulator, mishaps>>

(* read_stream: what has come goes to the session, or nowhere.             *)
ReadData ==
  /\ phase = "data"
  /\ \E n \in 1..need :
       /\ torn /\ pipe = <<>> => n < need
       /\ need' = need - n
       /\ sent' = IF listening THEN sent + n ELSE sent
  /\ phase' = IF need' > 0 THEN "data" ELSE IF turn < Rounds THEN "head" ELSE "closing"
  /\ turn' = IF need' = 0 /\ turn < Rounds THEN turn + 1 ELSE turn
  /\ UNCHANGED <<req, moved, taken, listening, emulator, mishaps>>

(* tx.closed(): the session has dropped its end.                           *)
DownloadEnds ==
  /\ phase = "closing"
  /\ ~listening
  /\ EndsWith("idle")
  /\ UNCHANGED <<session, emulator, mishaps>>

(* The stream ends inside an answer.                                       *)
Cut ==
  /\ ~open
  /\ \/ torn /\ phase = "data" /\ pipe = <<>>
     \/ torn /\ phase \in {"ascii", "head", "ack"} /\ pipe = <<Ascii>>
     \/ phase = "text" /\ pipe = <<>>

(* A read at the end of the stream gives 0 bytes, which is no error, in    *)
(* read_stream and in the loop that reads a textual answer.  Empty slices  *)
(* go to the session for ever.                                             *)
Spins ==
  /\ Cut
  /\ EndsWith("spinning")
  /\ UNCHANGED <<session, emulator, mishaps>>

(* The stream has ended where an answer should begin, the connection was   *)
(* reset inside one, or a write fails.                                     *)
EndOfStream ==
  /\ ~open
  /\ \/ phase \in {"ascii", "head", "ack"} /\ pipe = <<>>
     \/ Cut
     \/ phase = "frames"
  /\ EndsWith("ended")
  /\ UNCHANGED <<session, emulator, mishaps>>

-----------------------------------------------------------------------------
(* Uploads. *)

(* write_stream: a frame goes to the emulator as it is, and counts for the *)
(* address in hand even where it goes beyond it.  The session cuts frames  *)
(* to the size of the whole transfer, and drops its end after the last.    *)
WriteFrame ==
  /\ phase = "frames"
  /\ moved < req.list[turn].size
  /\ listening
  /\ \E n \in 1..(Total - sent) :
       /\ moved' = moved + n
       /\ sent' = sent + n
       /\ listening' = (sent' < Total)
       /\ wants' = IF n < wants THEN wants - n ELSE 0
       /\ garbled' = (garbled \/ (open /\ n > wants))
       /\ mishaps' = IF moved' > req.list[turn].size
                     THEN mishaps \cup {"spanned"} ELSE mishaps
  /\ UNCHANGED <<phase, req, turn, need, taken, open, torn, asked, owesAck, pipe>>

(* Mutant: an upload that is cut short returns without its answer.         *)
FramesEndUnanswered ==
  /\ phase = "frames"
  /\ moved >= req.list[turn].size \/ ~listening
  /\ phase' = IF moved >= req.list[turn].size THEN "ack" ELSE "idle"
  /\ UNCHANGED <<req, turn, need, moved, session, emulator, mishaps>>

(* Enough bytes for this address, or the session's end is gone. *)
FramesEnd ==
  /\ phase = "frames"
  /\ moved >= req.list[turn].size \/ ~listening
  /\ EndsWith("ack")
  /\ UNCHANGED <<session, emulator, mishaps>>

(* The acknowledgement, whatever it says: the next address or the end.     *)
Acknowledged ==
  /\ phase = "ack"
  /\ Arrived
  /\ IF Head(pipe) # Junk /\ turn < Rounds
     THEN /\ turn' = turn + 1 /\ moved' = 0 /\ phase' = "frames"
          /\ pipe' = Tail(pipe)
          /\ AskWrite(req.list[turn + 1].size)
          /\ UNCHANGED <<req, need>>
     ELSE /\ TakeAnswer
          /\ EndsWith(IF Head(pipe) = Junk THEN "ended" ELSE "idle")
  /\ UNCHANGED <<session, mishaps>>

DeviceTask ==
  \/ AsciiAnswer \/ ReadHead \/ ReadText \/ ReadData \/ DownloadEnds
  \/ Spins \/ EndOfStream
  \/ FramesEnd \/ Acknowledged

-----------------------------------------------------------------------------
(* The session. *)

(* It forwards what it was given; it leaves if that fails, and drops its   *)
(* end when it has all.  It does not look up while it waits.               *)
SessionForwards ==
  /\ Download /\ listening
  /\ taken < sent
  /\ taken' = sent
  /\ listening' \in IF sent >= Total THEN {FALSE} ELSE BOOLEAN
  /\ UNCHANGED <<task, sent, emulator, mishaps>>

(* It leaves, or starts something else, in the middle of its upload.       *)
SessionAbandons ==
  /\ req.cmd = "PutAddress" /\ listening
  /\ listening' = FALSE
  /\ mishaps' = IF sent < Total THEN mishaps \cup {"abandoned"} ELSE mishaps
  /\ UNCHANGED <<task, sent, taken, emulator>>

-----------------------------------------------------------------------------
(* The emulator. *)

Replies(m, bad) ==
  /\ open
  /\ pipe' = Append(pipe, m)
  /\ mishaps' = IF bad THEN mishaps \cup {"refused"} ELSE mishaps

(* It answers a read with all bytes, with fewer, or with an error.         *)
AnswersRead ==
  /\ asked # <<>> /\ Head(asked) # Ascii
  /\ asked' = Tail(asked)
  /\ \/ Replies(Head(asked), FALSE)
     \/ \E m \in {0, Ascii, Junk} : Replies(m, TRUE)
     \/ \E m \in 1..(Head(asked) - 1) :
          open /\ pipe' = Append(pipe, m) /\ mishaps' = mishaps \cup {"short"}
  /\ UNCHANGED <<task, session, open, torn, wants, owesAck, garbled>>

AnswersAscii ==
  /\ asked # <<>> /\ Head(asked) = Ascii
  /\ asked' = Tail(asked)
  /\ Replies(Ascii, FALSE) \/ Replies(Junk, TRUE)
  /\ UNCHANGED <<task, session, open, torn, wants, owesAck, garbled>>

(* It acknowledges a write when it has all bytes of it.                    *)
AnswersWrite ==
  /\ owesAck /\ wants = 0
  /\ owesAck' = FALSE
  /\ Replies(Ascii, FALSE) \/ Replies(Junk, TRUE)
  /\ UNCHANGED <<task, session, open, torn, asked, wants, garbled>>

Emulator == AnswersRead \/ AnswersAscii \/ AnswersWrite

(* It closes; any suffix of what it sent may be lost.                      *)
Closes ==
  /\ open
  /\ open' = FALSE
  /\ \E k \in 0..Len(pipe), cut \in BOOLEAN :
       /\ cut => k > 0 \/ phase = "data"
       /\ k > 0 => ~(cut /\ pipe[k] \in {0, Junk})
       /\ pipe' = SubSeq(pipe, 1, k)
       /\ torn' = cut
       /\ mishaps' = mishaps \cup (IF cut THEN {"torn"} ELSE {})
  /\ asked' = <<>> /\ wants' = 0 /\ owesAck' = FALSE
  /\ UNCHANGED <<task, session, garbled>>

(* A task that ended is gone for good; one that spins stays, and so does   *)
(* one that waits for a session which waits for bytes that will not come.  *)
Stays ==
  /\ \/ phase \in {"ended", "spinning"}
     \/ phase = "closing" /\ listening /\ taken = sent
  /\ UNCHANGED vars

Next ==
  \/ Take
  \/ DeviceTask
  \/ WriteFrame
  \/ SessionForwards \/ SessionAbandons
  \/ Emulator \/ Closes
  \/ Stays

Spec == Init /\ [][Next]_vars

(* The task and the emulator go on, and so does a session, which forwards  *)
(* what it is given and sends the rest of its upload or leaves.            *)
FairSpec ==
  /\ Spec
  /\ WF_vars(DeviceTask) /\ WF_vars(Emulator)
  /\ WF_vars(SessionForwards) /\ WF_vars(WriteFrame \/ SessionAbandons)

-----------------------------------------------------------------------------
(* The type of the state. *)
TypeOK ==
  /\ phase \in {"idle", "ascii", "head", "data", "text", "closing", "frames", "ack",
               "spinning", "ended"}
  /\ req \in [cmd : {"Info", "Plain", "GetAddress", "PutAddress"}, list : Lists \cup {<<>>}]
  /\ turn \in Nat /\ need \in Nat /\ moved \in Nat
  /\ sent \in Nat /\ taken \in Nat /\ listening \in BOOLEAN
  /\ open \in BOOLEAN /\ torn \in BOOLEAN
  /\ asked \in Seq(Nat \cup {Ascii}) /\ pipe \in Seq(Nat \cup {Ascii, Junk})
  /\ wants \in Nat /\ owesAck \in BOOLEAN /\ garbled \in BOOLEAN
  /\ mishaps \subseteq {"zero", "refused", "short", "torn", "spanned", "abandoned", "swallowed"}

(* The answers that the request in hand has not had yet, and the bytes     *)
(* that the emulator was promised and not given.                           *)
Outstanding ==
  CASE phase = "head" -> Rounds - turn + 1
    [] phase \in {"data", "text"} -> Rounds - turn
    [] phase \in {"ascii", "frames", "ack"} -> 1
    [] OTHER -> 0

Promised == IF phase \in {"frames", "ack"} THEN req.list[turn].size - moved ELSE 0

(* Answers and commands pair up by order alone: no answer is left for the  *)
(* next request to take for its own, and no byte of an upload is missing   *)
(* or too many.  Only a frame that goes beyond its address puts the two    *)
(* out of step: an upload that is cut short does not, since it waits, and  *)
(* answers that are read as one were all to commands of one request.       *)
InStep ==
  /\ garbled => "spanned" \in mishaps
  /\ open /\ ~garbled /\ phase \notin {"ended", "spinning"} =>
       /\ Len(asked) + Len(pipe) + (IF owesAck THEN 1 ELSE 0) = Outstanding
       /\ wants = Promised

(* Answers are read as one, and the task may wait for ever for two         *)
(* newlines, only where a download of several commands was refused.        *)
SwallowExplained ==
  phase = "text" => "refused" \in mishaps /\ Download /\ Rounds > 1

(* The task and the session wait for each other, the one for closed(), the *)
(* other for bytes, only after an answer that was short.                   *)
NoMutualWait ==
  phase = "closing" /\ listening /\ taken = sent => "short" \in mishaps

(* A device is given up only if its emulator refuses or closes, or for a   *)
(* read of no bytes: never for what a session does.                        *)
EndExplained == phase = "ended" => ~open \/ mishaps \cap {"refused", "zero"} # {}

(* Every request comes to its end and the task to the next one, unless the *)
(* session's frames span or fall short of an address, or the emulator      *)
(* answers short, closes inside an answer, or refuses a read when the      *)
(* answer to another follows at once.                                      *)
Returns ==
  (phase # "idle") ~>
    \/ phase \in {"idle", "ended"}
    \/ mishaps \cap {"short", "torn", "spanned", "abandoned", "swallowed"} # {}
=============================================================================
