--------------------------- MODULE Sd2SnesWireProofs ---------------------------
(* The serial line of an sd2snes task, for every size of block, of vector  *)
(* and of transfer: task and cartridge count alike.                        *)
EXTENDS Sd2SnesWire, SumsProofs

(* Padding adds to a transfer and takes nothing from it.                   *)
LEMMA Padding ==
  ASSUME NEW n \in Nat, NEW b \in Nat \ {0}
  PROVE  Pad(n, b) \in Nat /\ n <= Pad(n, b)
  <1> DEFINE q == (n + b - 1) \div b
  <1>1. q \in Nat /\ n + b - 1 < b * q + b
    OBVIOUS
  <1> HIDE DEF q
  <1>2. q * b \in Nat /\ q * b = b * q
    BY <1>1
  <1>3. n <= q * b
    BY <1>1, <1>2
  <1> QED BY <1>2, <1>3 DEF Pad, q

-----------------------------------------------------------------------------
(* What every request is made of. *)
RequestForm(r) ==
  /\ r.sizes \in Seq(Nat)
  /\ r.cmd \in {"Info", "Plain", "List", "GetFile", "PutFile", "GetAddress", "PutAddress"}
  /\ r.noresp \in BOOLEAN
  /\ r.odd \in {"none", "path", "name", "space", "flag"}

LEMMA RequestTypes ==
  ASSUME NEW r \in Requests
  PROVE  RequestForm(r)
  <1>1. CASE r \in { Request("Info", <<>>, FALSE, "none") }
    <2>1. <<>> \in Seq(Nat)
      OBVIOUS
    <2>2. r = Request("Info", <<>>, FALSE, "none")
      BY <1>1
    <2> QED BY <2>1, <2>2 DEF Request, RequestForm
  <1>2. CASE r \in { Request("Plain", <<>>, b, o) : b \in BOOLEAN, o \in {"none", "path", "name"} }
    <2>1. PICK b \in BOOLEAN, o \in {"none", "path", "name"} : r = Request("Plain", <<>>, b, o)
      BY <1>2
    <2>2. <<>> \in Seq(Nat)
      OBVIOUS
    <2> QED BY <2>1, <2>2 DEF Request, RequestForm
  <1>3. CASE r \in { Request("List", <<n>>, FALSE, o) : n \in Lengths, o \in {"none", "path", "flag"} }
    <2>1. PICK n \in Lengths, o \in {"none", "path", "flag"} : r = Request("List", <<n>>, FALSE, o)
      BY <1>3 DEF Request
    <2>2. <<n>> \in Seq(Nat)
      BY WireAssumption
    <2> QED BY <2>1, <2>2 DEF Request, RequestForm
  <1>4. CASE r \in FileReads
    <2>1. PICK n \in Lengths \cup {0}, b \in BOOLEAN, o \in {"none", "path", "flag"} :
            r = Request("GetFile", <<n>>, b, o)
      BY <1>4 DEF FileReads, Request
    <2>2. <<n>> \in Seq(Nat)
      BY WireAssumption
    <2> QED BY <2>1, <2>2 DEF Request, RequestForm
  <1>5. CASE r \in { Request("PutFile", <<n>>, FALSE, o) : n \in Lengths \cup {0},
                                          o \in {"none", "path", "flag"} }
    <2>1. PICK n \in Lengths \cup {0}, o \in {"none", "path", "flag"} :
            r = Request("PutFile", <<n>>, FALSE, o)
      BY <1>5 DEF Request
    <2>2. <<n>> \in Seq(Nat)
      BY WireAssumption
    <2> QED BY <2>1, <2>2 DEF Request, RequestForm
  <1>6. CASE r \in { Request(c, s, FALSE, o) : c \in {"GetAddress", "PutAddress"}, s \in Lists,
                              o \in {"none", "space", "flag"} }
    <2>1. PICK c \in {"GetAddress", "PutAddress"}, s \in Lists, o \in {"none", "space", "flag"} :
            r = Request(c, s, FALSE, o)
      BY <1>6 DEF Request
    <2>2. s \in Seq(Nat)
      BY WireAssumption
    <2> QED BY <2>1, <2>2 DEF Request, RequestForm
  <1> QED BY <1>1, <1>2, <1>3, <1>4, <1>5, <1>6 DEF Requests, Request

(* A file whose length was misread is still a request for that file. *)
LEMMA OtherLength ==
  ASSUME NEW r \in Requests, r.cmd = "GetFile", NEW n \in Lengths \cup {0}
  PROVE  [r EXCEPT !.sizes = <<n>>] \in Requests
  <1>1. r \in FileReads
    BY DEF Requests, Request
  <1>2. PICK m \in Lengths \cup {0}, b \in BOOLEAN, o \in {"none", "path", "flag"} :
          r = Request("GetFile", <<m>>, b, o)
    BY <1>1 DEF FileReads, Request
  <1>3. [r EXCEPT !.sizes = <<n>>] = Request("GetFile", <<n>>, b, o)
    BY <1>2 DEF Request
  <1>4. Request("GetFile", <<n>>, b, o) \in FileReads
    BY DEF FileReads
  <1>5. \A f : f \in FileReads => f \in Requests
    BY SMT DEF Requests, Request
  <1> QED BY <1>3, <1>4, <1>5

(* The sizes of a request are numbers, and its padding is at least them. *)
LEMMA RequestSizes ==
  ASSUME NEW r \in Requests
  PROVE  /\ Unit(r) \in Nat \ {0}
         /\ Size(r) \in Nat /\ Padded(r) \in Nat /\ Size(r) <= Padded(r)
         /\ Pad(Told(r), TheirUnit(r)) \in Nat
  <1>1. Unit(r) \in Nat \ {0}
    BY WireAssumption DEF Unit
  <1>2. Size(r) \in Nat
    BY RequestTypes, SumIsNumber DEF Size, RequestForm
  <1>3. Padded(r) \in Nat /\ Size(r) <= Padded(r)
    BY <1>1, <1>2, Padding DEF Padded
  <1>4. Told(r) \in Nat
    <2> DEFINE told == [i \in 1..Len(r.sizes) |-> IF Vector(r) THEN r.sizes[i] % ByteRange
                                                            ELSE r.sizes[i]]
    <2>1. \A i \in 1..Len(r.sizes) : r.sizes[i] \in Nat
      BY RequestTypes DEF RequestForm
    <2>2. \A n \in Nat : n % ByteRange \in Nat
      BY WireAssumption
    <2>3. told \in [1..Len(r.sizes) -> Nat]
      BY <2>1, <2>2
    <2>4. told \in Seq(Nat)
      <3>1. Len(r.sizes) \in Nat
        BY RequestTypes DEF RequestForm
      <3> HIDE DEF told
      <3> QED BY <2>3, <3>1
    <2> HIDE DEF told
    <2>5. SumOf(told) \in Nat
      BY <2>4, SumIsNumber
    <2> QED BY <2>5 DEF Told, told
  <1>5. TheirUnit(r) \in Nat \ {0}
    BY <1>1, WireAssumption DEF TheirUnit
  <1> QED BY <1>1, <1>2, <1>3, <1>4, <1>5, Padding

(* A command that its request fits names all bytes of it and no others. *)
LEMMA FittingIsTold ==
  ASSUME NEW r \in Requests, Fits(r)
  PROVE  Pad(Told(r), TheirUnit(r)) = Padded(r)
  <1> DEFINE told == [i \in 1..Len(r.sizes) |-> IF Vector(r) THEN r.sizes[i] % ByteRange
                                                          ELSE r.sizes[i]]
  <1>1. r.sizes \in Seq(Nat)
    BY RequestTypes DEF RequestForm
  <1>2. \A n \in Nat : n < ByteRange => n % ByteRange = n
    BY WireAssumption
  <1>3. \A i \in 1..Len(r.sizes) : r.sizes[i] \in Nat /\ told[i] = r.sizes[i]
    BY <1>1, <1>2 DEF Fits
  <1>4. told = r.sizes
    <2>1. told \in [1..Len(r.sizes) -> Nat]
      <3>1. \A i \in 1..Len(r.sizes) : told[i] \in Nat
        BY <1>3
      <3>2. told = [i \in 1..Len(r.sizes) |-> told[i]]
        OBVIOUS
      <3> HIDE DEF told
      <3> QED BY <3>1, <3>2
    <2> HIDE DEF told
    <2>2. r.sizes \in [1..Len(r.sizes) -> Nat]
      BY <1>1
    <2> QED BY <1>3, <2>1, <2>2
  <1>5. Told(r) = SumOf(told) /\ TheirUnit(r) = Unit(r)
    BY DEF Fits, Told, TheirUnit
  <1> HIDE DEF told
  <1> QED BY <1>4, <1>5 DEF Padded, Size

-----------------------------------------------------------------------------
(* An answer comes before any byte of the transfer it announces, and only  *)
(* a listing is read as one.                                               *)
AnswerIsFirst ==
  /\ phase = "answer" => moved = 0 /\ sent = 0
  /\ phase = "list" => req.cmd = "List"

WireInv ==
  TypeOK /\ InStep /\ Trimmed /\ PanicExplained /\ AnswerIsFirst

(* What a step that leaves the request alone leaves alone with it. *)
LEMMA SameRequest ==
  ASSUME UNCHANGED req
  PROVE  UNCHANGED <<Padded(req), Size(req), Overruns(req), Unanswered(req)>>
  BY DEF Padded, Size, Unit, Vector, Overruns, Unanswered

LEMMA InitialWire == Init => WireInv
  <1> SUFFICES ASSUME Init PROVE WireInv
    OBVIOUS
  <1>1. req \in Requests
    <2>1. Request("Info", <<>>, FALSE, "none") \in Requests
      BY DEF Requests
    <2> QED BY <2>1 DEF Init
  <1>2. TypeOK
    BY <1>1 DEF Init, TypeOK
  <1>3. InStep /\ Trimmed /\ PanicExplained /\ AnswerIsFirst
    BY DEF Init, InStep, ToRead, ToWrite, Trimmed, PanicExplained, AnswerIsFirst
  <1> QED BY <1>2, <1>3 DEF WireInv

(* Taking a request keeps task and cartridge in step: what is left in the  *)
(* wire is nothing, and the command names what the task will move.         *)
LEMMA CommandTypes ==
  ASSUME WireInv, NEW r \in Requests, Command(r)
  PROVE  owes' \in Nat /\ wants' \in Nat /\ garbled' \in BOOLEAN /\ stalled' \in BOOLEAN
  <1> DEFINE reads == IF Download(r) \/ r.cmd = "List" THEN Pad(Told(r), TheirUnit(r)) ELSE 0
             first == IF Answers(r) THEN Block ELSE 0
             left == 0..Least(owes, InFlight)
  <1>1. Pad(Told(r), TheirUnit(r)) \in Nat /\ Block \in Nat /\ InFlight \in Nat
    BY RequestSizes, WireAssumption
  <1>2. reads \in Nat /\ first \in Nat
    BY <1>1
  <1>3. owes \in Nat /\ wants \in Nat /\ garbled \in BOOLEAN /\ stalled \in BOOLEAN
    BY DEF WireInv, TypeOK
  <1>4. left \subseteq Nat
    BY <1>1, <1>3 DEF Least
  <1>5. CASE /\ \E late \in left : owes' = late + first + reads
             /\ wants' = IF Upload(r) THEN Pad(Told(r), TheirUnit(r)) ELSE 0
             /\ garbled' = (garbled \/ wants > 0 \/ Spills(r))
             /\ UNCHANGED stalled
    <2>1. PICK late \in left : owes' = late + first + reads
      BY <1>5
    <2> HIDE DEF reads, first, left
    <2>2. owes' \in Nat
      BY <1>2, <1>4, <2>1
    <2> QED BY <1>1, <1>3, <1>5, <2>2
  <1>6. CASE owes' \in left /\ garbled' \in {garbled, TRUE} /\ stalled' = TRUE /\ UNCHANGED wants
    BY <1>3, <1>4, <1>6
  <1>7. CASE UNCHANGED wire
    BY <1>3, <1>7 DEF wire
  <1> QED BY <1>5, <1>6, <1>7 DEF Command

(* The command of a request that fits, on a wire in step. *)
LEMMA FittingCommand ==
  ASSUME WireInv, NEW r \in Requests, Fits(r), Command(r),
         phase = "idle", tidy, plugged, ~stalled'
  PROVE  /\ owes' = (IF Answers(r) THEN Block ELSE 0)
                     + (IF Download(r) \/ r.cmd = "List" THEN Padded(r) ELSE 0)
         /\ wants' = IF Upload(r) THEN Padded(r) ELSE 0
         /\ ~garbled'
  <1>1. Pad(Told(r), TheirUnit(r)) = Padded(r)
    BY FittingIsTold
  <1>2. /\ \E late \in 0..Least(owes, InFlight) :
              owes' = late + (IF Answers(r) THEN Block ELSE 0)
                           + (IF Download(r) \/ r.cmd = "List" THEN Padded(r) ELSE 0)
        /\ wants' = IF Upload(r) THEN Padded(r) ELSE 0
        /\ garbled' = (garbled \/ wants > 0 \/ Spills(r))
        /\ UNCHANGED stalled
    BY <1>1 DEF Command
  <1>3. owes = 0 /\ wants = 0 /\ ~garbled
    BY <1>2 DEF WireInv, InStep, ToRead, ToWrite
  <1>4. ~(wants > 0) /\ ~Spills(r)
    BY <1>3 DEF Fits, Spills
  <1>5. ~garbled'
    BY <1>2, <1>3, <1>4, Zenon
  <1>6. \A late \in 0..Least(owes, InFlight) : late = 0
    BY <1>3, WireAssumption DEF Least
  <1>7. Padded(r) \in Nat /\ Block \in Nat
    BY RequestSizes, WireAssumption
  <1> QED BY <1>2, <1>5, <1>6, <1>7

LEMMA TakeWire ==
  ASSUME WireInv, NEW r \in Requests, Take(r)
  PROVE  WireInv'
  <1>1. r.cmd \in {"Info", "Plain", "List", "GetFile", "PutFile", "GetAddress", "PutAddress"}
    BY RequestTypes DEF RequestForm
  <1>2. Size(r) \in Nat /\ Padded(r) \in Nat /\ Block \in Nat
    BY RequestSizes, WireAssumption
  <1>3. TypeOK
    BY DEF WireInv
  <1>4. owes' \in Nat /\ wants' \in Nat /\ garbled' \in BOOLEAN /\ stalled' \in BOOLEAN
    <2>1. CASE Command(r)
      BY <2>1, CommandTypes
    <2>2. CASE UNCHANGED wire
      BY <1>3, <2>2 DEF wire, TypeOK
    <2> QED BY <2>1, <2>2 DEF Take
  <1>5. /\ phase' \in {"idle", "answer", "list", "read", "write", "panicked"}
        /\ req' = r /\ moved' = 0 /\ sent' = 0
        /\ listening' \in BOOLEAN /\ plugged' = plugged
        /\ tidy' = (tidy /\ Fits(r))
    BY <1>1 DEF Take, Upload
  <1>6. tidy' \in BOOLEAN
    BY <1>3, <1>5 DEF TypeOK, Fits
  <1>7. TypeOK'
    BY <1>3, <1>4, <1>5, <1>6 DEF TypeOK
  <1>8. phase' # "panicked" =>
          /\ Command(r)
          /\ phase' = CASE Answers(r)            -> "answer"
                        [] r.cmd = "List"        -> "list"
                        [] r.cmd = "GetAddress"  -> "read"
                        [] Upload(r)             -> "write"
                        [] OTHER                 -> "idle"
    BY <1>1 DEF Take, Answers, Upload, Unanswered
  <1>9. InStep'
    <2> SUFFICES ASSUME tidy', plugged', ~stalled', phase' # "panicked"
                 PROVE  owes' = ToRead' /\ wants' = ToWrite' /\ ~garbled'
      BY DEF InStep
    <2>1. tidy /\ Fits(r) /\ plugged /\ phase = "idle"
      <3>1. tidy /\ Fits(r)
        BY <1>5, Zenon
      <3>2. plugged
        BY <1>5, Zenon
      <3> QED BY <3>1, <3>2 DEF Take
    <2>2. /\ owes' = (IF Answers(r) THEN Block ELSE 0)
                     + (IF Download(r) \/ r.cmd = "List" THEN Padded(r) ELSE 0)
          /\ wants' = IF Upload(r) THEN Padded(r) ELSE 0
          /\ ~garbled'
      BY <1>8, <2>1, FittingCommand
    <2>3. ~(r.cmd = "GetFile" /\ r.noresp)
      BY <2>1 DEF Fits, Unanswered
    <2>4. CASE r.cmd = "GetFile"
      BY <1>2, <1>5, <1>8, <2>2, <2>3, <2>4 DEF Answers, Download, Upload, ToRead, ToWrite
    <2>5. CASE r.cmd \in {"Info", "Plain"}
      BY <1>2, <1>5, <1>8, <2>2, <2>5 DEF Answers, Download, Upload, ToRead, ToWrite
    <2>6. CASE r.cmd = "List"
      BY <1>2, <1>5, <1>8, <2>2, <2>6 DEF Answers, Download, Upload, ToRead, ToWrite
    <2>7. CASE r.cmd = "GetAddress"
      BY <1>2, <1>5, <1>8, <2>2, <2>7 DEF Answers, Download, Upload, ToRead, ToWrite
    <2>8. CASE r.cmd \in {"PutFile", "PutAddress"}
      BY <1>2, <1>5, <1>8, <2>2, <2>8 DEF Answers, Download, Upload, ToRead, ToWrite
    <2> QED BY <1>1, <2>4, <2>5, <2>6, <2>7, <2>8
  <1>10. Trimmed'
    BY <1>2, <1>5 DEF Trimmed, Least
  <1>11. PanicExplained'
    <2> SUFFICES ASSUME phase' = "panicked" PROVE Overruns(r) \/ Unanswered(r)
      BY <1>5 DEF PanicExplained
    <2> QED BY <1>1 DEF Take, Answers, Upload
  <1>12. AnswerIsFirst'
    BY <1>1, <1>5, <1>8 DEF AnswerIsFirst, Answers, Upload
  <1> QED BY <1>7, <1>9, <1>10, <1>11, <1>12 DEF WireInv

(* The steps of the task while it reads. *)
LEMMA AnsweredWire ==
  ASSUME WireInv, Answered
  PROVE  WireInv'
  <1>1. /\ Size(req) \in Nat /\ Padded(req) \in Nat /\ Block \in Nat
    BY RequestSizes, WireAssumption DEF WireInv, TypeOK
  <1>2. TypeOK'
    BY <1>1 DEF Answered, WireInv, TypeOK
  <1>3. InStep'
    BY <1>1 DEF Answered, WireInv, TypeOK, InStep, ToRead, ToWrite, AnswerIsFirst, Padded, Size, Unit, Vector
  <1>4. Trimmed'
    BY <1>1 DEF Answered, WireInv, TypeOK, Trimmed, AnswerIsFirst, Least, Size
  <1>5. PanicExplained' /\ AnswerIsFirst'
    BY DEF Answered, PanicExplained, AnswerIsFirst
  <1> QED BY <1>2, <1>3, <1>4, <1>5 DEF WireInv

(* A block that is not the one expected comes only out of step. *)
LEMMA MisreadWire ==
  ASSUME WireInv, Misread
  PROVE  WireInv'
  <1>1. phase \in {"answer", "list"}
    BY DEF Misread
  <1>2. ~(tidy /\ plugged /\ ~stalled)
    BY <1>1 DEF Misread, WireInv, InStep
  <1>3. InStep'
    BY <1>2 DEF Misread, InStep
  <1>4. Block \in Nat /\ Lengths \subseteq Nat
    BY WireAssumption
  <1>5. CASE phase = "answer" /\ req.cmd = "GetFile"
    <2>1. PICK n \in Lengths \cup {0} : req' = [req EXCEPT !.sizes = <<n>>]
      BY <1>5 DEF Misread
    <2>2. req' \in Requests
      BY <1>5, <2>1, OtherLength DEF WireInv, TypeOK
    <2>3. phase' = "read" /\ listening' = TRUE
      BY <1>5 DEF Misread
    <2>4. TypeOK'
      BY <1>4, <2>2, <2>3 DEF Misread, WireInv, TypeOK
    <2>5. Size(req)' \in Nat
      BY <2>2, RequestSizes DEF Size
    <2>6. Trimmed'
      BY <1>5, <2>5 DEF Misread, WireInv, Trimmed, AnswerIsFirst, Least
    <2> QED BY <1>3, <2>3, <2>4, <2>6 DEF WireInv, PanicExplained, AnswerIsFirst
  <1>6. CASE ~(phase = "answer" /\ req.cmd = "GetFile")
    <2>1. /\ req' = req /\ listening' = listening
          /\ phase' \in {"list", "idle", "panicked"}
          /\ req.cmd \in {"Info", "List"}
      BY <1>6 DEF Misread, WireInv, AnswerIsFirst
    <2>2. TypeOK'
      BY <1>4, <2>1 DEF Misread, WireInv, TypeOK
    <2>3. PanicExplained'
      BY <1>2, <2>1 DEF Misread, PanicExplained
    <2>4. AnswerIsFirst'
      BY <1>6, <2>1 DEF Misread, WireInv, AnswerIsFirst
    <2>5. Trimmed'
      BY <2>1 DEF Trimmed
    <2> QED BY <1>3, <2>2, <2>3, <2>4, <2>5 DEF WireInv
  <1> QED BY <1>5, <1>6

LEMMA ListBlockWire ==
  ASSUME WireInv, ListBlock
  PROVE  WireInv'
  <1>1. /\ Size(req) \in Nat /\ Padded(req) \in Nat /\ Block \in Nat
    BY RequestSizes, WireAssumption DEF WireInv, TypeOK
  <1>2. TypeOK'
    BY <1>1 DEF ListBlock, WireInv, TypeOK
  <1>3. InStep'
    <2>1. Padded(req)' = Padded(req)
      BY DEF ListBlock, Padded, Size, Unit, Vector
    <2> QED BY <1>1, <2>1 DEF ListBlock, WireInv, TypeOK, InStep, ToRead, ToWrite
  <1>4. Trimmed' /\ PanicExplained' /\ AnswerIsFirst'
    BY DEF ListBlock, WireInv, Trimmed, PanicExplained, AnswerIsFirst
  <1> QED BY <1>2, <1>3, <1>4 DEF WireInv

LEMMA ReadSomeWire ==
  ASSUME WireInv, ReadSome
  PROVE  WireInv'
  <1>1. /\ Size(req) \in Nat /\ Padded(req) \in Nat /\ Size(req) <= Padded(req)
        /\ owes \in Nat /\ moved \in Nat /\ sent \in Nat
    BY RequestSizes DEF WireInv, TypeOK
  <1>2. PICK n \in 1..Least(owes, Padded(req) - moved) :
          /\ owes' = owes - n
          /\ moved' = moved + n
          /\ sent' = IF listening THEN sent + Slice(n) ELSE sent
    BY DEF ReadSome
  <1>3. n \in Nat /\ n <= owes /\ n <= Padded(req) - moved
    BY <1>1, <1>2 DEF Least
  <1>4. Slice(n) \in Nat
    BY <1>1, <1>3 DEF Slice
  <1>5. Padded(req)' = Padded(req) /\ Size(req)' = Size(req)
    BY DEF ReadSome, Padded, Size, Unit, Vector
  <1>6. TypeOK'
    <2>1. owes' \in Nat /\ moved' \in Nat /\ sent' \in Nat
      BY <1>1, <1>2, <1>3, <1>4
    <2> QED BY <2>1 DEF ReadSome, WireInv, TypeOK
  <1>7. InStep'
    BY <1>1, <1>2, <1>3, <1>5 DEF ReadSome, WireInv, InStep, ToRead, ToWrite
  <1>8. Trimmed'
    <2> SUFFICES ASSUME listening PROVE sent + Slice(n) = Least(moved + n, Size(req))
      BY <1>2, <1>5 DEF ReadSome, Trimmed
    <2>1. sent = Least(moved, Size(req))
      BY DEF ReadSome, WireInv, Trimmed
    <2> QED BY <1>1, <1>3, <2>1 DEF Slice, Least
  <1>9. PanicExplained' /\ AnswerIsFirst'
    BY DEF ReadSome, PanicExplained, AnswerIsFirst
  <1> QED BY <1>6, <1>7, <1>8, <1>9 DEF WireInv

LEMMA ReadEndsWire ==
  ASSUME WireInv, ReadEnds
  PROVE  WireInv'
  <1>1. Padded(req) \in Nat /\ owes \in Nat /\ moved \in Nat
    BY RequestSizes DEF WireInv, TypeOK
  <1>2. TypeOK'
    BY DEF ReadEnds, WireInv, TypeOK, wire
  <1>3. InStep'
    BY <1>1 DEF ReadEnds, WireInv, InStep, ToRead, ToWrite, wire
  <1>4. Trimmed' /\ PanicExplained' /\ AnswerIsFirst'
    BY DEF ReadEnds, Trimmed, PanicExplained, AnswerIsFirst
  <1> QED BY <1>2, <1>3, <1>4 DEF WireInv

(* The steps of an upload: a frame never overruns what the cartridge takes, *)
(* and the padding at its end is exactly what it still takes.              *)
LEMMA WriteTypes ==
  ASSUME WireInv, NEW n \in Nat, NEW k \in 0..n, Write(n, k)
  PROVE  owes' \in Nat /\ wants' \in Nat /\ garbled' \in BOOLEAN /\ stalled' \in BOOLEAN
  BY DEF WireInv, TypeOK, Write, Least

(* On a wire in step a write that is not cut short is taken for data. *)
LEMMA WriteInStep ==
  ASSUME WireInv, NEW n \in Nat, NEW k \in 0..n, Write(n, k),
         phase = "write", tidy, plugged, ~stalled', n <= Padded(req) - moved
  PROVE  owes' = 0 /\ wants' = Padded(req) - moved - n /\ ~garbled' /\ k = n
  <1>1. Padded(req) \in Nat /\ moved \in Nat
    BY RequestSizes DEF WireInv, TypeOK
  <1>2. ~stalled /\ ~(k < n)
    <2>1. stalled' = (stalled \/ (plugged /\ k < n))
      BY DEF Write
    <2> QED BY <2>1
  <1>3. k = n
    BY <1>2
  <1>4. owes = 0 /\ wants = Padded(req) - moved /\ ~garbled
    BY <1>2 DEF WireInv, InStep, ToRead, ToWrite
  <1>5. owes' = 0 /\ wants' = wants - n
    BY <1>1, <1>3, <1>4 DEF Write, Least
  <1>6. ~(k > wants)
    BY <1>1, <1>3, <1>4
  <1>7. garbled' = (garbled \/ k > wants)
    BY DEF Write
  <1>8. ~garbled'
    BY <1>4, <1>6, <1>7, Zenon
  <1> QED BY <1>3, <1>4, <1>5, <1>8

LEMMA WriteFrameWire ==
  ASSUME WireInv, WriteFrame
  PROVE  WireInv'
  <1>1. /\ Size(req) \in Nat /\ Padded(req) \in Nat /\ Size(req) <= Padded(req)
        /\ moved \in Nat
    BY RequestSizes DEF WireInv, TypeOK
  <1>2. PICK n \in 1..(Size(req) - moved) : moved' = moved + n /\ \E k \in 0..n : Write(n, k)
    BY DEF WriteFrame
  <1>3. PICK k \in 0..n : Write(n, k)
    BY <1>2
  <1>4. n \in Nat /\ n <= Padded(req) - moved /\ moved' \in Nat
    BY <1>1, <1>2
  <1>5. UNCHANGED <<Padded(req), Size(req), Overruns(req), Unanswered(req)>>
    BY SameRequest DEF WriteFrame
  <1>6. TypeOK'
    BY <1>3, <1>4, WriteTypes DEF WriteFrame, WireInv, TypeOK
  <1>7. InStep'
    <2> SUFFICES ASSUME tidy, plugged, ~stalled' PROVE owes' = ToRead' /\ wants' = ToWrite' /\ ~garbled'
      BY DEF WriteFrame, InStep
    <2>1. owes' = 0 /\ wants' = Padded(req) - moved - n /\ ~garbled'
      BY <1>3, <1>4, WriteInStep DEF WriteFrame
    <2>2. ToRead' = 0 /\ ToWrite' = Padded(req) - (moved + n)
      BY <1>2, <1>5 DEF WriteFrame, ToRead, ToWrite
    <2> QED BY <1>1, <1>4, <2>1, <2>2
  <1>8. Trimmed' /\ PanicExplained' /\ AnswerIsFirst'
    BY DEF WriteFrame, Trimmed, PanicExplained, AnswerIsFirst
  <1> QED BY <1>6, <1>7, <1>8 DEF WireInv

LEMMA WriteEndsWire ==
  ASSUME WireInv, WriteEnds
  PROVE  WireInv'
  <1> DEFINE n == Padded(req) - moved
  <1>1. PICK k \in 0..n : Write(n, k) /\ phase' = IF k < n THEN "panicked" ELSE "idle"
    BY DEF WriteEnds, PadUpload
  <1>2. n \in Nat /\ k \in Nat
    BY RequestSizes DEF WireInv, TypeOK
  <1> HIDE DEF n
  <1>3. TypeOK'
    <2>1. owes' \in Nat /\ wants' \in Nat /\ garbled' \in BOOLEAN /\ stalled' \in BOOLEAN
      BY <1>1, <1>2, WriteTypes
    <2>2. phase' \in {"idle", "panicked"}
      BY <1>1
    <2> QED BY <2>1, <2>2 DEF WriteEnds, PadUpload, WireInv, TypeOK
  <1>4. InStep'
    <2> SUFFICES ASSUME tidy, plugged, ~stalled' PROVE owes' = ToRead' /\ wants' = ToWrite' /\ ~garbled'
      BY DEF WriteEnds, PadUpload, InStep
    <2>1. owes' = 0 /\ wants' = n - n /\ ~garbled'
      BY <1>1, <1>2, WriteInStep DEF WriteEnds, n
    <2>2. ToRead' = 0 /\ ToWrite' = 0
      BY <1>1 DEF ToRead, ToWrite
    <2> QED BY <1>2, <2>1, <2>2
  <1>5. PanicExplained'
    <2>1. stalled' = (stalled \/ (plugged /\ k < n))
      BY <1>1 DEF Write
    <2>2. phase' = "panicked" => k < n
      BY <1>1
    <2> QED BY <2>1, <2>2 DEF WriteEnds, PadUpload, PanicExplained
  <1>6. Trimmed' /\ AnswerIsFirst'
    BY <1>1 DEF Trimmed, AnswerIsFirst
  <1> QED BY <1>3, <1>4, <1>5, <1>6 DEF WireInv

(* The steps of the port and of the session. *)
LEMMA OtherWire ==
  ASSUME WireInv, ReadPanics \/ ReadTimesOut \/ SessionLeaves \/ SessionDone \/ Unplug \/ UNCHANGED vars
  PROVE  WireInv'
  <1>1. CASE ReadPanics
    BY <1>1 DEF ReadPanics, WireInv, TypeOK, InStep, Trimmed, PanicExplained, AnswerIsFirst, wire
  <1>2. CASE ReadTimesOut
    BY <1>2 DEF ReadTimesOut, WireInv, TypeOK, InStep, Trimmed, PanicExplained, AnswerIsFirst
  <1>3. CASE SessionLeaves \/ SessionDone \/ UNCHANGED vars
    <2>1. UNCHANGED <<phase, req, moved, sent, owes, wants, garbled, stalled, plugged, tidy>>
      BY <1>3 DEF SessionLeaves, SessionDone, vars, wire
    <2>2. UNCHANGED <<Padded(req), Size(req), Overruns(req), Unanswered(req)>>
      BY <2>1, SameRequest
    <2>3. InStep'
      BY <2>1, <2>2 DEF WireInv, InStep, ToRead, ToWrite
    <2>4. listening' \in {FALSE, listening}
      BY <1>3 DEF SessionLeaves, SessionDone, vars
    <2>5. TypeOK'
      BY <2>1, <2>4 DEF WireInv, TypeOK
    <2>6. Trimmed'
      BY <2>1, <2>2, <2>4 DEF WireInv, Trimmed
    <2>7. AnswerIsFirst'
      BY <2>1 DEF WireInv, AnswerIsFirst
    <2>8. PanicExplained'
      BY <2>1, <2>2 DEF WireInv, PanicExplained
    <2> QED BY <2>3, <2>5, <2>6, <2>7, <2>8 DEF WireInv
  <1>4. CASE Unplug
    <2>1. UNCHANGED <<Padded(req), Size(req), Overruns(req), Unanswered(req)>>
      BY <1>4, SameRequest DEF Unplug
    <2> QED BY <1>4, <2>1 DEF Unplug, WireInv, TypeOK, InStep, Trimmed, PanicExplained, AnswerIsFirst
  <1> QED BY <1>1, <1>2, <1>3, <1>4

(* The wire's invariant, for every size of a block, of a vector and of a   *)
(* transfer.                                                               *)
THEOREM WireInvariant == Spec => []WireInv
  <1>1. WireInv /\ [Next]_vars => WireInv'
    BY TakeWire, AnsweredWire, MisreadWire, ListBlockWire, ReadSomeWire, ReadEndsWire, WriteFrameWire,
       WriteEndsWire, OtherWire DEF Next, DeviceTask, Panicked
  <1> QED BY InitialWire, <1>1, PTL DEF Spec

(* The variables of the task and of its wire are of their types.           *)
THEOREM WireTypeCorrect == Spec => []TypeOK
  BY WireInvariant, PTL DEF WireInv

(* send_command, read_stream and write_stream (sd2snes.rs): as long as the *)
(* requests fit their commands and the port waits, task and cartridge      *)
(* agree on every byte to come, whatever a session does.                   *)
THEOREM InStepCorrect == Spec => []InStep
  BY WireInvariant, PTL DEF WireInv

(* read_stream (sd2snes.rs): a session that stays gets its bytes and no    *)
(* padding, however the port cuts them.                                    *)
THEOREM TrimmedCorrect == Spec => []Trimmed
  BY WireInvariant, PTL DEF WireInv

(* SD2Snes::start: a panic of the task has one of five causes, none of     *)
(* which is what a session does with its channel.                          *)
THEOREM PanicCorrect == Spec => []PanicExplained
  BY WireInvariant, PTL DEF WireInv
=============================================================================
