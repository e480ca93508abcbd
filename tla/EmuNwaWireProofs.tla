-------------------------- MODULE EmuNwaWireProofs --------------------------
(* The connection of an EmuNWA task, for any lists of addresses: how       *)
(* answers pair up with commands and bytes with addresses.                 *)
EXTENDS EmuNwaWire, SumsProofs, SequenceTheorems

-----------------------------------------------------------------------------
(* The commands of a download. *)

(* g counts the bytes of each command after the first n addresses of l.    *)
IsGrouping(upTo, l, n) ==
  upTo = [i \in 0..n |->
            IF i = 0 THEN <<>>
            ELSE IF i > 1 /\ l[i].dom = l[i - 1].dom
                 THEN [upTo[i - 1] EXCEPT ![Len(upTo[i - 1])] = @ + l[i].size]
                 ELSE Append(upTo[i - 1], l[i].size)]

(* The loop over the addresses computes one.                               *)
LEMMA GroupingExists ==
  ASSUME NEW l, Len(l) \in Nat
  PROVE  \E upTo : IsGrouping(upTo, l, Len(l))
  <1> DEFINE None == {n \in 0..Len(l) : ~ \E upTo : IsGrouping(upTo, l, n)}
  <1> SUFFICES ASSUME None # {} PROVE FALSE
    <2>1. Len(l) \in 0..Len(l)
      OBVIOUS
    <2> QED BY <2>1
  <1>1. None \in SUBSET Nat
    OBVIOUS
  <1>2. PICK n \in None : \A k \in None : n <= k
    BY <1>1, LeastNumber
  <1>3. n # 0
    <2> SUFFICES ASSUME n = 0 PROVE \E upTo : IsGrouping(upTo, l, n)
      OBVIOUS
    <2> DEFINE upTo == [i \in 0..n |-> <<>>]
    <2>1. \A i \in 0..n : i = 0
      OBVIOUS
    <2>2. IsGrouping(upTo, l, n)
      BY <2>1 DEF IsGrouping
    <2> QED BY <2>2
  <1>4. n - 1 \in 0..Len(l) /\ ~(n <= n - 1) /\ n \in Nat
    BY <1>3
  <1>5. PICK g : IsGrouping(g, l, n - 1)
    BY <1>2, <1>4
  <1> DEFINE upTo == [i \in 0..n |->
                        IF i = 0 THEN <<>>
                        ELSE IF i > 1 /\ l[i].dom = l[i - 1].dom
                             THEN [g[i - 1] EXCEPT ![Len(g[i - 1])] = @ + l[i].size]
                             ELSE Append(g[i - 1], l[i].size)]
  <1>6. \A i \in 0..(n - 1) : i \in 0..n /\ upTo[i] = g[i]
    <2>1. \A i \in 0..(n - 1) : i \in 0..n
      BY <1>4
    <2> QED BY <1>5, <2>1 DEF IsGrouping
  <1>7. \A i \in 0..n : i # 0 => i - 1 \in 0..(n - 1)
    BY <1>4
  <1>8. \A i \in 0..n : i # 0 => upTo[i - 1] = g[i - 1]
    BY <1>6, <1>7
  <1> DEFINE step(i, f) == IF i = 0 THEN <<>>
                           ELSE IF i > 1 /\ l[i].dom = l[i - 1].dom
                                THEN [f[i - 1] EXCEPT ![Len(f[i - 1])] = @ + l[i].size]
                                ELSE Append(f[i - 1], l[i].size)
  <1>9. \A i \in 0..n : step(i, g) = step(i, upTo)
    <2> HIDE DEF upTo
    <2> QED BY <1>8
  <1>10. upTo = [i \in 0..n |-> step(i, upTo)]
    <2>1. upTo = [i \in 0..n |-> step(i, g)]
      OBVIOUS
    <2> HIDE DEF upTo, step
    <2> QED BY <1>9, <2>1
  <1> HIDE DEF upTo
  <1>11. IsGrouping(upTo, l, n)
    BY <1>10 DEF IsGrouping
  <1> QED BY <1>11

(* What is added to the last of some numbers is added to their sum.        *)
LEMMA SumOfLast ==
  ASSUME NEW s \in Seq(Nat), Len(s) > 0, NEW x \in Nat
  PROVE  LET t == [s EXCEPT ![Len(s)] = @ + x]
         IN  t \in Seq(Nat) /\ Len(t) = Len(s) /\ SumOf(t) = SumOf(s) + x
  <1> DEFINE t == [s EXCEPT ![Len(s)] = @ + x]
             n == Len(s)
             f == SubSeq(s, 1, n - 1)
  <1>1. n \in Nat /\ n > 0 /\ s[n] \in Nat
    OBVIOUS
  <1>2. f \in Seq(Nat) /\ Len(f) = n - 1 /\ \A i \in 1..(n - 1) : f[i] = s[i]
    <2>1. \A i \in 1..(n - 1) : s[i] \in Nat
      OBVIOUS
    <2> HIDE DEF n
    <2>2. f \in Seq(Nat) /\ Len(f) = n - 1
      BY <1>1, <2>1, SubSeqProperties
    <2>3. \A i \in 1..(n - 1) : f[i] = s[i]
      BY <1>1, <2>1, SubSeqProperties
    <2> QED BY <2>2, <2>3
  <1>3. t \in Seq(Nat) /\ Len(t) = n /\ t[n] = s[n] + x /\ \A i \in 1..(n - 1) : t[i] = s[i]
    <2>1. s \in [1..n -> Nat]
      OBVIOUS
    <2>2. t = [i \in 1..n |-> IF i = n THEN s[n] + x ELSE s[i]]
      BY <2>1
    <2>3. \A i \in 1..n : (IF i = n THEN s[n] + x ELSE s[i]) \in Nat
      <3>1. \A i \in 1..n : s[i] \in Nat
        OBVIOUS
      <3> HIDE DEF n
      <3> QED BY <1>1, <3>1
    <2>4. t \in [1..n -> Nat]
      BY <2>2, <2>3
    <2> HIDE DEF t, n
    <2>5. t \in Seq(Nat) /\ Len(t) = n
      BY <1>1, <2>4
    <2>6. t[n] = s[n] + x /\ \A i \in 1..(n - 1) : t[i] = s[i]
      BY <1>1, <2>2
    <2> QED BY <2>5, <2>6
  <1> HIDE DEF t, f
  <1>4. s = Append(f, s[n])
    <2>1. Append(f, s[n]) \in Seq(Nat) /\ Len(Append(f, s[n])) = n
      BY <1>1, <1>2
    <2>2. \A i \in 1..n : Append(f, s[n])[i] = s[i]
      BY <1>1, <1>2
    <2> QED BY <2>1, <2>2, SeqEqual
  <1> HIDE DEF n
  <1>5. t = Append(f, s[n] + x)
    <2>1. Append(f, s[n] + x) \in Seq(Nat) /\ Len(Append(f, s[n] + x)) = n
      BY <1>1, <1>2
    <2>2. Append(f, s[n] + x)[n] = t[n]
      BY <1>1, <1>2, <1>3
    <2>3. \A i \in 1..(n - 1) : Append(f, s[n] + x)[i] = f[i]
      BY <1>1, <1>2
    <2>4. \A i \in 1..(n - 1) : Append(f, s[n] + x)[i] = t[i]
      BY <1>2, <1>3, <2>3
    <2>5. \A i \in 1..n : i = n \/ i \in 1..(n - 1)
      BY <1>1
    <2>6. \A i \in 1..n : Append(f, s[n] + x)[i] = t[i]
      BY <2>2, <2>4, <2>5
    <2> QED BY <1>3, <2>1, <2>6, SeqEqual
  <1>6. SumOf(s) = SumOf(f) + s[n]
    BY <1>1, <1>2, <1>4, SumOfMore
  <1>7. SumOf(t) = SumOf(f) + (s[n] + x)
    <2>1. s[n] + x \in Nat
      BY <1>1
    <2> QED BY <1>2, <1>5, <2>1, SumOfMore
  <1>8. SumOf(t) = SumOf(s) + x
    <2>1. SumOf(f) \in Nat
      BY <1>2, SumIsNumber
    <2> QED BY <1>1, <1>6, <1>7, <2>1
  <1>9. t \in Seq(Nat) /\ Len(t) = Len(s)
    BY <1>3 DEF n
  <1> QED BY <1>8, <1>9 DEF t

(* The bytes of one command more.                                          *)
LEMMA SumOfPrefix ==
  ASSUME NEW s \in Seq(Nat), NEW k \in 1..Len(s)
  PROVE  /\ SumOf(SubSeq(s, 1, k)) = SumOf(SubSeq(s, 1, k - 1)) + s[k]
         /\ SumOf(SubSeq(s, 1, k)) \in Nat /\ SumOf(SubSeq(s, 1, k - 1)) \in Nat
  <1>1. SubSeq(s, 1, k) = Append(SubSeq(s, 1, k - 1), s[k])
    OBVIOUS
  <1>2. SubSeq(s, 1, k - 1) \in Seq(Nat) /\ SubSeq(s, 1, k) \in Seq(Nat) /\ s[k] \in Nat
    OBVIOUS
  <1> QED BY <1>1, <1>2, SumOfMore, SumIsNumber

(* A download has a command at least, and its commands read what its       *)
(* addresses say.                                                          *)
LEMMA GroupsAddUp ==
  ASSUME NEW l, Len(l) \in Nat \ {0},
         \A i \in 1..Len(l) : l[i].size \in Nat
  PROVE  /\ Groups(l) \in Seq(Nat) /\ Len(Groups(l)) > 0
         /\ SumOf(Groups(l)) = SumOf(Sizes(l))
         /\ SumOf(Sizes(l)) \in Nat
  <1> DEFINE n == Len(l)
             upTo == CHOOSE upTo : IsGrouping(upTo, l, n)
             s == Sizes(l)
  <1>1. IsGrouping(upTo, l, n)
    BY GroupingExists
  <1>2. Groups(l) = upTo[n]
    BY Zenon DEF Groups, IsGrouping
  <1> HIDE DEF upTo
  <1>3. n \in Nat /\ n # 0
    OBVIOUS
  <1>4. s \in Seq(Nat) /\ Len(s) = n /\ \A i \in 1..n : s[i] = l[i].size /\ s[i] \in Nat
    <2>1. s \in [1..n -> Nat]
      BY DEF Sizes
    <2>2. \A i \in 1..n : s[i] = l[i].size
      BY DEF Sizes
    <2> HIDE DEF s, n
    <2> QED BY <1>3, <2>1, <2>2
  <1> HIDE DEF s
  <1> DEFINE Fits(i) == /\ upTo[i] \in Seq(Nat)
                        /\ i > 0 => Len(upTo[i]) > 0
                        /\ SumOf(upTo[i]) = SumOf(SubSeq(s, 1, i))
             Odd == {i \in 0..n : ~Fits(i)}
  <1>5. Odd = {}
    <2> SUFFICES ASSUME Odd # {} PROVE FALSE
      OBVIOUS
    <2>1. Odd \in SUBSET Nat
      OBVIOUS
    <2>2. PICK k \in Odd : \A j \in Odd : k <= j
      BY <2>1, LeastNumber
    <2>3. k \in 0..n /\ k \in Nat /\ ~Fits(k)
      OBVIOUS
    <2> HIDE DEF n
    <2>4. upTo[k] = IF k = 0 THEN <<>>
                    ELSE IF k > 1 /\ l[k].dom = l[k - 1].dom
                         THEN [upTo[k - 1] EXCEPT ![Len(upTo[k - 1])] = @ + l[k].size]
                         ELSE Append(upTo[k - 1], l[k].size)
      BY <1>1, <2>3 DEF IsGrouping
    <2>5. k # 0
      <3> SUFFICES ASSUME k = 0 PROVE Fits(k)
        BY <2>3
      <3>1. upTo[k] = <<>> /\ SubSeq(s, 1, k) = <<>>
        BY <1>4, <2>4
      <3>2. <<>> \in Seq(Nat)
        OBVIOUS
      <3> QED BY <3>1, <3>2
    <2>6. k - 1 \in 0..n /\ ~(k <= k - 1) /\ k \in 1..n
      BY <1>3, <2>3, <2>5
    <2>7. Fits(k - 1)
      BY <2>2, <2>6
    <2> DEFINE g == upTo[k - 1]
    <2>8. /\ g \in Seq(Nat) /\ (k > 1 => Len(g) > 0)
          /\ SumOf(g) = SumOf(SubSeq(s, 1, k - 1))
      BY <2>3, <2>6, <2>7
    <2>9. l[k].size \in Nat /\ l[k].size = s[k]
      BY <1>4, <2>6
    <2>10. SumOf(SubSeq(s, 1, k)) = SumOf(SubSeq(s, 1, k - 1)) + s[k]
      BY <1>4, <2>6, SumOfPrefix
    <2> HIDE DEF g
    <2>11. upTo[k] \in Seq(Nat) /\ Len(upTo[k]) > 0 /\ SumOf(upTo[k]) = SumOf(g) + s[k]
      <3>1. CASE k > 1 /\ l[k].dom = l[k - 1].dom
        <4>1. upTo[k] = [g EXCEPT ![Len(g)] = @ + s[k]]
          BY <2>4, <2>5, <2>9, <3>1 DEF g
        <4>2. Len(g) > 0 /\ s[k] \in Nat
          BY <2>8, <2>9, <3>1
        <4> QED BY <2>8, <4>1, <4>2, SumOfLast
      <3>2. CASE ~(k > 1 /\ l[k].dom = l[k - 1].dom)
        <4>1. upTo[k] = Append(g, s[k])
          BY <2>4, <2>5, <2>9, <3>2 DEF g
        <4>2. s[k] \in Nat
          BY <2>9
        <4>3. Append(g, s[k]) \in Seq(Nat) /\ Len(Append(g, s[k])) > 0
          BY <2>8, <4>2
        <4> QED BY <2>8, <4>1, <4>2, <4>3, SumOfMore
      <3> QED BY <3>1, <3>2
    <2>12. Fits(k)
      BY <2>8, <2>10, <2>11
    <2> QED BY <2>3, <2>12
  <1>6. n \in 0..n /\ n > 0
    BY <1>3
  <1>7. Fits(n)
    BY <1>5, <1>6
  <1>8. SubSeq(s, 1, n) = s
    BY <1>4
  <1>9. SumOf(s) \in Nat
    BY <1>4, SumIsNumber
  <1> QED BY <1>2, <1>6, <1>7, <1>8, <1>9 DEF s
-----------------------------------------------------------------------------
(* The invariant. *)

Stopped == phase \in {"ended", "spinning"}
Downloading == phase \in {"head", "data", "closing"}
Uploading == phase \in {"frames", "ack"}

(* Where the task stands belongs to the request in hand. *)
PhaseFits ==
  /\ phase = "ascii" => req.cmd \in {"Info", "Plain"}
  /\ Downloading => req.cmd = "GetAddress" /\ req.list \in Lists
  /\ Uploading => req.cmd = "PutAddress" /\ req.list \in Lists
  /\ phase = "ascii" \/ Downloading \/ Uploading => turn \in 1..Rounds
  /\ phase = "closing" => turn = Rounds

(* Whatever becomes of the connection, never more answers are on their way *)
(* than the task awaits, and only an upload has one acknowledged.          *)
NoneExtra ==
  /\ ~Stopped =>
       Len(asked) + Len(pipe) + (IF owesAck THEN 1 ELSE 0) <= Outstanding
  /\ owesAck => Uploading \/ Stopped
  /\ wants > 0 => owesAck

(* Commands of the download in hand that were answered. *)
Past == IF phase = "head" THEN turn - 1 ELSE turn

(* The i-th answer from here is what the i-th command asked for, except    *)
(* for what the emulator may do to it.                                     *)
AnswersFit ==
  /\ phase = "ascii" =>
       /\ \A i \in 1..Len(asked) : asked[i] = Ascii
       /\ \A i \in 1..Len(pipe) : pipe[i] = Ascii \/ "refused" \in mishaps
  /\ Uploading =>
       /\ asked = <<>>
       /\ \A i \in 1..Len(pipe) : pipe[i] # Junk \/ "refused" \in mishaps
  /\ phase \in {"head", "data"} =>
       /\ \A i \in 1..Len(pipe) :
            \/ pipe[i] = Groups(req.list)[Past + i]
            \/ pipe[i] <= 0 /\ "refused" \in mishaps
            \/ pipe[i] > 0 /\ "short" \in mishaps
       /\ \A i \in 1..Len(asked) : asked[i] = Groups(req.list)[Past + Len(pipe) + i]

(* A command that reads nothing was noticed when it was sent. *)
ZeroKnown ==
  phase \in {"head", "data"} /\ (\E g \in 1..Rounds : Groups(req.list)[g] = 0) =>
    "zero" \in mishaps

(* The bytes of the first k commands. *)
Bytes(k) == SumOf(SubSeq(Groups(req.list), 1, k))

(* A session that listens has been given all bytes of the answers so far,  *)
(* and it has not forwarded all that it waits for.                         *)
Delivered ==
  /\ Downloading /\ listening /\ "short" \notin mishaps =>
       sent + (IF phase = "data" THEN need ELSE 0) = Bytes(Past)
  /\ Downloading /\ listening => taken < Total

(* Answers are being read as one: the request was a refused download of    *)
(* several commands.                                                       *)
TextFits ==
  phase = "text" =>
    /\ req.cmd = "GetAddress" /\ req.list \in Lists
    /\ turn \in 1..Rounds /\ Rounds > 1
    /\ "refused" \in mishaps

EmuWireInv ==
  /\ TypeOK /\ InStep /\ EndExplained
  /\ PhaseFits /\ NoneExtra /\ AnswersFit /\ ZeroKnown /\ Delivered /\ TextFits

-----------------------------------------------------------------------------
(* What a list of addresses stands for. *)
LEMMA ListTypes ==
  ASSUME NEW l \in Lists
  PROVE  /\ Groups(l) \in Seq(Nat) /\ Len(Groups(l)) \in Nat \ {0}
         /\ SumOf(Groups(l)) = SumOf(Sizes(l)) /\ SumOf(Sizes(l)) \in Nat
         /\ Len(l) \in Nat \ {0} /\ \A i \in 1..Len(l) : l[i].size \in Nat
  <1>1. Len(l) \in Nat \ {0} /\ \A i \in 1..Len(l) : l[i].size \in Nat
    BY ListsAssumption
  <1>2. /\ Groups(l) \in Seq(Nat) /\ Len(Groups(l)) > 0
        /\ SumOf(Groups(l)) = SumOf(Sizes(l)) /\ SumOf(Sizes(l)) \in Nat
    BY <1>1, GroupsAddUp
  <1>3. Len(Groups(l)) \in Nat \ {0}
    BY <1>2
  <1> QED BY <1>1, <1>2, <1>3

(* The rounds of the request in hand. *)
LEMMA RoundTypes ==
  ASSUME TypeOK, PhaseFits
  PROVE  /\ Downloading => /\ Rounds = Len(Groups(req.list)) /\ Rounds \in Nat \ {0}
                           /\ Total \in Nat /\ Groups(req.list) \in Seq(Nat)
                           /\ \A i \in 1..Rounds : Groups(req.list)[i] \in Nat
         /\ Uploading => /\ Rounds = Len(req.list) /\ Rounds \in Nat \ {0}
                         /\ Total \in Nat
                         /\ \A i \in 1..Rounds : req.list[i].size \in Nat
         /\ phase = "ascii" => Rounds \in {1, 3}
         /\ req.cmd = "GetAddress" /\ req.list \in Lists =>
              /\ Rounds = Len(Groups(req.list)) /\ Rounds \in Nat \ {0}
              /\ Groups(req.list) \in Seq(Nat)
  <1>1. CASE Downloading
    <2>1. req.cmd = "GetAddress" /\ req.list \in Lists /\ ~Uploading /\ phase # "ascii"
      BY <1>1 DEF PhaseFits, Downloading, Uploading
    <2> QED BY <1>1, <2>1, ListTypes DEF Rounds, Download, Total
  <1>2. CASE Uploading
    <2>1. req.cmd = "PutAddress" /\ req.list \in Lists /\ ~Downloading /\ phase # "ascii"
      BY <1>2 DEF PhaseFits, Downloading, Uploading
    <2> QED BY <1>2, <2>1, ListTypes DEF Rounds, Download, Total
  <1>3. CASE phase = "ascii"
    BY <1>3 DEF PhaseFits, Rounds, Download, Downloading, Uploading
  <1>4. req.cmd = "GetAddress" /\ req.list \in Lists =>
          /\ Rounds = Len(Groups(req.list)) /\ Rounds \in Nat \ {0}
          /\ Groups(req.list) \in Seq(Nat)
    BY ListTypes DEF Rounds, Download
  <1> QED BY <1>1, <1>2, <1>3, <1>4

(* Steps that go on with a request change nothing of what it asks for. *)
LEMMA SameRequest ==
  ASSUME req' = req
  PROVE  Rounds' = Rounds /\ Total' = Total /\ Download' = Download
  BY DEF Rounds, Total, Download

(* What is left of a sequence when its first element is taken. *)
LEMMA Taken ==
  ASSUME NEW S, NEW s \in Seq(S), s # <<>>
  PROVE  /\ Head(s) \in S /\ Head(s) = s[1] /\ Len(s) >= 1
         /\ Tail(s) \in Seq(S) /\ Len(Tail(s)) = Len(s) - 1
         /\ \A i \in 1..(Len(s) - 1) : Tail(s)[i] = s[i + 1]
  <1>1. Len(s) # 0
    BY EmptySeq
  <1> QED BY <1>1, HeadTailProperties

(* A sequence with one more element. *)
LEMMA Given ==
  ASSUME NEW S, NEW s \in Seq(S), NEW e \in S
  PROVE  /\ Append(s, e) \in Seq(S) /\ Len(Append(s, e)) = Len(s) + 1
         /\ Append(s, e)[Len(s) + 1] = e
         /\ \A i \in 1..Len(s) : Append(s, e)[i] = s[i]
  BY AppendProperties

-----------------------------------------------------------------------------
(* The task between two requests: nothing is on its way. *)
LEMMA Quiet ==
  ASSUME EmuWireInv, phase \in {"idle", "closing"}
  PROVE  asked = <<>> /\ pipe = <<>> /\ ~owesAck /\ wants = 0
  <1>1. /\ asked \in Seq(Nat \cup {Ascii}) /\ pipe \in Seq(Nat \cup {Ascii, Junk})
        /\ wants \in Nat /\ owesAck \in BOOLEAN
    BY DEF EmuWireInv, TypeOK
  <1>2. Len(asked) + Len(pipe) + (IF owesAck THEN 1 ELSE 0) <= 0
    BY DEF EmuWireInv, NoneExtra, Outstanding, Stopped
  <1>3. Len(asked) \in Nat /\ Len(pipe) \in Nat
    BY <1>1
  <1>4. Len(asked) = 0 /\ Len(pipe) = 0 /\ ~owesAck
    BY <1>2, <1>3
  <1>5. wants = 0
    BY <1>1, <1>4 DEF EmuWireInv, NoneExtra
  <1> QED BY <1>1, <1>4, <1>5, EmptySeq

(* Commands sent then are alone on their way, or lost. *)
LEMMA AskedAlone ==
  ASSUME EmuWireInv, asked = <<>>, ~owesAck, wants = 0,
         NEW q \in Seq(Nat \cup {Ascii}), Ask(q)
  PROVE  /\ asked' = IF open /\ ~garbled THEN q ELSE <<>>
         /\ asked' \in Seq(Nat \cup {Ascii})
         /\ garbled' = garbled /\ open' = open /\ torn' = torn
         /\ wants' = 0 /\ ~owesAck' /\ owesAck' \in BOOLEAN
  <1>2. garbled \in BOOLEAN
    BY DEF EmuWireInv, TypeOK
  <1>3. <<>> \o q = q /\ <<>> \in Seq(Nat \cup {Ascii})
    BY ConcatEmptySeq, EmptySeq
  <1>4. ~(wants > 0)
    OBVIOUS
  <1>5. garbled' = garbled
    BY <1>2, <1>4, Zenon DEF Ask
  <1>6. owesAck' \in BOOLEAN
    BY DEF Ask, EmuWireInv, TypeOK
  <1> QED BY <1>3, <1>5, <1>6 DEF Ask, Understands

(* The one answer that is awaited when a single one is. *)
LEMMA OnlyAnswer ==
  ASSUME EmuWireInv, phase \in {"ascii", "frames", "ack"}, pipe # <<>>
  PROVE  /\ asked = <<>> /\ ~owesAck /\ wants = 0 /\ pipe = <<Head(pipe)>>
         /\ Tail(pipe) = <<>> /\ Head(pipe) = pipe[1] /\ 1 \in 1..Len(pipe)
  <1>1. /\ asked \in Seq(Nat \cup {Ascii}) /\ pipe \in Seq(Nat \cup {Ascii, Junk})
        /\ wants \in Nat /\ owesAck \in BOOLEAN
    BY DEF EmuWireInv, TypeOK
  <1>2. Len(asked) + Len(pipe) + (IF owesAck THEN 1 ELSE 0) <= 1
    BY DEF EmuWireInv, NoneExtra, Outstanding, Stopped
  <1>3. Len(asked) \in Nat /\ Len(pipe) \in Nat /\ Len(pipe) >= 1
    BY <1>1, Taken
  <1>4. Len(asked) = 0 /\ Len(pipe) = 1 /\ ~owesAck
    <2> DEFINE a == Len(asked)
               p == Len(pipe)
    <2>1. a \in Nat /\ p \in Nat /\ p >= 1
      BY <1>3
    <2>2. owesAck => a + p + 1 <= 1
      BY <1>2
    <2>3. ~owesAck => a + p + 0 <= 1
      BY <1>2
    <2> HIDE DEF a, p
    <2>4. ~owesAck
      BY <2>1, <2>2
    <2>5. a = 0 /\ p = 1
      BY <2>1, <2>3, <2>4
    <2> QED BY <2>4, <2>5 DEF a, p
  <1>5. wants = 0
    BY <1>1, <1>4 DEF EmuWireInv, NoneExtra
  <1>6. Len(Tail(pipe)) = 0 /\ Tail(pipe) \in Seq(Nat \cup {Ascii, Junk}) /\ Head(pipe) = pipe[1]
    BY <1>1, <1>4, Taken
  <1>7. Tail(pipe) = <<>> /\ asked = <<>>
    BY <1>1, <1>4, <1>6, EmptySeq
  <1> QED BY <1>4, <1>5, <1>6, <1>7

LEMMA InitialEmuWire == Init => EmuWireInv
  <1> SUFFICES ASSUME Init PROVE EmuWireInv
    OBVIOUS
  <1>1. <<>> \in Seq(Nat \cup {Ascii}) /\ <<>> \in Seq(Nat \cup {Ascii, Junk}) /\ Len(<<>>) = 0
    BY EmptySeq
  <1>2. TypeOK
    BY <1>1 DEF Init, TypeOK
  <1>3. InStep /\ EndExplained /\ NoneExtra
    BY <1>1 DEF Init, InStep, EndExplained, NoneExtra, Outstanding, Promised
  <1>4. PhaseFits /\ AnswersFit /\ ZeroKnown /\ Delivered /\ TextFits
    BY DEF Init, PhaseFits, AnswersFit, ZeroKnown, Delivered, TextFits, Downloading, Uploading
  <1> QED BY <1>2, <1>3, <1>4 DEF EmuWireInv

(* Plain commands and Info. *)
LEMMA TakePlainWire ==
  ASSUME EmuWireInv, NEW cmd \in {"Info", "Plain"}, TakePlain(cmd)
  PROVE  EmuWireInv'
  <1>1. <<Ascii>> \in Seq(Nat \cup {Ascii}) /\ Len(<<Ascii>>) = 1 /\ <<Ascii>>[1] = Ascii
    OBVIOUS
  <1>2. asked = <<>> /\ pipe = <<>> /\ ~owesAck /\ wants = 0 /\ phase = "idle"
    BY Quiet DEF TakePlain
  <1>3. pipe' = <<>> /\ Len(<<>>) = 0 /\ <<>> \in Seq(Nat \cup {Ascii, Junk})
    BY <1>2, EmptySeq DEF TakePlain
  <1>4. /\ asked' = IF open /\ ~garbled THEN <<Ascii>> ELSE <<>>
        /\ asked' \in Seq(Nat \cup {Ascii})
        /\ garbled' = garbled /\ open' = open /\ torn' = torn
        /\ wants' = 0 /\ ~owesAck' /\ owesAck' \in BOOLEAN
    BY <1>1, <1>2, AskedAlone DEF TakePlain
  <1>5. /\ req' = [cmd |-> cmd, list |-> <<>>] /\ phase' = "ascii" /\ turn' = 1
        /\ mishaps' = mishaps \cap {"spanned"}
        /\ UNCHANGED <<need, moved, sent, taken, listening>>
    BY DEF TakePlain, session, Lasting
  <1>6. Rounds' \in {1, 3}
    BY <1>5 DEF Rounds, Download
  <1>7. TypeOK'
    <2>1. req' \in [cmd : {"Info", "Plain", "GetAddress", "PutAddress"}, list : Lists \cup {<<>>}]
      BY <1>5
    <2>2. mishaps' \subseteq {"zero", "refused", "short", "torn", "spanned", "abandoned",
                            "swallowed"}
      BY <1>5
    <2>3. phase' \in {"ascii", "head"}
      BY <1>5
    <2> QED BY <1>3, <1>4, <1>5, <2>1, <2>2, <2>3 DEF EmuWireInv, TypeOK
  <1>8. InStep'
    BY <1>2, <1>3, <1>4, <1>5, <1>6 DEF EmuWireInv, InStep, Outstanding, Promised
  <1>9. EndExplained'
    BY <1>2, <1>4, <1>5 DEF EndExplained
  <1>10. PhaseFits'
    BY <1>2, <1>5, <1>6 DEF PhaseFits, Downloading, Uploading
  <1>11. NoneExtra'
    BY <1>2, <1>3, <1>4, <1>5, <1>6 DEF NoneExtra, Outstanding, Stopped, Uploading
  <1>12. AnswersFit'
    BY <1>2, <1>3, <1>4, <1>5 DEF AnswersFit, Uploading, Past
  <1>13. ZeroKnown'
    BY <1>2, <1>5, <1>6 DEF ZeroKnown
  <1>14. Delivered'
    BY <1>2, <1>5 DEF Delivered, Downloading, Past, Bytes
  <1>15. TextFits'
    BY <1>5 DEF TextFits
  <1> QED BY <1>7, <1>8, <1>9, <1>10, <1>11, <1>12, <1>13, <1>14,
            <1>15 DEF EmuWireInv

(* A download: all of its commands are on their way, or none. *)
LEMMA TakeDownloadWire ==
  ASSUME EmuWireInv, NEW l \in Lists, TakeDownload(l)
  PROVE  EmuWireInv'
  <1>1. Groups(l) \in Seq(Nat) /\ Len(Groups(l)) \in Nat \ {0} /\ SumOf(Sizes(l)) \in Nat
    BY ListTypes
  <1>2. asked = <<>> /\ pipe = <<>> /\ ~owesAck /\ wants = 0 /\ phase = "idle"
    BY Quiet DEF TakeDownload
  <1>3. pipe' = <<>> /\ Len(<<>>) = 0 /\ <<>> \in Seq(Nat \cup {Ascii, Junk})
    BY <1>2, EmptySeq DEF TakeDownload
  <1>4. Groups(l) \in Seq(Nat \cup {Ascii})
    BY <1>1
  <1>5. /\ asked' = IF open /\ ~garbled THEN Groups(l) ELSE <<>>
        /\ asked' \in Seq(Nat \cup {Ascii})
        /\ garbled' = garbled /\ open' = open /\ torn' = torn
        /\ wants' = 0 /\ ~owesAck' /\ owesAck' \in BOOLEAN
    BY <1>2, <1>4, AskedAlone DEF TakeDownload
  <1>6. /\ req' = [cmd |-> "GetAddress", list |-> l] /\ phase' = "head" /\ turn' = 1
        /\ sent' = 0 /\ taken' = 0 /\ listening' = (SumOf(Sizes(l)) > 0)
        /\ UNCHANGED <<need, moved>>
    BY DEF TakeDownload
  <1>7. /\ "spanned" \in mishaps => "spanned" \in mishaps'
        /\ (\E g \in 1..Len(Groups(l)) : Groups(l)[g] = 0) => "zero" \in mishaps'
        /\ mishaps' \subseteq {"spanned", "zero"}
    BY DEF TakeDownload, Lasting
  <1>8. /\ Rounds' = Len(Groups(l)) /\ Total' = SumOf(Sizes(l))
        /\ req'.list = l /\ req'.cmd = "GetAddress"
    BY <1>6 DEF Rounds, Download, Total
  <1>9. TypeOK'
    <2>1. req' \in [cmd : {"Info", "Plain", "GetAddress", "PutAddress"}, list : Lists \cup {<<>>}]
      BY <1>6
    <2>2. mishaps' \subseteq {"zero", "refused", "short", "torn", "spanned", "abandoned",
                            "swallowed"}
      BY <1>7
    <2>3. phase' \in {"ascii", "head"}
      BY <1>6
    <2> QED BY <1>1, <1>3, <1>5, <1>6, <2>1, <2>2, <2>3 DEF EmuWireInv, TypeOK
  <1>10. InStep'
    BY <1>2, <1>3, <1>5, <1>6, <1>7, <1>8 DEF EmuWireInv, InStep, Outstanding,
       Promised
  <1>11. EndExplained'
    BY <1>2, <1>5, <1>6, <1>7 DEF EndExplained
  <1>12. PhaseFits'
    BY <1>1, <1>2, <1>3, <1>4, <1>5, <1>6, <1>7, <1>8 DEF PhaseFits,
       Downloading, Uploading
  <1>13. NoneExtra'
    BY <1>2, <1>3, <1>5, <1>6, <1>8 DEF NoneExtra, Outstanding, Stopped, Uploading
  <1>14. AnswersFit'
    BY <1>1, <1>2, <1>3, <1>4, <1>5, <1>6, <1>7, <1>8 DEF AnswersFit, Uploading,
       Past
  <1>15. ZeroKnown'
    BY <1>1, <1>2, <1>4, <1>5, <1>6, <1>7, <1>8 DEF ZeroKnown
  <1>16. Delivered'
    <2>1. SubSeq(Groups(l), 1, 0) = <<>>
      BY SubSeqEmpty
    <2>2. SumOf(SubSeq(Groups(l), 1, 0)) = 0
      BY <2>1, SumOfNone
    <2>3. sent' + (IF phase' = "data" THEN need' ELSE 0) = Bytes(Past)'
      <3>1. Past' = 0 /\ Groups(req.list)' = Groups(l)
        BY <1>6, <1>8 DEF Past
      <3> QED BY <1>6, <2>2, <3>1 DEF Bytes
    <2>4. listening' => taken' < Total'
      BY <1>1, <1>6, <1>8
    <2> QED BY <2>3, <2>4 DEF Delivered
  <1>17. TextFits'
    BY <1>6 DEF TextFits
  <1> QED BY <1>9, <1>10, <1>11, <1>12, <1>13, <1>14, <1>15, <1>16,
            <1>17 DEF EmuWireInv

(* An upload: the header of its first address is on its way, or lost. *)
LEMMA TakeUploadWire ==
  ASSUME EmuWireInv, NEW l \in Lists, TakeUpload(l)
  PROVE  EmuWireInv'
  <1>1. /\ Len(l) \in Nat \ {0} /\ SumOf(Sizes(l)) \in Nat
        /\ \A i \in 1..Len(l) : l[i].size \in Nat
    BY ListTypes
  <1>2. asked = <<>> /\ pipe = <<>> /\ ~owesAck /\ wants = 0 /\ phase = "idle"
    BY Quiet DEF TakeUpload
  <1>3. pipe' = <<>> /\ Len(<<>>) = 0 /\ <<>> \in Seq(Nat \cup {Ascii, Junk})
    BY <1>2, EmptySeq DEF TakeUpload
  <1>4. l[1].size \in Nat
    BY <1>1
  <1>5. garbled \in BOOLEAN /\ open \in BOOLEAN
    BY DEF EmuWireInv, TypeOK
  <1>6. garbled' = garbled
    <2>1. ~(wants > 0)
      BY <1>2
    <2> QED BY <1>5, <2>1, Zenon DEF TakeUpload, AskWrite
  <1>7. /\ wants' = (IF open /\ ~garbled THEN l[1].size ELSE 0)
        /\ owesAck' = (open /\ ~garbled)
        /\ UNCHANGED <<open, torn, asked>>
    BY <1>2, <1>5 DEF TakeUpload, AskWrite, Understands
  <1>8. /\ req' = [cmd |-> "PutAddress", list |-> l] /\ phase' = "frames" /\ turn' = 1
        /\ moved' = 0 /\ sent' = 0 /\ taken' = 0 /\ listening' = TRUE
        /\ mishaps' = mishaps \cap {"spanned"} /\ UNCHANGED need
    BY DEF TakeUpload, Lasting
  <1>9. Rounds' = Len(l) /\ req'.list = l /\ req'.cmd = "PutAddress"
    BY <1>8 DEF Rounds, Download
  <1>10. TypeOK'
    BY <1>1, <1>2, <1>3, <1>4, <1>5, <1>6, <1>7, <1>8, <1>9 DEF EmuWireInv, TypeOK
  <1>11. InStep'
    BY <1>1, <1>2, <1>3, <1>4, <1>5, <1>6, <1>7, <1>8, <1>9 DEF EmuWireInv,
       InStep, Outstanding, Promised
  <1>12. EndExplained'
    BY <1>2, <1>5, <1>7, <1>8 DEF EndExplained
  <1>13. PhaseFits'
    BY <1>1, <1>2, <1>3, <1>4, <1>5, <1>6, <1>7, <1>8, <1>9 DEF PhaseFits,
       Downloading, Uploading
  <1>14. NoneExtra'
    BY <1>1, <1>2, <1>3, <1>4, <1>5, <1>6, <1>7, <1>8, <1>9 DEF NoneExtra,
       Outstanding, Stopped, Uploading
  <1>15. AnswersFit'
    BY <1>2, <1>3, <1>7, <1>8, <1>9 DEF AnswersFit, Uploading, Past
  <1>16. ZeroKnown'
    BY <1>2, <1>8, <1>9 DEF ZeroKnown
  <1>17. Delivered'
    BY <1>2, <1>8, <1>9 DEF Delivered, Downloading, Past, Bytes
  <1>18. TextFits'
    BY <1>8 DEF TextFits
  <1> QED BY <1>10, <1>11, <1>12, <1>13, <1>14, <1>15, <1>16, <1>17,
            <1>18 DEF EmuWireInv

-----------------------------------------------------------------------------
(* The task reads. *)

(* A textual answer that is not the last. *)
LEMMA AsciiNextWire ==
  ASSUME EmuWireInv, AsciiAnswer, Head(pipe) = Ascii /\ turn < Rounds
  PROVE  EmuWireInv'
  <1>1. Rounds' = Rounds /\ Total' = Total /\ Download' = Download
    BY SameRequest DEF AsciiAnswer, Ask
  <1>2. /\ asked = <<>> /\ ~owesAck /\ wants = 0 /\ pipe = <<Head(pipe)>>
        /\ Tail(pipe) = <<>> /\ Head(pipe) = pipe[1] /\ 1 \in 1..Len(pipe)
        /\ phase = "ascii"
    BY OnlyAnswer DEF AsciiAnswer, Arrived
  <1>3. <<Ascii>> \in Seq(Nat \cup {Ascii}) /\ Len(<<Ascii>>) = 1 /\ <<Ascii>>[1] = Ascii
    OBVIOUS
  <1>4. Ask(<<Ascii>>) /\ pipe' = Tail(pipe) /\ turn' = turn + 1
    BY DEF AsciiAnswer
  <1>5. /\ asked' = IF open /\ ~garbled THEN <<Ascii>> ELSE <<>>
        /\ asked' \in Seq(Nat \cup {Ascii})
        /\ garbled' = garbled /\ open' = open /\ torn' = torn
        /\ wants' = 0 /\ ~owesAck' /\ owesAck' \in BOOLEAN
    BY <1>2, <1>3, <1>4, AskedAlone
  <1>6. pipe' = <<>> /\ Len(<<>>) = 0 /\ <<>> \in Seq(Nat \cup {Ascii, Junk})
    BY <1>2, <1>4, EmptySeq
  <1>7. UNCHANGED <<phase, req, need, moved, sent, taken, listening, mishaps>>
    BY DEF AsciiAnswer, session
  <1>8. Rounds \in {1, 3} /\ turn \in 1..Rounds /\ turn < Rounds
    BY <1>2, RoundTypes DEF EmuWireInv, PhaseFits
  <1>9. TypeOK'
    BY <1>1, <1>2, <1>3, <1>4, <1>5, <1>6, <1>7, <1>8 DEF EmuWireInv, TypeOK
  <1>10. InStep'
    <2>1. garbled' => "spanned" \in mishaps'
      BY <1>5, <1>7 DEF EmuWireInv, InStep
    <2>2. Outstanding' = 1 /\ Promised' = 0
      BY <1>2, <1>7 DEF Outstanding, Promised
    <2>3. open' /\ ~garbled' => Len(asked') = 1
      BY <1>3, <1>5
    <2> QED BY <1>5, <1>6, <2>1, <2>2, <2>3 DEF InStep
  <1>11. EndExplained'
    BY <1>2, <1>5, <1>7 DEF EndExplained
  <1>12. PhaseFits'
    BY <1>1, <1>2, <1>4, <1>7, <1>8 DEF EmuWireInv, PhaseFits, Downloading,
       Uploading
  <1>13. NoneExtra'
    <2>1. Outstanding' = 1
      BY <1>2, <1>7 DEF Outstanding
    <2>2. Len(asked') \in {0, 1}
      BY <1>3, <1>5, <1>6
    <2> QED BY <1>5, <1>6, <2>1, <2>2 DEF NoneExtra
  <1>14. AnswersFit'
    BY <1>2, <1>4, <1>5, <1>6, <1>7, <1>8 DEF EmuWireInv, AnswersFit, Uploading,
       Past
  <1>15. ZeroKnown'
    BY <1>1, <1>2, <1>7, <1>8 DEF ZeroKnown
  <1>16. Delivered'
    BY <1>1, <1>2, <1>4, <1>7, <1>8 DEF Delivered, Downloading, Past, Bytes
  <1>17. TextFits'
    BY <1>2, <1>7 DEF TextFits
  <1> QED BY <1>9, <1>10, <1>11, <1>12, <1>13, <1>14, <1>15, <1>16,
            <1>17 DEF EmuWireInv

(* The last one, or one that is rejected. *)
LEMMA AsciiLastWire ==
  ASSUME EmuWireInv, AsciiAnswer, ~(Head(pipe) = Ascii /\ turn < Rounds)
  PROVE  EmuWireInv'
  <1>1. Rounds' = Rounds /\ Total' = Total /\ Download' = Download
    BY SameRequest DEF AsciiAnswer, TakeAnswer, EndsWith
  <1>2. /\ asked = <<>> /\ ~owesAck /\ wants = 0 /\ pipe = <<Head(pipe)>>
        /\ Tail(pipe) = <<>> /\ Head(pipe) = pipe[1] /\ 1 \in 1..Len(pipe)
        /\ phase = "ascii"
    BY OnlyAnswer DEF AsciiAnswer, Arrived
  <1>3. /\ pipe' = <<>> /\ Len(<<>>) = 0 /\ <<>> \in Seq(Nat \cup {Ascii, Junk})
        /\ UNCHANGED <<open, torn, asked, wants, owesAck, garbled>>
    BY <1>2, EmptySeq DEF AsciiAnswer, TakeAnswer
  <1>4. /\ phase' = IF Head(pipe) = Ascii THEN "idle" ELSE "ended"
        /\ UNCHANGED <<req, turn, need, moved, sent, taken, listening, mishaps>>
    BY DEF AsciiAnswer, EndsWith, session
  <1>5. pipe[1] = Ascii \/ "refused" \in mishaps
    BY <1>2 DEF EmuWireInv, AnswersFit
  <1>6. TypeOK'
    BY <1>1, <1>2, <1>3, <1>4, <1>5 DEF EmuWireInv, TypeOK
  <1>7. InStep'
    BY <1>1, <1>2, <1>3, <1>4, <1>5 DEF EmuWireInv, InStep, Outstanding, Promised
  <1>8. EndExplained'
    BY <1>2, <1>3, <1>4, <1>5 DEF EndExplained
  <1>9. PhaseFits'
    BY <1>1, <1>2, <1>4 DEF PhaseFits, Downloading, Uploading
  <1>10. NoneExtra'
    BY <1>1, <1>2, <1>3, <1>4, <1>5 DEF NoneExtra, Outstanding, Stopped, Uploading
  <1>11. AnswersFit'
    BY <1>2, <1>3, <1>4, <1>5 DEF AnswersFit, Uploading, Past
  <1>12. ZeroKnown'
    BY <1>1, <1>2, <1>4, <1>5 DEF ZeroKnown
  <1>13. Delivered'
    BY <1>1, <1>2, <1>4, <1>5 DEF Delivered, Downloading, Past, Bytes
  <1>14. TextFits'
    BY <1>4 DEF TextFits
  <1> QED BY <1>6, <1>7, <1>8, <1>9, <1>10, <1>11, <1>12, <1>13,
            <1>14 DEF EmuWireInv

(* The header of an answer with bytes. *)
LEMMA HeadGivesWire ==
  ASSUME EmuWireInv, ReadHead, Head(pipe) > 0
  PROVE  EmuWireInv'
  <1>1. Rounds' = Rounds /\ Total' = Total /\ Download' = Download
    BY SameRequest DEF ReadHead, EndsWith
  <1>2. /\ Head(pipe) \in Nat \cup {Ascii, Junk} /\ Head(pipe) = pipe[1] /\ Len(pipe) >= 1
        /\ Tail(pipe) \in Seq(Nat \cup {Ascii, Junk}) /\ Len(Tail(pipe)) = Len(pipe) - 1
        /\ \A i \in 1..(Len(pipe) - 1) : Tail(pipe)[i] = pipe[i + 1]
    BY Taken DEF ReadHead, Arrived, EmuWireInv, TypeOK
  <1>3. /\ Rounds = Len(Groups(req.list)) /\ Rounds \in Nat \ {0}
        /\ Groups(req.list) \in Seq(Nat) /\ \A i \in 1..Rounds : Groups(req.list)[i] \in Nat
        /\ turn \in 1..Rounds /\ req.cmd = "GetAddress" /\ req.list \in Lists
        /\ phase = "head" /\ Past = turn - 1
    BY RoundTypes DEF ReadHead, EmuWireInv, PhaseFits, Downloading, Past
  <1>4. /\ pipe' = Tail(pipe) /\ UNCHANGED <<open, torn, asked, wants, owesAck, garbled>>
        /\ UNCHANGED <<sent, taken, listening, mishaps>>
    BY DEF ReadHead, TakeAnswer, session
  <1>5. Len(asked) \in Nat /\ Len(pipe) \in Nat
    BY DEF EmuWireInv, TypeOK
  <1>6. /\ \A i \in 1..Len(pipe) :
             \/ pipe[i] = Groups(req.list)[turn - 1 + i]
             \/ pipe[i] <= 0 /\ "refused" \in mishaps
             \/ pipe[i] > 0 /\ "short" \in mishaps
        /\ \A i \in 1..Len(asked) : asked[i] = Groups(req.list)[turn - 1 + Len(pipe) + i]
    BY <1>3 DEF EmuWireInv, AnswersFit
  <1>7. phase' = "data" /\ need' = Head(pipe) /\ UNCHANGED <<req, turn, moved>>
    BY DEF ReadHead
  <1>8. TypeOK'
    <2>1. need' \in Nat
      BY <1>2, <1>7 DEF Ascii, Junk
    <2> QED BY <1>2, <1>4, <1>7, <2>1 DEF EmuWireInv, TypeOK
  <1>9. InStep'
    BY <1>1, <1>2, <1>3, <1>4, <1>5, <1>6, <1>7 DEF EmuWireInv, InStep,
       Outstanding, Promised
  <1>10. EndExplained'
    BY <1>3, <1>4, <1>6, <1>7 DEF EndExplained
  <1>11. PhaseFits'
    BY <1>1, <1>3, <1>6, <1>7 DEF PhaseFits, Downloading, Uploading
  <1>12. NoneExtra'
    BY <1>1, <1>2, <1>3, <1>4, <1>5, <1>6, <1>7 DEF EmuWireInv, NoneExtra,
       Outstanding, Stopped, Uploading
  <1>13. AnswersFit'
    BY <1>2, <1>3, <1>4, <1>5, <1>6, <1>7 DEF AnswersFit, Uploading, Past
  <1>14. ZeroKnown'
    BY <1>1, <1>3, <1>4, <1>6, <1>7 DEF EmuWireInv, ZeroKnown
  <1>15. Delivered'
    <2>1. listening' /\ "short" \notin mishaps' => sent' + need' = Bytes(Past)'
      <3> SUFFICES ASSUME listening, "short" \notin mishaps
                   PROVE  sent + pipe[1] = Bytes(turn)
        <4>1. Bytes(Past)' = Bytes(turn)
          BY <1>7 DEF Bytes, Past
        <4> QED BY <1>2, <1>4, <1>7, <4>1
      <3>1. pipe[1] = Groups(req.list)[turn]
        <4>1. 1 \in 1..Len(pipe) /\ turn - 1 + 1 = turn
          BY <1>2, <1>3, <1>5
        <4> QED BY <1>2, <1>6, <4>1 DEF Ascii, Junk
      <3>2. sent = Bytes(turn - 1) /\ sent \in Nat
        BY <1>3 DEF EmuWireInv, TypeOK, Delivered, Downloading
      <3> QED BY <1>3, <3>1, <3>2, SumOfPrefix DEF Bytes
    <2>2. listening' => taken' < Total'
      BY <1>1, <1>3, <1>4 DEF EmuWireInv, Delivered, Downloading
    <2> QED BY <1>7, <2>1, <2>2 DEF Delivered
  <1>16. TextFits'
    BY <1>7 DEF TextFits
  <1> QED BY <1>8, <1>9, <1>10, <1>11, <1>12, <1>13, <1>14, <1>15,
            <1>16 DEF EmuWireInv

(* The header of an answer without. *)
LEMMA HeadRefusesWire ==
  ASSUME EmuWireInv, ReadHead, ~(Head(pipe) > 0)
  PROVE  EmuWireInv'
  <1>1. Rounds' = Rounds /\ Total' = Total /\ Download' = Download
    BY SameRequest DEF ReadHead, EndsWith
  <1>2. /\ Head(pipe) \in Nat \cup {Ascii, Junk} /\ Head(pipe) = pipe[1] /\ Len(pipe) >= 1
        /\ Tail(pipe) \in Seq(Nat \cup {Ascii, Junk}) /\ Len(Tail(pipe)) = Len(pipe) - 1
        /\ \A i \in 1..(Len(pipe) - 1) : Tail(pipe)[i] = pipe[i + 1]
    BY Taken DEF ReadHead, Arrived, EmuWireInv, TypeOK
  <1>3. /\ Rounds = Len(Groups(req.list)) /\ Rounds \in Nat \ {0}
        /\ Groups(req.list) \in Seq(Nat) /\ \A i \in 1..Rounds : Groups(req.list)[i] \in Nat
        /\ turn \in 1..Rounds /\ req.cmd = "GetAddress" /\ req.list \in Lists
        /\ phase = "head" /\ Past = turn - 1
    BY RoundTypes DEF ReadHead, EmuWireInv, PhaseFits, Downloading, Past
  <1>4. /\ pipe' = Tail(pipe) /\ UNCHANGED <<open, torn, asked, wants, owesAck, garbled>>
        /\ UNCHANGED <<sent, taken, listening, mishaps>>
    BY DEF ReadHead, TakeAnswer, session
  <1>5. Len(asked) \in Nat /\ Len(pipe) \in Nat
    BY DEF EmuWireInv, TypeOK
  <1>6. /\ \A i \in 1..Len(pipe) :
             \/ pipe[i] = Groups(req.list)[turn - 1 + i]
             \/ pipe[i] <= 0 /\ "refused" \in mishaps
             \/ pipe[i] > 0 /\ "short" \in mishaps
        /\ \A i \in 1..Len(asked) : asked[i] = Groups(req.list)[turn - 1 + Len(pipe) + i]
    BY <1>3 DEF EmuWireInv, AnswersFit
  <1>7. phase' = "ended" /\ UNCHANGED <<req, turn, need, moved>>
    BY DEF ReadHead, EndsWith
  <1>8. TypeOK'
    BY <1>1, <1>2, <1>3, <1>4, <1>5, <1>6, <1>7 DEF EmuWireInv, TypeOK
  <1>9. InStep'
    BY <1>1, <1>2, <1>3, <1>4, <1>5, <1>6, <1>7 DEF EmuWireInv, InStep,
       Outstanding, Promised
  <1>10. EndExplained'
    <2>1. pipe[1] = Groups(req.list)[turn] \/ "refused" \in mishaps
      <3>1. 1 \in 1..Len(pipe) /\ turn - 1 + 1 = turn
        BY <1>2, <1>3, <1>5
      <3> QED BY <1>2, <1>6, <3>1
    <2>2. CASE pipe[1] = Groups(req.list)[turn]
      <3>1. Groups(req.list)[turn] = 0
        BY <1>2, <1>3, <2>2
      <3>2. "zero" \in mishaps
        BY <1>3, <3>1 DEF EmuWireInv, ZeroKnown
      <3> QED BY <1>4, <3>2 DEF EndExplained
    <2> QED BY <1>4, <2>1, <2>2 DEF EndExplained
  <1>11. PhaseFits'
    BY <1>1, <1>3, <1>6, <1>7 DEF PhaseFits, Downloading, Uploading
  <1>12. NoneExtra'
    BY <1>1, <1>2, <1>3, <1>4, <1>5, <1>6, <1>7 DEF EmuWireInv, NoneExtra,
       Outstanding, Stopped, Uploading
  <1>13. AnswersFit'
    BY <1>2, <1>3, <1>4, <1>5, <1>6, <1>7 DEF AnswersFit, Uploading, Past
  <1>14. ZeroKnown'
    BY <1>1, <1>3, <1>4, <1>6, <1>7 DEF ZeroKnown
  <1>15. Delivered'
    BY <1>1, <1>3, <1>4, <1>6, <1>7 DEF Delivered, Downloading, Past, Bytes
  <1>16. TextFits'
    BY <1>7 DEF TextFits
  <1> QED BY <1>8, <1>9, <1>10, <1>11, <1>12, <1>13, <1>14, <1>15,
            <1>16 DEF EmuWireInv

(* An answer that is read as text, and perhaps others with it. *)
LEMMA ReadTextStep ==
  ASSUME EmuWireInv, ReadText
  PROVE  /\ phase \in {"head", "text"} /\ req.cmd = "GetAddress" /\ req.list \in Lists
         /\ Rounds \in Nat \ {0} /\ turn \in 1..Rounds
         /\ Len(asked) \in Nat /\ Len(pipe) \in Nat /\ Len(pipe) >= 1 /\ ~owesAck
         /\ Len(asked) + Len(pipe) <= Outstanding
         /\ Outstanding = IF phase = "head" THEN Rounds - turn + 1 ELSE Rounds - turn
         /\ "refused" \in mishaps
         /\ UNCHANGED <<req, need, moved, sent, taken, listening>>
         /\ UNCHANGED <<open, torn, asked, wants, owesAck, garbled>>
  <1>1. phase \in {"head", "text"} /\ pipe # <<>>
    BY DEF ReadText, Arrived
  <1>2. req.cmd = "GetAddress" /\ req.list \in Lists /\ turn \in 1..Rounds
    BY <1>1 DEF EmuWireInv, PhaseFits, Downloading, TextFits
  <1>3. Rounds \in Nat \ {0}
    BY <1>2, RoundTypes DEF EmuWireInv
  <1>4. /\ pipe \in Seq(Nat \cup {Ascii, Junk}) /\ Len(pipe) \in Nat /\ Len(pipe) >= 1
        /\ Head(pipe) = pipe[1] /\ Len(asked) \in Nat /\ owesAck \in BOOLEAN
    BY <1>1, Taken DEF EmuWireInv, TypeOK
  <1>5. ~owesAck
    BY <1>1, <1>4 DEF EmuWireInv, NoneExtra, Uploading, Stopped
  <1>6. Outstanding = IF phase = "head" THEN Rounds - turn + 1 ELSE Rounds - turn
    BY <1>1 DEF Outstanding
  <1>7. Len(asked) + Len(pipe) <= Outstanding
    <2>1. Len(asked) + Len(pipe) + 0 <= Outstanding
      BY <1>1, <1>5 DEF EmuWireInv, NoneExtra, Stopped
    <2>2. Outstanding \in Int
      BY <1>2, <1>3, <1>6
    <2> QED BY <1>4, <2>1, <2>2
  <1>8. "refused" \in mishaps
    <2>1. CASE phase = "text"
      BY <2>1 DEF EmuWireInv, TextFits
    <2>2. CASE phase = "head"
      <3>1. pipe[1] < 0
        BY <1>4, <2>2 DEF ReadText
      <3>2. Past = turn - 1 /\ Groups(req.list)[turn] \in Nat
        BY <2>2, RoundTypes DEF Past, EmuWireInv, PhaseFits, Downloading
      <3>3. Past + 1 = turn
        BY <1>2, <1>3, <3>2
      <3>4. \/ pipe[1] = Groups(req.list)[Past + 1]
            \/ pipe[1] <= 0 /\ "refused" \in mishaps
            \/ pipe[1] > 0 /\ "short" \in mishaps
        BY <1>4, <2>2 DEF EmuWireInv, AnswersFit
      <3> QED BY <1>4, <3>1, <3>2, <3>3, <3>4 DEF Ascii, Junk
    <2> QED BY <1>1, <2>1, <2>2
  <1>9. /\ UNCHANGED <<req, need, moved, sent, taken, listening>>
        /\ UNCHANGED <<open, torn, asked, wants, owesAck, garbled>>
    BY DEF ReadText, session
  <1> QED BY <1>1, <1>2, <1>3, <1>4, <1>5, <1>6, <1>7, <1>8, <1>9

(* The task goes on reading only if several answers were to come. *)
LEMMA ReadTextWire ==
  ASSUME EmuWireInv, ReadText
  PROVE  EmuWireInv'
  <1>1. /\ phase \in {"head", "text"} /\ req.cmd = "GetAddress" /\ req.list \in Lists
        /\ Rounds \in Nat \ {0} /\ turn \in 1..Rounds
        /\ Len(asked) \in Nat /\ Len(pipe) \in Nat /\ Len(pipe) >= 1 /\ ~owesAck
        /\ Len(asked) + Len(pipe) <= Outstanding
        /\ Outstanding = IF phase = "head" THEN Rounds - turn + 1 ELSE Rounds - turn
        /\ "refused" \in mishaps
        /\ UNCHANGED <<req, need, moved, sent, taken, listening>>
        /\ UNCHANGED <<open, torn, asked, wants, owesAck, garbled>>
    BY ReadTextStep
  <1>2. Rounds' = Rounds /\ Total' = Total /\ Download' = Download
    BY <1>1, SameRequest
  <1>3. PICK k \in 1..Len(pipe) :
          /\ pipe' = SubSeq(pipe, k + 1, Len(pipe))
          /\ turn' = IF phase = "head" THEN turn + (k - 1) ELSE turn + k
          /\ phase' \in {"ended", "text"}
          /\ phase = "head" /\ k = 1 => phase' = "ended"
    BY DEF ReadText
  <1>4. pipe' \in Seq(Nat \cup {Ascii, Junk}) /\ Len(pipe') = Len(pipe) - k
    <2>1. pipe \in Seq(Nat \cup {Ascii, Junk})
      BY DEF EmuWireInv, TypeOK
    <2> QED BY <1>1, <1>3, <2>1
  <1>5. mishaps' = mishaps \/ mishaps' = mishaps \cup {"swallowed"}
    BY DEF ReadText
  <1>6. mishaps \subseteq mishaps' /\ ("spanned" \in mishaps' => "spanned" \in mishaps)
    BY <1>5
  <1>7. turn' \in 1..Rounds
    BY <1>1, <1>3
  <1>8. phase' = "text" => Outstanding' = Outstanding - k /\ Rounds > 1
    <2>1. phase' = "text" => Outstanding' = Rounds - turn'
      BY <1>2 DEF Outstanding
    <2> QED BY <1>1, <1>3, <2>1
  <1>9. TypeOK'
    <2>1. mishaps' \subseteq {"zero", "refused", "short", "torn", "spanned", "abandoned",
                            "swallowed"}
      BY <1>5 DEF EmuWireInv, TypeOK
    <2>2. turn' \in Nat
      BY <1>1, <1>7
    <2> QED BY <1>1, <1>3, <1>4, <2>1, <2>2 DEF EmuWireInv, TypeOK
  <1>10. InStep'
    <2>1. garbled' => "spanned" \in mishaps'
      BY <1>1, <1>6 DEF EmuWireInv, InStep
    <2>2. Promised = 0 /\ Promised' = 0
      BY <1>1, <1>3 DEF Promised
    <2>3. open /\ ~garbled => Len(asked) + Len(pipe) = Outstanding /\ wants = 0
      <3>1. open /\ ~garbled => Len(asked) + Len(pipe) + 0 = Outstanding /\ wants = Promised
        BY <1>1 DEF EmuWireInv, InStep
      <3> QED BY <1>1, <2>2, <3>1
    <2>4. phase' = "text" /\ open /\ ~garbled =>
            Len(asked') + Len(pipe') + 0 = Outstanding'
      <3>1. Len(asked') = Len(asked) /\ Len(asked) \in Nat /\ Len(pipe) \in Nat /\ k \in Nat
        BY <1>1
      <3>2. Len(pipe') = Len(pipe) - k
        BY <1>4
      <3> QED BY <3>1, <3>2, <1>8, <2>3
    <2> QED BY <1>1, <1>3, <2>1, <2>2, <2>3, <2>4 DEF InStep
  <1>11. EndExplained'
    BY <1>1, <1>6 DEF EndExplained
  <1>12. PhaseFits'
    BY <1>3 DEF PhaseFits, Downloading, Uploading
  <1>13. NoneExtra'
    <2>1. phase' = "text" => Len(asked') + Len(pipe') + 0 <= Outstanding'
      BY <1>1, <1>3, <1>4, <1>8
    <2>2. wants > 0 => FALSE
      BY <1>1 DEF EmuWireInv, NoneExtra
    <2> QED BY <1>1, <1>3, <2>1, <2>2 DEF NoneExtra, Stopped
  <1>14. AnswersFit' /\ ZeroKnown' /\ Delivered'
    BY <1>3 DEF AnswersFit, ZeroKnown, Delivered, Uploading, Downloading
  <1>15. TextFits'
    BY <1>1, <1>2, <1>6, <1>7, <1>8 DEF TextFits
  <1> QED BY <1>9, <1>10, <1>11, <1>12, <1>13, <1>14, <1>15 DEF EmuWireInv

(* Bytes of an answer go to the session, or nowhere. *)
LEMMA ReadDataStep ==
  ASSUME EmuWireInv, ReadData
  PROVE  /\ phase = "data" /\ need' \in Nat /\ sent' \in Nat
         /\ listening => sent' + need' = sent + need
         /\ UNCHANGED <<req, moved, taken, listening, mishaps>>
         /\ UNCHANGED <<open, torn, asked, wants, owesAck, pipe, garbled>>
         /\ \/ need' > 0 /\ phase' = "data" /\ turn' = turn
            \/ need' = 0 /\ turn < Rounds /\ phase' = "head" /\ turn' = turn + 1
            \/ need' = 0 /\ ~(turn < Rounds) /\ phase' = "closing" /\ turn' = turn
  <1>1. PICK n \in 1..need : need' = need - n /\ sent' = IF listening THEN sent + n ELSE sent
    BY DEF ReadData
  <1>2. need \in Nat /\ sent \in Nat
    BY DEF EmuWireInv, TypeOK
  <1>3. need' \in Nat /\ sent' \in Nat /\ (listening => sent' + need' = sent + need)
    BY <1>1, <1>2
  <1>4. \/ need' > 0 /\ phase' = "data" /\ turn' = turn
        \/ need' = 0 /\ turn < Rounds /\ phase' = "head" /\ turn' = turn + 1
        \/ need' = 0 /\ ~(turn < Rounds) /\ phase' = "closing" /\ turn' = turn
    BY <1>3 DEF ReadData
  <1> QED BY <1>3, <1>4 DEF ReadData, emulator

(* It moves on with the last byte of an answer. *)
LEMMA ReadDataWire ==
  ASSUME EmuWireInv, ReadData
  PROVE  EmuWireInv'
  <1>1. Rounds' = Rounds /\ Total' = Total /\ Download' = Download
    BY SameRequest DEF ReadData
  <1>2. /\ Rounds = Len(Groups(req.list)) /\ Rounds \in Nat \ {0}
        /\ turn \in 1..Rounds /\ req.cmd = "GetAddress" /\ req.list \in Lists
        /\ phase = "data" /\ Past = turn
    BY RoundTypes DEF ReadData, EmuWireInv, PhaseFits, Downloading, Past
  <1>3. /\ need' \in Nat /\ sent' \in Nat
        /\ listening => sent' + need' = sent + need
        /\ UNCHANGED <<req, moved, taken, listening, mishaps>>
        /\ UNCHANGED <<open, torn, asked, wants, owesAck, pipe, garbled>>
        /\ \/ need' > 0 /\ phase' = "data" /\ turn' = turn
           \/ need' = 0 /\ turn < Rounds /\ phase' = "head" /\ turn' = turn + 1
           \/ need' = 0 /\ ~(turn < Rounds) /\ phase' = "closing" /\ turn' = turn
    BY ReadDataStep
  <1>4. /\ phase' \in {"head", "data", "closing"} /\ turn' \in 1..Rounds
        /\ (phase' = "closing" => turn' = Rounds) /\ Past' = Past
        /\ Outstanding' = Outstanding /\ Promised' = Promised
    BY <1>1, <1>2, <1>3 DEF Past, Outstanding, Promised
  <1>5. Len(asked) \in Nat /\ Len(pipe) \in Nat
    BY DEF EmuWireInv, TypeOK
  <1>6. TypeOK'
    BY <1>1, <1>2, <1>3, <1>4, <1>5 DEF EmuWireInv, TypeOK
  <1>7. InStep'
    BY <1>1, <1>2, <1>3, <1>4, <1>5 DEF EmuWireInv, InStep, Outstanding, Promised
  <1>8. EndExplained'
    BY <1>2, <1>3, <1>4 DEF EndExplained
  <1>9. PhaseFits'
    BY <1>1, <1>2, <1>3, <1>4 DEF PhaseFits, Downloading, Uploading
  <1>10. NoneExtra'
    BY <1>1, <1>2, <1>3, <1>4, <1>5 DEF EmuWireInv, NoneExtra, Outstanding,
       Stopped, Uploading
  <1>11. AnswersFit'
    <2>1. Groups(req.list)' = Groups(req.list)
      BY <1>3
    <2> QED BY <1>2, <1>3, <1>4, <2>1 DEF EmuWireInv, AnswersFit, Uploading
  <1>12. ZeroKnown'
    BY <1>1, <1>2, <1>3, <1>4 DEF EmuWireInv, ZeroKnown
  <1>13. Delivered'
    <2>1. listening' /\ "short" \notin mishaps' =>
            sent' + (IF phase' = "data" THEN need' ELSE 0) = Bytes(Past)'
      <3>1. Bytes(Past)' = Bytes(Past)
        BY <1>3, <1>4 DEF Bytes
      <3>2. listening /\ "short" \notin mishaps => sent + need = Bytes(Past)
        BY <1>2 DEF EmuWireInv, Delivered, Downloading
      <3>3. sent' + (IF phase' = "data" THEN need' ELSE 0) = sent' + need'
        BY <1>3
      <3> QED BY <1>3, <3>1, <3>2, <3>3
    <2>2. listening' => taken' < Total'
      BY <1>1, <1>2, <1>3 DEF EmuWireInv, Delivered, Downloading
    <2> QED BY <2>1, <2>2 DEF Delivered
  <1>14. TextFits'
    BY <1>4 DEF TextFits
  <1> QED BY <1>6, <1>7, <1>8, <1>9, <1>10, <1>11, <1>12, <1>13,
            <1>14 DEF EmuWireInv

(* The session has dropped its end: nothing is left of the download. *)
LEMMA DownloadEndsWire ==
  ASSUME EmuWireInv, DownloadEnds
  PROVE  EmuWireInv'
  <1>1. Rounds' = Rounds /\ Total' = Total /\ Download' = Download
    BY SameRequest DEF DownloadEnds, EndsWith
  <1>2. /\ asked = <<>> /\ pipe = <<>> /\ ~owesAck /\ wants = 0 /\ Len(<<>>) = 0
        /\ phase = "closing"
    BY Quiet, EmptySeq DEF DownloadEnds
  <1>3. phase' = "idle" /\ UNCHANGED <<req, turn, need, moved, sent, taken, listening, mishaps>>
    BY DEF DownloadEnds, EndsWith, session
  <1>4. UNCHANGED <<open, torn, asked, wants, owesAck, pipe, garbled>>
    BY DEF DownloadEnds, emulator
  <1>5. TypeOK'
    BY <1>1, <1>2, <1>3, <1>4 DEF EmuWireInv, TypeOK
  <1>6. InStep'
    BY <1>1, <1>2, <1>3, <1>4 DEF EmuWireInv, InStep, Outstanding, Promised
  <1>7. EndExplained'
    BY <1>2, <1>3, <1>4 DEF EndExplained
  <1>8. PhaseFits'
    BY <1>1, <1>2, <1>3 DEF PhaseFits, Downloading, Uploading
  <1>9. NoneExtra'
    BY <1>1, <1>2, <1>3, <1>4 DEF NoneExtra, Outstanding, Stopped, Uploading
  <1>10. AnswersFit'
    BY <1>2, <1>3, <1>4 DEF AnswersFit, Uploading, Past
  <1>11. ZeroKnown'
    BY <1>1, <1>2, <1>3 DEF ZeroKnown
  <1>12. Delivered'
    BY <1>1, <1>2, <1>3 DEF Delivered, Downloading, Past, Bytes
  <1>13. TextFits'
    BY <1>3 DEF TextFits
  <1> QED BY <1>5, <1>6, <1>7, <1>8, <1>9, <1>10, <1>11, <1>12,
            <1>13 DEF EmuWireInv

(* The stream ends inside an answer. *)
LEMMA SpinsWire ==
  ASSUME EmuWireInv, Spins
  PROVE  EmuWireInv'
  <1>1. Rounds' = Rounds /\ Total' = Total /\ Download' = Download
    BY SameRequest DEF Spins, EndsWith
  <1>2. phase' = "spinning" /\ UNCHANGED <<req, turn, need, moved, sent, taken, listening, mishaps>>
    BY DEF Spins, EndsWith, session
  <1>3. UNCHANGED <<open, torn, asked, wants, owesAck, pipe, garbled>>
    BY DEF Spins, emulator
  <1>4. TypeOK'
    BY <1>1, <1>2, <1>3 DEF EmuWireInv, TypeOK
  <1>5. InStep'
    BY <1>1, <1>2, <1>3 DEF EmuWireInv, InStep, Outstanding, Promised
  <1>6. EndExplained'
    BY <1>2, <1>3 DEF EndExplained
  <1>7. PhaseFits'
    BY <1>1, <1>2 DEF PhaseFits, Downloading, Uploading
  <1>8. NoneExtra'
    BY <1>1, <1>2, <1>3 DEF EmuWireInv, NoneExtra, Outstanding, Stopped, Uploading
  <1>9. AnswersFit'
    BY <1>2, <1>3 DEF AnswersFit, Uploading, Past
  <1>10. ZeroKnown'
    BY <1>1, <1>2 DEF ZeroKnown
  <1>11. Delivered'
    BY <1>1, <1>2 DEF Delivered, Downloading, Past, Bytes
  <1>12. TextFits'
    BY <1>2 DEF TextFits
  <1> QED BY <1>4, <1>5, <1>6, <1>7, <1>8, <1>9, <1>10, <1>11,
            <1>12 DEF EmuWireInv

(* It has ended where an answer should begin, or a write fails. *)
LEMMA EndOfStreamWire ==
  ASSUME EmuWireInv, EndOfStream
  PROVE  EmuWireInv'
  <1>1. Rounds' = Rounds /\ Total' = Total /\ Download' = Download
    BY SameRequest DEF EndOfStream, EndsWith
  <1>2. phase' = "ended" /\ UNCHANGED <<req, turn, need, moved, sent, taken, listening, mishaps>>
    BY DEF EndOfStream, EndsWith, session
  <1>3. UNCHANGED <<open, torn, asked, wants, owesAck, pipe, garbled>>
    BY DEF EndOfStream, emulator
  <1>4. ~open
    BY DEF EndOfStream
  <1>5. TypeOK'
    BY <1>1, <1>2, <1>3, <1>4 DEF EmuWireInv, TypeOK
  <1>6. InStep'
    BY <1>1, <1>2, <1>3, <1>4 DEF EmuWireInv, InStep, Outstanding, Promised
  <1>7. EndExplained'
    BY <1>2, <1>3, <1>4 DEF EndExplained
  <1>8. PhaseFits'
    BY <1>1, <1>2 DEF PhaseFits, Downloading, Uploading
  <1>9. NoneExtra'
    BY <1>1, <1>2, <1>3 DEF EmuWireInv, NoneExtra, Outstanding, Stopped, Uploading
  <1>10. AnswersFit'
    BY <1>2, <1>3 DEF AnswersFit, Uploading, Past
  <1>11. ZeroKnown'
    BY <1>1, <1>2 DEF ZeroKnown
  <1>12. Delivered'
    BY <1>1, <1>2 DEF Delivered, Downloading, Past, Bytes
  <1>13. TextFits'
    BY <1>2 DEF TextFits
  <1> QED BY <1>5, <1>6, <1>7, <1>8, <1>9, <1>10, <1>11, <1>12,
            <1>13 DEF EmuWireInv

-----------------------------------------------------------------------------
(* Uploads. *)

(* Enough bytes for an address, or no more to come. *)
LEMMA FramesEndWire ==
  ASSUME EmuWireInv, FramesEnd
  PROVE  EmuWireInv'
  <1>1. Rounds' = Rounds /\ Total' = Total /\ Download' = Download
    BY SameRequest DEF FramesEnd, EndsWith
  <1>2. /\ Rounds = Len(req.list) /\ Rounds \in Nat \ {0}
        /\ \A i \in 1..Rounds : req.list[i].size \in Nat
        /\ turn \in 1..Rounds /\ req.cmd = "PutAddress" /\ req.list \in Lists
        /\ phase = "frames"
    BY RoundTypes DEF FramesEnd, EmuWireInv, PhaseFits, Uploading
  <1>3. phase' = "ack" /\ UNCHANGED <<req, turn, need, moved, sent, taken, listening, mishaps>>
    BY DEF FramesEnd, EndsWith, session
  <1>4. UNCHANGED <<open, torn, asked, wants, owesAck, pipe, garbled>>
    BY DEF FramesEnd, emulator
  <1>5. TypeOK'
    BY <1>1, <1>2, <1>3, <1>4 DEF EmuWireInv, TypeOK
  <1>6. InStep'
    BY <1>1, <1>2, <1>3, <1>4 DEF EmuWireInv, InStep, Outstanding, Promised
  <1>7. EndExplained'
    BY <1>2, <1>3, <1>4 DEF EndExplained
  <1>8. PhaseFits'
    BY <1>1, <1>2, <1>3 DEF PhaseFits, Downloading, Uploading
  <1>9. NoneExtra'
    BY <1>1, <1>2, <1>3, <1>4 DEF EmuWireInv, NoneExtra, Outstanding, Stopped,
       Uploading
  <1>10. AnswersFit'
    BY <1>2, <1>3, <1>4 DEF EmuWireInv, AnswersFit, Uploading, Past
  <1>11. ZeroKnown'
    BY <1>1, <1>2, <1>3 DEF ZeroKnown
  <1>12. Delivered'
    BY <1>1, <1>2, <1>3 DEF Delivered, Downloading, Past, Bytes
  <1>13. TextFits'
    BY <1>3 DEF TextFits
  <1> QED BY <1>5, <1>6, <1>7, <1>8, <1>9, <1>10, <1>11, <1>12,
            <1>13 DEF EmuWireInv

(* The one acknowledgement that is awaited. *)
LEMMA OnlyAcknowledgement ==
  ASSUME EmuWireInv, Acknowledged
  PROVE  /\ asked = <<>> /\ ~owesAck /\ wants = 0 /\ Tail(pipe) = <<>>
         /\ Head(pipe) = pipe[1] /\ 1 \in 1..Len(pipe) /\ phase = "ack"
         /\ UNCHANGED <<sent, taken, listening, mishaps>>
  BY OnlyAnswer DEF Acknowledged, Arrived, session

(* An acknowledgement that is not the last: the next header is sent. *)
LEMMA AcknowledgedNextWire ==
  ASSUME EmuWireInv, Acknowledged, Head(pipe) # Junk /\ turn < Rounds
  PROVE  EmuWireInv'
  <1>1. Rounds' = Rounds /\ Total' = Total /\ Download' = Download
    BY SameRequest DEF Acknowledged
  <1>2. /\ Rounds = Len(req.list) /\ Rounds \in Nat \ {0}
        /\ \A i \in 1..Rounds : req.list[i].size \in Nat
        /\ turn \in 1..Rounds /\ req.cmd = "PutAddress" /\ req.list \in Lists
        /\ phase = "ack"
    BY RoundTypes DEF Acknowledged, EmuWireInv, PhaseFits, Uploading
  <1>3. /\ asked = <<>> /\ ~owesAck /\ wants = 0 /\ Tail(pipe) = <<>>
        /\ Head(pipe) = pipe[1] /\ 1 \in 1..Len(pipe)
        /\ UNCHANGED <<sent, taken, listening, mishaps>>
    BY OnlyAcknowledgement
  <1>4. pipe' = <<>> /\ Len(<<>>) = 0 /\ <<>> \in Seq(Nat \cup {Ascii, Junk})
    BY <1>3, EmptySeq DEF Acknowledged
  <1>5. AskWrite(req.list[turn + 1].size) /\ turn + 1 \in 1..Rounds
    BY <1>2 DEF Acknowledged
  <1>6. open \in BOOLEAN /\ garbled \in BOOLEAN
    BY DEF EmuWireInv, TypeOK
  <1>7. garbled' = garbled
    <2>1. ~(wants > 0)
      BY <1>3
    <2> QED BY <1>5, <1>6, <2>1, Zenon DEF AskWrite
  <1>8. /\ wants' = (IF open /\ ~garbled THEN req.list[turn + 1].size ELSE 0)
        /\ owesAck' = (open /\ ~garbled)
        /\ UNCHANGED <<open, torn, asked>>
    BY <1>3, <1>5, <1>6 DEF AskWrite, Understands
  <1>9. turn' = turn + 1 /\ moved' = 0 /\ phase' = "frames" /\ UNCHANGED <<req, need>>
    BY DEF Acknowledged
  <1>10. TypeOK'
    BY <1>1, <1>2, <1>3, <1>4, <1>5, <1>6, <1>7, <1>8, <1>9 DEF EmuWireInv, TypeOK
  <1>11. InStep'
    BY <1>1, <1>2, <1>3, <1>4, <1>5, <1>6, <1>7, <1>8, <1>9 DEF EmuWireInv,
       InStep, Outstanding, Promised
  <1>12. EndExplained'
    BY <1>2, <1>3, <1>6, <1>8, <1>9 DEF EndExplained
  <1>13. PhaseFits'
    BY <1>1, <1>2, <1>5, <1>8, <1>9 DEF PhaseFits, Downloading, Uploading
  <1>14. NoneExtra'
    BY <1>1, <1>2, <1>3, <1>4, <1>5, <1>6, <1>7, <1>8, <1>9 DEF NoneExtra,
       Outstanding, Stopped, Uploading
  <1>15. AnswersFit'
    BY <1>2, <1>3, <1>4, <1>5, <1>8, <1>9 DEF AnswersFit, Uploading, Past
  <1>16. ZeroKnown'
    BY <1>1, <1>2, <1>3, <1>5, <1>8, <1>9 DEF ZeroKnown
  <1>17. Delivered'
    BY <1>1, <1>2, <1>3, <1>5, <1>8, <1>9 DEF Delivered, Downloading, Past, Bytes
  <1>18. TextFits'
    BY <1>9 DEF TextFits
  <1> QED BY <1>10, <1>11, <1>12, <1>13, <1>14, <1>15, <1>16, <1>17,
            <1>18 DEF EmuWireInv

(* The last one, or one that is rejected. *)
LEMMA AcknowledgedLastWire ==
  ASSUME EmuWireInv, Acknowledged, ~(Head(pipe) # Junk /\ turn < Rounds)
  PROVE  EmuWireInv'
  <1>1. Rounds' = Rounds /\ Total' = Total /\ Download' = Download
    BY SameRequest DEF Acknowledged, EndsWith
  <1>2. /\ Rounds = Len(req.list) /\ Rounds \in Nat \ {0}
        /\ \A i \in 1..Rounds : req.list[i].size \in Nat
        /\ turn \in 1..Rounds /\ req.cmd = "PutAddress" /\ req.list \in Lists
        /\ phase = "ack"
    BY RoundTypes DEF Acknowledged, EmuWireInv, PhaseFits, Uploading
  <1>3. /\ asked = <<>> /\ ~owesAck /\ wants = 0 /\ Tail(pipe) = <<>>
        /\ Head(pipe) = pipe[1] /\ 1 \in 1..Len(pipe)
        /\ UNCHANGED <<sent, taken, listening, mishaps>>
    BY OnlyAcknowledgement
  <1>4. /\ pipe' = <<>> /\ Len(<<>>) = 0 /\ <<>> \in Seq(Nat \cup {Ascii, Junk})
        /\ UNCHANGED <<open, torn, asked, wants, owesAck, garbled>>
    BY <1>3, EmptySeq DEF Acknowledged, TakeAnswer
  <1>5. /\ phase' = (IF pipe[1] = Junk THEN "ended" ELSE "idle")
        /\ UNCHANGED <<req, turn, need, moved>>
    BY <1>3 DEF Acknowledged, EndsWith
  <1>6. pipe[1] # Junk \/ "refused" \in mishaps
    BY <1>2, <1>3 DEF EmuWireInv, AnswersFit, Uploading
  <1>7. TypeOK'
    BY <1>1, <1>2, <1>3, <1>4, <1>5, <1>6 DEF EmuWireInv, TypeOK
  <1>8. InStep'
    BY <1>1, <1>2, <1>3, <1>4, <1>5, <1>6 DEF EmuWireInv, InStep, Outstanding,
       Promised
  <1>9. EndExplained'
    BY <1>2, <1>3, <1>4, <1>5, <1>6 DEF EndExplained
  <1>10. PhaseFits'
    BY <1>1, <1>2, <1>5 DEF PhaseFits, Downloading, Uploading
  <1>11. NoneExtra'
    BY <1>1, <1>2, <1>3, <1>4, <1>5, <1>6 DEF NoneExtra, Outstanding, Stopped,
       Uploading
  <1>12. AnswersFit'
    BY <1>2, <1>3, <1>4, <1>5, <1>6 DEF AnswersFit, Uploading, Past
  <1>13. ZeroKnown'
    BY <1>1, <1>2, <1>3, <1>5, <1>6 DEF ZeroKnown
  <1>14. Delivered'
    BY <1>1, <1>2, <1>3, <1>5, <1>6 DEF Delivered, Downloading, Past, Bytes
  <1>15. TextFits'
    BY <1>5 DEF TextFits
  <1> QED BY <1>7, <1>8, <1>9, <1>10, <1>11, <1>12, <1>13, <1>14,
            <1>15 DEF EmuWireInv

(* A frame of an upload. *)
LEMMA WriteFrameWire ==
  ASSUME EmuWireInv, WriteFrame
  PROVE  EmuWireInv'
  <1>1. Rounds' = Rounds /\ Total' = Total /\ Download' = Download
    BY SameRequest DEF WriteFrame
  <1>2. /\ Rounds = Len(req.list) /\ Rounds \in Nat \ {0}
        /\ \A i \in 1..Rounds : req.list[i].size \in Nat
        /\ turn \in 1..Rounds /\ req.cmd = "PutAddress" /\ req.list \in Lists
        /\ phase = "frames"
    BY RoundTypes DEF WriteFrame, EmuWireInv, PhaseFits, Uploading
  <1>3. PICK n \in 1..(Total - sent) :
          /\ moved' = moved + n /\ sent' = sent + n
          /\ listening' = (sent' < Total)
          /\ wants' = (IF n < wants THEN wants - n ELSE 0)
          /\ garbled' = (garbled \/ (open /\ n > wants))
          /\ mishaps' = IF moved' > req.list[turn].size
                        THEN mishaps \cup {"spanned"} ELSE mishaps
    BY DEF WriteFrame
  <1>4. UNCHANGED <<phase, req, turn, need, taken, open, torn, asked, owesAck, pipe>>
    BY DEF WriteFrame
  <1>5. /\ n \in Nat /\ n > 0 /\ wants \in Nat /\ moved \in Nat /\ sent \in Nat
        /\ garbled \in BOOLEAN /\ open \in BOOLEAN /\ req.list[turn].size \in Nat
    <2>1. Total \in Nat
      BY <1>2, RoundTypes DEF EmuWireInv, Uploading
    <2> QED BY <1>2, <2>1 DEF EmuWireInv, TypeOK
  <1>6. TypeOK'
    <2>1. moved' \in Nat /\ sent' \in Nat /\ wants' \in Nat
      BY <1>3, <1>5
    <2>2. garbled' \in BOOLEAN
      BY <1>3, <1>5, Zenon
    <2>3. listening' \in BOOLEAN
      BY <1>3
    <2>4. mishaps' \subseteq {"zero", "refused", "short", "torn", "spanned", "abandoned",
                            "swallowed"}
      BY <1>3 DEF EmuWireInv, TypeOK
    <2> QED BY <1>4, <2>1, <2>2, <2>3, <2>4 DEF EmuWireInv, TypeOK
  <1>7. InStep'
    <2>1. mishaps \subseteq mishaps' /\ (moved' > req.list[turn].size => "spanned" \in mishaps')
      BY <1>3
    <2>2. open /\ ~garbled => wants = req.list[turn].size - moved
      BY <1>2 DEF EmuWireInv, InStep, Promised
    <2>3. CASE ~open \/ garbled
      <3>1. garbled' = garbled
        BY <1>3, <1>5, <2>3, Zenon
      <3> QED BY <1>4, <2>1, <2>3, <3>1 DEF EmuWireInv, InStep
    <2>4. CASE open /\ ~garbled /\ n > wants
      <3>1. moved' > req.list[turn].size
        BY <1>3, <1>5, <2>2, <2>4
      <3>2. garbled' = TRUE
        BY <1>3, <2>4, Zenon
      <3> QED BY <2>1, <3>1, <3>2 DEF InStep
    <2>5. CASE open /\ ~garbled /\ ~(n > wants)
      <3>1. garbled' = FALSE
        BY <1>3, <2>5, Zenon
      <3>2. wants' = req.list[turn].size - moved'
        BY <1>3, <1>5, <2>2, <2>5
      <3>3. Promised' = req.list[turn].size - moved' /\ Outstanding' = Outstanding
        BY <1>1, <1>2, <1>4 DEF Promised, Outstanding
      <3> QED BY <1>2, <1>4, <2>5, <3>1, <3>2, <3>3 DEF EmuWireInv, InStep
    <2> QED BY <2>3, <2>4, <2>5
  <1>8. EndExplained'
    BY <1>2, <1>4 DEF EndExplained
  <1>9. PhaseFits'
    BY <1>1, <1>2, <1>3, <1>4, <1>5 DEF PhaseFits, Downloading, Uploading
  <1>10. NoneExtra'
    <2>1. wants' > 0 => wants > 0
      BY <1>3, <1>5
    <2>2. Outstanding' = Outstanding
      BY <1>1, <1>2, <1>4 DEF Outstanding
    <2> QED BY <1>2, <1>4, <2>1, <2>2 DEF EmuWireInv, NoneExtra, Stopped, Uploading
  <1>11. AnswersFit'
    <2>1. "refused" \in mishaps => "refused" \in mishaps'
      BY <1>3
    <2> QED BY <1>2, <1>4, <2>1 DEF EmuWireInv, AnswersFit, Uploading
  <1>12. ZeroKnown'
    BY <1>1, <1>2, <1>3, <1>4, <1>5 DEF ZeroKnown
  <1>13. Delivered'
    BY <1>1, <1>2, <1>3, <1>4, <1>5 DEF Delivered, Downloading, Past, Bytes
  <1>14. TextFits'
    BY <1>2, <1>4 DEF TextFits
  <1> QED BY <1>6, <1>7, <1>8, <1>9, <1>10, <1>11, <1>12, <1>13,
            <1>14 DEF EmuWireInv

-----------------------------------------------------------------------------
(* The session. *)

(* It forwards what it has, and leaves with the last byte at the latest. *)
LEMMA SessionForwardsWire ==
  ASSUME EmuWireInv, SessionForwards
  PROVE  EmuWireInv'
  <1>1. Rounds' = Rounds /\ Total' = Total /\ Download' = Download
    BY SameRequest DEF SessionForwards, task
  <1>2. /\ taken' = sent /\ sent \in Nat /\ listening' \in BOOLEAN
        /\ listening' => ~(sent >= Total)
        /\ UNCHANGED <<phase, req, turn, need, moved, sent, mishaps>> /\ listening
    BY DEF SessionForwards, task, EmuWireInv, TypeOK
  <1>3. UNCHANGED <<open, torn, asked, wants, owesAck, pipe, garbled>>
    BY DEF SessionForwards, emulator
  <1>4. TypeOK'
    BY <1>1, <1>2, <1>3 DEF EmuWireInv, TypeOK
  <1>5. InStep'
    BY <1>1, <1>2, <1>3 DEF EmuWireInv, InStep, Outstanding, Promised
  <1>6. EndExplained'
    BY <1>2, <1>3 DEF EmuWireInv, EndExplained
  <1>7. PhaseFits'
    BY <1>1, <1>2 DEF EmuWireInv, PhaseFits, Downloading, Uploading
  <1>8. NoneExtra'
    BY <1>1, <1>2, <1>3 DEF EmuWireInv, NoneExtra, Outstanding, Stopped, Uploading
  <1>9. AnswersFit'
    BY <1>2, <1>3 DEF EmuWireInv, AnswersFit, Uploading, Past
  <1>10. ZeroKnown'
    BY <1>1, <1>2 DEF EmuWireInv, ZeroKnown
  <1>11. Delivered'
    <2>1. Bytes(Past)' = Bytes(Past)
      BY <1>1, <1>2 DEF Bytes, Past
    <2>2. Downloading => Total \in Nat
      BY RoundTypes DEF EmuWireInv
    <2>3. Downloading' /\ listening' => taken' < Total'
      BY <1>1, <1>2, <2>2 DEF Downloading
    <2> QED BY <1>2, <2>1, <2>3 DEF EmuWireInv, Delivered, Downloading
  <1>12. TextFits'
    BY <1>1, <1>2 DEF EmuWireInv, TextFits
  <1> QED BY <1>4, <1>5, <1>6, <1>7, <1>8, <1>9, <1>10, <1>11,
            <1>12 DEF EmuWireInv

(* It leaves in the middle of an upload. *)
LEMMA SessionAbandonsWire ==
  ASSUME EmuWireInv, SessionAbandons
  PROVE  EmuWireInv'
  <1>1. Rounds' = Rounds /\ Total' = Total /\ Download' = Download
    BY SameRequest DEF SessionAbandons, task
  <1>2. /\ req.cmd = "PutAddress" /\ listening' = FALSE
        /\ mishaps' \in {mishaps, mishaps \cup {"abandoned"}}
        /\ UNCHANGED <<phase, req, turn, need, moved, sent, taken>>
    BY DEF SessionAbandons, task
  <1>3. UNCHANGED <<open, torn, asked, wants, owesAck, pipe, garbled>>
    BY DEF SessionAbandons, emulator
  <1>4. mishaps \subseteq mishaps' /\ ("spanned" \in mishaps' => "spanned" \in mishaps)
    BY <1>2
  <1>5. ~Downloading
    BY <1>2 DEF EmuWireInv, PhaseFits
  <1>6. TypeOK'
    BY <1>1, <1>2, <1>3, <1>4, <1>5 DEF EmuWireInv, TypeOK
  <1>7. InStep'
    BY <1>1, <1>2, <1>3, <1>4 DEF EmuWireInv, InStep, Outstanding, Promised
  <1>8. EndExplained'
    BY <1>2, <1>3, <1>4 DEF EmuWireInv, EndExplained
  <1>9. PhaseFits'
    BY <1>1, <1>2 DEF EmuWireInv, PhaseFits, Downloading, Uploading
  <1>10. NoneExtra'
    BY <1>1, <1>2, <1>3 DEF EmuWireInv, NoneExtra, Outstanding, Stopped, Uploading
  <1>11. AnswersFit'
    BY <1>2, <1>3, <1>4 DEF EmuWireInv, AnswersFit, Uploading, Past
  <1>12. ZeroKnown'
    BY <1>1, <1>2, <1>4 DEF EmuWireInv, ZeroKnown
  <1>13. Delivered'
    BY <1>1, <1>2, <1>4, <1>5 DEF Delivered, Downloading, Past, Bytes
  <1>14. TextFits'
    BY <1>1, <1>2, <1>4 DEF EmuWireInv, TextFits
  <1> QED BY <1>6, <1>7, <1>8, <1>9, <1>10, <1>11, <1>12, <1>13,
            <1>14 DEF EmuWireInv

-----------------------------------------------------------------------------
(* The emulator. *)

(* Where the task stands when a command is on its way. *)
LEMMA CommandAwaited ==
  ASSUME EmuWireInv, asked # <<>>, ~Stopped
  PROVE  /\ phase \in {"ascii", "head", "data", "text"}
         /\ phase \in {"head", "data"} =>
              /\ Len(pipe) + Len(asked) <= Rounds - Past /\ Past \in Nat
              /\ Rounds = Len(Groups(req.list)) /\ Groups(req.list) \in Seq(Nat)
              /\ asked[1] = Groups(req.list)[Past + Len(pipe) + 1]
              /\ asked[1] \in Nat
         /\ phase = "ascii" => asked[1] = Ascii
  <1>1. /\ asked \in Seq(Nat \cup {Ascii}) /\ Len(asked) \in Nat /\ Len(pipe) \in Nat
        /\ owesAck \in BOOLEAN
    BY DEF EmuWireInv, TypeOK
  <1>2. Len(asked) >= 1
    BY <1>1, Taken
  <1>3. phase \in {"ascii", "head", "data", "text"}
    BY Quiet DEF Stopped, Uploading, EmuWireInv, TypeOK, AnswersFit
  <1>4. ASSUME phase \in {"head", "data"}
        PROVE  /\ Len(pipe) + Len(asked) <= Rounds - Past /\ Past \in Nat
               /\ Rounds = Len(Groups(req.list)) /\ Groups(req.list) \in Seq(Nat)
               /\ asked[1] = Groups(req.list)[Past + Len(pipe) + 1]
               /\ asked[1] \in Nat
    <2>1. /\ Rounds = Len(Groups(req.list)) /\ Rounds \in Nat
          /\ Groups(req.list) \in Seq(Nat) /\ turn \in 1..Rounds
          /\ \A i \in 1..Rounds : Groups(req.list)[i] \in Nat
      BY <1>4, RoundTypes DEF EmuWireInv, PhaseFits, Downloading
    <2>2. Past \in Nat /\ Outstanding = Rounds - Past
      BY <1>4, <2>1 DEF Past, Outstanding
    <2>3. ~owesAck
      BY <1>1, <1>4 DEF EmuWireInv, NoneExtra, Uploading, Stopped
    <2>4. Len(asked) + Len(pipe) + 0 <= Rounds - Past
      BY <2>2, <2>3 DEF EmuWireInv, NoneExtra
    <2>5. asked[1] = Groups(req.list)[Past + Len(pipe) + 1]
      BY <1>1, <1>2, <1>4 DEF EmuWireInv, AnswersFit
    <2>6. Past + Len(pipe) + 1 \in 1..Rounds
      BY <2>1, <2>2, <2>4
    <2>7. Len(pipe) + Len(asked) <= Rounds - Past
      BY <1>1, <2>1, <2>2, <2>4
    <2> QED BY <2>1, <2>2, <2>5, <2>6, <2>7
  <1>5. phase = "ascii" => asked[1] = Ascii
    BY <1>1, <1>2 DEF EmuWireInv, AnswersFit
  <1> QED BY <1>3, <1>4, <1>5

(* A command that is answered moves to the answers: the counts stay.       *)
LEMMA AnswerMoves ==
  ASSUME EmuWireInv, asked # <<>>, asked' = Tail(asked),
         NEW m \in Nat \cup {Ascii, Junk}, pipe' = Append(pipe, m)
  PROVE  /\ asked' \in Seq(Nat \cup {Ascii}) /\ pipe' \in Seq(Nat \cup {Ascii, Junk})
         /\ Len(asked') = Len(asked) - 1 /\ Len(pipe') = Len(pipe) + 1
         /\ Len(asked) \in Nat /\ Len(pipe) \in Nat /\ Head(asked) = asked[1]
         /\ Head(asked) \in Nat \cup {Ascii}
         /\ \A i \in 1..Len(asked') : i + 1 \in 1..Len(asked) /\ asked'[i] = asked[i + 1]
         /\ \A i \in 1..Len(pipe) : pipe'[i] = pipe[i]
         /\ pipe'[Len(pipe')] = m
  <1>1. asked \in Seq(Nat \cup {Ascii}) /\ pipe \in Seq(Nat \cup {Ascii, Junk})
    BY DEF EmuWireInv, TypeOK
  <1>2. /\ Head(asked) = asked[1] /\ asked' \in Seq(Nat \cup {Ascii})
        /\ Head(asked) \in Nat \cup {Ascii}
        /\ Len(asked') = Len(asked) - 1 /\ Len(asked) \in Nat
        /\ \A i \in 1..(Len(asked) - 1) : asked'[i] = asked[i + 1]
    BY <1>1, Taken
  <1>3. /\ pipe' \in Seq(Nat \cup {Ascii, Junk}) /\ Len(pipe') = Len(pipe) + 1
        /\ Len(pipe) \in Nat /\ pipe'[Len(pipe) + 1] = m
        /\ \A i \in 1..Len(pipe) : pipe'[i] = pipe[i]
    BY <1>1, Given
  <1> QED BY <1>2, <1>3

(* A read is answered with all bytes, with fewer, or with an error. *)
LEMMA AnswersReadWire ==
  ASSUME EmuWireInv, AnswersRead
  PROVE  EmuWireInv'
  <1>1. Rounds' = Rounds /\ Total' = Total /\ Download' = Download
    BY SameRequest DEF AnswersRead, task
  <1>2. /\ UNCHANGED <<phase, req, turn, need, moved, sent, taken, listening, open, torn, wants, garbled>>
        /\ UNCHANGED owesAck
    BY DEF AnswersRead, task, session
  <1>3. PICK m \in Nat \cup {Ascii, Junk} :
          /\ pipe' = Append(pipe, m)
          /\ \/ m = Head(asked) /\ mishaps' = mishaps
             \/ m \in {0, Ascii, Junk} /\ mishaps' = mishaps \cup {"refused"}
             \/ m > 0 /\ mishaps' = mishaps \cup {"short"}
    <2>1. Head(asked) \in Nat
      BY Taken DEF AnswersRead, EmuWireInv, TypeOK
    <2>2. CASE Replies(Head(asked), FALSE)
      BY <2>1, <2>2 DEF Replies
    <2>3. ASSUME NEW m \in {0, Ascii, Junk}, Replies(m, TRUE)
          PROVE  /\ m \in Nat \cup {Ascii, Junk} /\ pipe' = Append(pipe, m)
                 /\ mishaps' = mishaps \cup {"refused"}
      BY <2>3 DEF Replies
    <2>4. ASSUME NEW m \in 1..(Head(asked) - 1)
          PROVE  m \in Nat \cup {Ascii, Junk} /\ m > 0
      BY <2>1
    <2> QED BY <2>2, <2>3, <2>4 DEF AnswersRead
  <1>4. mishaps \subseteq mishaps' /\ ("spanned" \in mishaps' => "spanned" \in mishaps)
    BY <1>3
  <1>5. asked # <<>> /\ asked' = Tail(asked)
    BY DEF AnswersRead
  <1>6. /\ asked' \in Seq(Nat \cup {Ascii}) /\ pipe' \in Seq(Nat \cup {Ascii, Junk})
        /\ Len(asked') = Len(asked) - 1 /\ Len(pipe') = Len(pipe) + 1
        /\ Len(asked) \in Nat /\ Len(pipe) \in Nat
        /\ \A i \in 1..Len(asked') : i + 1 \in 1..Len(asked) /\ asked'[i] = asked[i + 1]
        /\ \A i \in 1..Len(pipe) : pipe'[i] = pipe[i]
        /\ pipe'[Len(pipe')] = m
    BY <1>3, <1>5, AnswerMoves
  <1>7. Len(asked') + Len(pipe') = Len(asked) + Len(pipe)
    BY <1>6
  <1>8. Outstanding' = Outstanding /\ Promised' = Promised /\ Past' = Past
    BY <1>1, <1>2 DEF Outstanding, Promised, Past
  <1>9. TypeOK'
    <2>1. mishaps' \subseteq {"zero", "refused", "short", "torn", "spanned", "abandoned",
                            "swallowed"}
      BY <1>3 DEF EmuWireInv, TypeOK
    <2> QED BY <1>2, <1>6, <2>1 DEF EmuWireInv, TypeOK
  <1>10. InStep'
    <2> DEFINE o == IF owesAck THEN 1 ELSE 0
               n == Len(asked) + Len(pipe)
    <2>1. Len(asked') + Len(pipe') + (IF owesAck' THEN 1 ELSE 0) = n + o
      BY <1>2, <1>7
    <2>2. open /\ ~garbled /\ phase \notin {"ended", "spinning"} =>
            n + o = Outstanding /\ wants = Promised
      BY DEF EmuWireInv, InStep
    <2>3. garbled => "spanned" \in mishaps
      BY DEF EmuWireInv, InStep
    <2> HIDE DEF n, o
    <2> QED BY <1>2, <1>4, <1>8, <2>1, <2>2, <2>3 DEF InStep
  <1>11. EndExplained'
    BY <1>2, <1>4 DEF EmuWireInv, EndExplained
  <1>12. PhaseFits'
    BY <1>1, <1>2 DEF EmuWireInv, PhaseFits, Downloading, Uploading
  <1>13. NoneExtra'
    <2> DEFINE o == IF owesAck THEN 1 ELSE 0
               n == Len(asked) + Len(pipe)
    <2>1. Len(asked') + Len(pipe') + (IF owesAck' THEN 1 ELSE 0) = n + o
      BY <1>2, <1>7
    <2>2. ~Stopped => n + o <= Outstanding
      BY DEF EmuWireInv, NoneExtra
    <2> HIDE DEF n, o
    <2>3. ~Stopped' => Len(asked') + Len(pipe') + (IF owesAck' THEN 1 ELSE 0) <= Outstanding'
      BY <1>2, <1>8, <2>1, <2>2 DEF Stopped
    <2> QED BY <1>2, <2>3 DEF EmuWireInv, NoneExtra, Stopped, Uploading
  <1>14. AnswersFit'
    <2>1. CASE Stopped \/ phase = "text"
      BY <1>2, <2>1 DEF AnswersFit, Stopped, Uploading
    <2>2. CASE ~Stopped /\ phase # "text"
      <3>1. /\ phase \in {"head", "data"} /\ Past \in Nat
            /\ asked[1] = Groups(req.list)[Past + Len(pipe) + 1]
        <4>1. Head(asked) = asked[1] /\ asked[1] # Ascii
          BY <1>3, <1>5, AnswerMoves DEF AnswersRead
        <4> QED BY <1>5, <2>2, <4>1, CommandAwaited
      <3>2. Groups(req.list)' = Groups(req.list)
        BY <1>2
      <3>3. \A i \in 1..Len(asked') : asked'[i] = Groups(req.list)[Past + Len(pipe') + i]
        <4>1. \A i \in 1..Len(asked') : asked[i + 1] = Groups(req.list)[Past + Len(pipe) + (i + 1)]
          BY <1>6, <3>1 DEF EmuWireInv, AnswersFit
        <4>2. \A i \in 1..Len(asked') : Past + Len(pipe) + (i + 1) = Past + Len(pipe') + i
          BY <1>6, <3>1
        <4> QED BY <1>6, <4>1, <4>2
      <3>4. Head(asked) = asked[1]
        BY <1>3, <1>5, AnswerMoves
      <3>5. \A i \in 1..Len(pipe') :
              \/ pipe'[i] = Groups(req.list)[Past + i]
              \/ pipe'[i] <= 0 /\ "refused" \in mishaps'
              \/ pipe'[i] > 0 /\ "short" \in mishaps'
        <4> SUFFICES ASSUME NEW i \in 1..Len(pipe')
                     PROVE  \/ pipe'[i] = Groups(req.list)[Past + i]
                            \/ pipe'[i] <= 0 /\ "refused" \in mishaps'
                            \/ pipe'[i] > 0 /\ "short" \in mishaps'
          OBVIOUS
        <4>1. CASE i \in 1..Len(pipe)
          BY <1>4, <1>6, <3>1, <4>1 DEF EmuWireInv, AnswersFit
        <4>2. CASE i = Len(pipe')
          <5>1. pipe'[i] = m /\ Past + i = Past + Len(pipe) + 1
            BY <1>6, <3>1, <4>2
          <5> QED BY <1>3, <3>1, <3>4, <5>1 DEF Ascii, Junk
        <4>3. i \in 1..Len(pipe) \/ i = Len(pipe')
          BY <1>6
        <4> QED BY <4>1, <4>2, <4>3
      <3> QED BY <1>2, <1>8, <3>1, <3>2, <3>3, <3>5 DEF AnswersFit, Uploading
    <2> QED BY <2>1, <2>2
  <1>15. ZeroKnown'
    <2>1. Groups(req.list)' = Groups(req.list)
      BY <1>2
    <2> QED BY <1>1, <1>2, <1>4, <2>1 DEF EmuWireInv, ZeroKnown
  <1>16. Delivered'
    <2>1. Bytes(Past)' = Bytes(Past)
      BY <1>1, <1>2, <1>8 DEF Bytes
    <2> QED BY <1>1, <1>2, <1>4, <2>1 DEF EmuWireInv, Delivered, Downloading
  <1>17. TextFits'
    BY <1>1, <1>2, <1>4 DEF EmuWireInv, TextFits
  <1> QED BY <1>9, <1>10, <1>11, <1>12, <1>13, <1>14, <1>15, <1>16,
            <1>17 DEF EmuWireInv

(* A textual command is answered or refused. *)
LEMMA AnswersAsciiWire ==
  ASSUME EmuWireInv, AnswersAscii
  PROVE  EmuWireInv'
  <1>1. Rounds' = Rounds /\ Total' = Total /\ Download' = Download
    BY SameRequest DEF AnswersAscii, task
  <1>2. /\ UNCHANGED <<phase, req, turn, need, moved, sent, taken, listening, open, torn, wants, garbled>>
        /\ UNCHANGED owesAck
    BY DEF AnswersAscii, task, session
  <1>3. PICK m \in Nat \cup {Ascii, Junk} :
          /\ pipe' = Append(pipe, m)
          /\ \/ m = Ascii /\ mishaps' = mishaps
             \/ m = Junk /\ mishaps' = mishaps \cup {"refused"}
    BY DEF AnswersAscii, Replies
  <1>4. mishaps \subseteq mishaps' /\ ("spanned" \in mishaps' => "spanned" \in mishaps)
    BY <1>3
  <1>5. asked # <<>> /\ asked' = Tail(asked)
    BY DEF AnswersAscii
  <1>6. /\ asked' \in Seq(Nat \cup {Ascii}) /\ pipe' \in Seq(Nat \cup {Ascii, Junk})
        /\ Len(asked') = Len(asked) - 1 /\ Len(pipe') = Len(pipe) + 1
        /\ Len(asked) \in Nat /\ Len(pipe) \in Nat
        /\ \A i \in 1..Len(asked') : i + 1 \in 1..Len(asked) /\ asked'[i] = asked[i + 1]
        /\ \A i \in 1..Len(pipe) : pipe'[i] = pipe[i]
        /\ pipe'[Len(pipe')] = m
    BY <1>3, <1>5, AnswerMoves
  <1>7. Len(asked') + Len(pipe') = Len(asked) + Len(pipe)
    BY <1>6
  <1>8. Outstanding' = Outstanding /\ Promised' = Promised /\ Past' = Past
    BY <1>1, <1>2 DEF Outstanding, Promised, Past
  <1>9. TypeOK'
    <2>1. mishaps' \subseteq {"zero", "refused", "short", "torn", "spanned", "abandoned",
                            "swallowed"}
      BY <1>3 DEF EmuWireInv, TypeOK
    <2> QED BY <1>2, <1>6, <2>1 DEF EmuWireInv, TypeOK
  <1>10. InStep'
    <2> DEFINE o == IF owesAck THEN 1 ELSE 0
               n == Len(asked) + Len(pipe)
    <2>1. Len(asked') + Len(pipe') + (IF owesAck' THEN 1 ELSE 0) = n + o
      BY <1>2, <1>7
    <2>2. open /\ ~garbled /\ phase \notin {"ended", "spinning"} =>
            n + o = Outstanding /\ wants = Promised
      BY DEF EmuWireInv, InStep
    <2>3. garbled => "spanned" \in mishaps
      BY DEF EmuWireInv, InStep
    <2> HIDE DEF n, o
    <2> QED BY <1>2, <1>4, <1>8, <2>1, <2>2, <2>3 DEF InStep
  <1>11. EndExplained'
    BY <1>2, <1>4 DEF EmuWireInv, EndExplained
  <1>12. PhaseFits'
    BY <1>1, <1>2 DEF EmuWireInv, PhaseFits, Downloading, Uploading
  <1>13. NoneExtra'
    <2> DEFINE o == IF owesAck THEN 1 ELSE 0
               n == Len(asked) + Len(pipe)
    <2>1. Len(asked') + Len(pipe') + (IF owesAck' THEN 1 ELSE 0) = n + o
      BY <1>2, <1>7
    <2>2. ~Stopped => n + o <= Outstanding
      BY DEF EmuWireInv, NoneExtra
    <2> HIDE DEF n, o
    <2>3. ~Stopped' => Len(asked') + Len(pipe') + (IF owesAck' THEN 1 ELSE 0) <= Outstanding'
      BY <1>2, <1>8, <2>1, <2>2 DEF Stopped
    <2> QED BY <1>2, <2>3 DEF EmuWireInv, NoneExtra, Stopped, Uploading
  <1>14. AnswersFit'
    <2>1. CASE Stopped \/ phase = "text"
      BY <1>2, <2>1 DEF AnswersFit, Stopped, Uploading
    <2>2. CASE ~Stopped /\ phase # "text"
      <3>1. phase = "ascii"
        <4>1. asked[1] = Ascii /\ Ascii \notin Nat
          BY <1>3, <1>5, AnswerMoves DEF AnswersAscii, Ascii
        <4> QED BY <1>5, <2>2, <4>1, CommandAwaited
      <3>2. /\ \A i \in 1..Len(asked) : asked[i] = Ascii
            /\ \A i \in 1..Len(pipe) : pipe[i] = Ascii \/ "refused" \in mishaps
        BY <3>1 DEF EmuWireInv, AnswersFit
      <3>3. \A i \in 1..Len(asked') : asked'[i] = Ascii
        BY <1>6, <3>2
      <3>4. \A i \in 1..Len(pipe') : pipe'[i] = Ascii \/ "refused" \in mishaps'
        <4>1. \A i \in 1..Len(pipe') : i \in 1..Len(pipe) \/ i = Len(pipe')
          BY <1>6
        <4>2. \A i \in 1..Len(pipe) : pipe'[i] = Ascii \/ "refused" \in mishaps'
          BY <1>4, <1>6, <3>2
        <4>3. pipe'[Len(pipe')] = Ascii \/ "refused" \in mishaps'
          BY <1>3, <1>6
        <4> QED BY <4>1, <4>2, <4>3
      <3> QED BY <1>2, <3>1, <3>3, <3>4 DEF AnswersFit, Uploading
    <2> QED BY <2>1, <2>2
  <1>15. ZeroKnown'
    <2>1. Groups(req.list)' = Groups(req.list)
      BY <1>2
    <2> QED BY <1>1, <1>2, <1>4, <2>1 DEF EmuWireInv, ZeroKnown
  <1>16. Delivered'
    <2>1. Bytes(Past)' = Bytes(Past)
      BY <1>1, <1>2, <1>8 DEF Bytes
    <2> QED BY <1>1, <1>2, <1>4, <2>1 DEF EmuWireInv, Delivered, Downloading
  <1>17. TextFits'
    BY <1>1, <1>2, <1>4 DEF EmuWireInv, TextFits
  <1> QED BY <1>9, <1>10, <1>11, <1>12, <1>13, <1>14, <1>15, <1>16,
            <1>17 DEF EmuWireInv

(* A write is acknowledged when all of its bytes have come. *)
LEMMA AnswersWriteWire ==
  ASSUME EmuWireInv, AnswersWrite
  PROVE  EmuWireInv'
  <1>1. Rounds' = Rounds /\ Total' = Total /\ Download' = Download
    BY SameRequest DEF AnswersWrite, task
  <1>2. /\ owesAck /\ wants = 0 /\ owesAck' = FALSE
        /\ UNCHANGED <<phase, req, turn, need, moved, sent, taken, listening, open, torn, asked, wants, garbled>>
    BY DEF AnswersWrite, task, session
  <1>3. PICK m \in {Ascii, Junk} :
          /\ pipe' = Append(pipe, m)
          /\ \/ m = Ascii /\ mishaps' = mishaps
             \/ m = Junk /\ mishaps' = mishaps \cup {"refused"}
    BY DEF AnswersWrite, Replies
  <1>4. mishaps \subseteq mishaps' /\ ("spanned" \in mishaps' => "spanned" \in mishaps)
    BY <1>3
  <1>5. /\ pipe' \in Seq(Nat \cup {Ascii, Junk}) /\ Len(pipe') = Len(pipe) + 1
        /\ Len(pipe) \in Nat /\ pipe'[Len(pipe')] = m
        /\ \A i \in 1..Len(pipe) : pipe'[i] = pipe[i]
    <2>1. pipe \in Seq(Nat \cup {Ascii, Junk}) /\ m \in Nat \cup {Ascii, Junk}
      BY DEF EmuWireInv, TypeOK
    <2> QED BY <1>3, <2>1, Given
  <1>6. Uploading \/ Stopped
    BY <1>2 DEF EmuWireInv, NoneExtra
  <1>7. Outstanding' = Outstanding /\ Promised' = Promised /\ Past' = Past
    BY <1>1, <1>2 DEF Outstanding, Promised, Past
  <1>8. Len(asked) \in Nat
    BY DEF EmuWireInv, TypeOK
  <1>9. ~Stopped => Len(asked) + Len(pipe) + 1 <= Outstanding
    BY <1>2 DEF EmuWireInv, NoneExtra
  <1>10. TypeOK'
    <2>1. mishaps' \subseteq {"zero", "refused", "short", "torn", "spanned", "abandoned",
                            "swallowed"}
      BY <1>3 DEF EmuWireInv, TypeOK
    <2> QED BY <1>2, <1>5, <2>1 DEF EmuWireInv, TypeOK
  <1>11. InStep'
    <2>1. open /\ ~garbled /\ phase \notin {"ended", "spinning"} =>
            Len(asked) + Len(pipe) + 1 = Outstanding /\ wants = Promised
      BY <1>2 DEF EmuWireInv, InStep
    <2>2. Len(asked') + Len(pipe') + (IF owesAck' THEN 1 ELSE 0) = Len(asked) + Len(pipe) + 1
      BY <1>2, <1>5, <1>8
    <2>3. garbled => "spanned" \in mishaps
      BY DEF EmuWireInv, InStep
    <2> QED BY <1>2, <1>4, <1>7, <2>1, <2>2, <2>3 DEF InStep
  <1>12. EndExplained'
    BY <1>2, <1>4 DEF EmuWireInv, EndExplained
  <1>13. PhaseFits'
    BY <1>1, <1>2 DEF EmuWireInv, PhaseFits, Downloading, Uploading
  <1>14. NoneExtra'
    <2>1. Len(asked') + Len(pipe') + (IF owesAck' THEN 1 ELSE 0) = Len(asked) + Len(pipe) + 1
      BY <1>2, <1>5, <1>8
    <2> QED BY <1>2, <1>7, <1>9, <2>1 DEF NoneExtra, Stopped
  <1>15. AnswersFit'
    <2>1. CASE Stopped
      BY <1>2, <2>1 DEF AnswersFit, Stopped, Uploading
    <2>2. CASE Uploading
      <3>1. /\ asked = <<>>
            /\ \A i \in 1..Len(pipe) : pipe[i] # Junk \/ "refused" \in mishaps
        BY <2>2 DEF EmuWireInv, AnswersFit
      <3>2. \A i \in 1..Len(pipe') : i \in 1..Len(pipe) \/ i = Len(pipe')
        BY <1>5
      <3>3. \A i \in 1..Len(pipe) : pipe'[i] # Junk \/ "refused" \in mishaps'
        BY <1>4, <1>5, <3>1
      <3>4. pipe'[Len(pipe')] # Junk \/ "refused" \in mishaps'
        BY <1>3, <1>5 DEF Ascii, Junk
      <3> QED BY <1>2, <2>2, <3>1, <3>2, <3>3, <3>4 DEF AnswersFit, Uploading
    <2> QED BY <1>6, <2>1, <2>2
  <1>16. ZeroKnown'
    BY <1>2, <1>6 DEF ZeroKnown, Stopped, Uploading
  <1>17. Delivered'
    BY <1>2, <1>6 DEF Delivered, Downloading, Stopped, Uploading
  <1>18. TextFits'
    BY <1>2, <1>6 DEF TextFits, Stopped, Uploading
  <1> QED BY <1>10, <1>11, <1>12, <1>13, <1>14, <1>15, <1>16, <1>17,
            <1>18 DEF EmuWireInv

(* The emulator closes: commands are lost, and answers from some point on. *)
LEMMA ClosesWire ==
  ASSUME EmuWireInv, Closes
  PROVE  EmuWireInv'
  <1>1. Rounds' = Rounds /\ Total' = Total /\ Download' = Download
    BY SameRequest DEF Closes, task
  <1>2. /\ open' = FALSE /\ asked' = <<>> /\ wants' = 0 /\ owesAck' = FALSE
        /\ UNCHANGED <<phase, req, turn, need, moved, sent, taken, listening, garbled>>
    BY DEF Closes, task, session
  <1>3. PICK k \in 0..Len(pipe) : pipe' = SubSeq(pipe, 1, k)
    BY DEF Closes
  <1>4. torn' \in BOOLEAN /\ mishaps' \in {mishaps, mishaps \cup {"torn"}}
    BY DEF Closes
  <1>5. mishaps \subseteq mishaps' /\ ("spanned" \in mishaps' => "spanned" \in mishaps)
    BY <1>4
  <1>6. pipe \in Seq(Nat \cup {Ascii, Junk}) /\ k \in Nat /\ k <= Len(pipe) /\ Len(pipe) \in Nat
    BY DEF EmuWireInv, TypeOK
  <1>7. /\ pipe' \in Seq(Nat \cup {Ascii, Junk}) /\ Len(pipe') = k
        /\ \A i \in 1..Len(pipe') : i \in 1..Len(pipe) /\ pipe'[i] = pipe[i]
    BY <1>3, <1>6
  <1>8. <<>> \in Seq(Nat \cup {Ascii}) /\ Len(asked') = 0
    BY <1>2, EmptySeq
  <1>9. Outstanding' = Outstanding /\ Past' = Past
    BY <1>1, <1>2 DEF Outstanding, Past
  <1>10. Outstanding \in Int
    <2>1. Downloading \/ phase = "text" => Rounds \in Nat
      BY RoundTypes DEF EmuWireInv, TextFits
    <2>2. turn \in Nat
      BY DEF EmuWireInv, TypeOK
    <2> QED BY <2>1, <2>2 DEF Outstanding, Downloading
  <1>11. ~Stopped => Len(pipe) <= Outstanding
    <2> DEFINE o == IF owesAck THEN 1 ELSE 0
    <2>1. Len(asked) \in Nat /\ o \in {0, 1}
      BY DEF EmuWireInv, TypeOK
    <2>2. ~Stopped => Len(asked) + Len(pipe) + o <= Outstanding
      BY DEF EmuWireInv, NoneExtra
    <2> HIDE DEF o
    <2> QED BY <1>6, <1>10, <2>1, <2>2
  <1>12. TypeOK'
    BY <1>2, <1>4, <1>7, <1>8 DEF EmuWireInv, TypeOK
  <1>13. InStep'
    BY <1>1, <1>2, <1>3, <1>4, <1>5, <1>6, <1>7, <1>8, <1>9, <1>10, <1>11 DEF
       EmuWireInv, InStep, Outstanding, Promised
  <1>14. EndExplained'
    BY <1>2, <1>4, <1>5 DEF EndExplained
  <1>15. PhaseFits'
    BY <1>1, <1>2 DEF EmuWireInv, PhaseFits, Downloading, Uploading
  <1>16. NoneExtra'
    <2>1. Len(asked') + Len(pipe') + (IF owesAck' THEN 1 ELSE 0) = k
      BY <1>2, <1>6, <1>7, <1>8
    <2>2. ~Stopped => k <= Outstanding
      BY <1>6, <1>10, <1>11
    <2>3. ~(wants' > 0) /\ ~owesAck'
      BY <1>2
    <2> QED BY <1>2, <1>9, <2>1, <2>2, <2>3 DEF NoneExtra, Stopped
  <1>17. AnswersFit'
    <2>1. Groups(req.list)' = Groups(req.list)
      BY <1>2
    <2> QED BY <1>2, <1>5, <1>7, <1>8, <1>9, <2>1 DEF EmuWireInv, AnswersFit,
               Uploading
  <1>18. ZeroKnown'
    <2>1. Groups(req.list)' = Groups(req.list)
      BY <1>2
    <2> QED BY <1>1, <1>2, <1>5, <2>1 DEF EmuWireInv, ZeroKnown
  <1>19. Delivered'
    <2>1. Bytes(Past)' = Bytes(Past)
      BY <1>1, <1>2, <1>9 DEF Bytes
    <2> QED BY <1>1, <1>2, <1>5, <2>1 DEF EmuWireInv, Delivered, Downloading
  <1>20. TextFits'
    BY <1>1, <1>2, <1>5 DEF EmuWireInv, TextFits
  <1> QED BY <1>12, <1>13, <1>14, <1>15, <1>16, <1>17, <1>18, <1>19,
            <1>20 DEF EmuWireInv

-----------------------------------------------------------------------------
(* The theorems. *)

(* Every step preserves the invariant. *)
LEMMA EmuWireStep ==
  ASSUME EmuWireInv, [Next]_vars
  PROVE  EmuWireInv'
  <1>1. CASE UNCHANGED vars
    <2>1. /\ Rounds' = Rounds /\ Total' = Total /\ Past' = Past
          /\ Outstanding' = Outstanding /\ Promised' = Promised
      BY <1>1 DEF vars, task, Rounds, Download, Total, Past, Outstanding, Promised
    <2>2. Bytes(Past)' = Bytes(Past) /\ Groups(req.list)' = Groups(req.list)
      BY <1>1, <2>1 DEF vars, task, Bytes
    <2>3. TypeOK' /\ InStep' /\ EndExplained'
      BY <1>1, <2>1 DEF EmuWireInv, TypeOK, InStep, EndExplained, vars, task,
         session, emulator
    <2>4. PhaseFits' /\ NoneExtra'
      BY <1>1, <2>1 DEF EmuWireInv, PhaseFits, NoneExtra, Stopped, Downloading,
         Uploading, vars, task, emulator
    <2>5. AnswersFit' /\ ZeroKnown'
      BY <1>1, <2>1, <2>2 DEF EmuWireInv, AnswersFit, ZeroKnown, Uploading,
         vars, task, emulator
    <2>6. Delivered'
      BY <1>1, <2>1, <2>2 DEF EmuWireInv, Delivered, Downloading, vars, task,
         session
    <2>7. TextFits'
      BY <1>1, <2>1 DEF EmuWireInv, TextFits, vars, task
    <2> QED BY <2>3, <2>4, <2>5, <2>6, <2>7 DEF EmuWireInv
  <1>2. CASE Take
    BY <1>2, TakePlainWire, TakeDownloadWire, TakeUploadWire DEF Take
  <1>3. CASE DeviceTask
    <2>1. CASE AsciiAnswer
      BY <2>1, AsciiNextWire, AsciiLastWire
    <2>2. CASE ReadHead
      BY <2>2, HeadGivesWire, HeadRefusesWire
    <2>3. CASE Acknowledged
      BY <2>3, AcknowledgedNextWire, AcknowledgedLastWire
    <2> QED BY <1>3, <2>1, <2>2, <2>3, ReadTextWire, ReadDataWire, DownloadEndsWire,
               SpinsWire, EndOfStreamWire, FramesEndWire DEF DeviceTask
  <1>4. CASE WriteFrame
    BY <1>4, WriteFrameWire
  <1>5. CASE SessionForwards \/ SessionAbandons
    BY <1>5, SessionForwardsWire, SessionAbandonsWire
  <1>6. CASE Emulator \/ Closes
    BY <1>6, AnswersReadWire, AnswersAsciiWire, AnswersWriteWire, ClosesWire DEF
       Emulator
  <1>7. CASE Stays
    BY <1>1, <1>7 DEF Stays
  <1> QED BY <1>1, <1>2, <1>3, <1>4, <1>5, <1>6, <1>7 DEF Next

(* A session that still listens when the last answer has been read, and    *)
(* has forwarded all of it, misses bytes: an answer was short.             *)
LEMMA WaitExplained == EmuWireInv => NoMutualWait
  <1> SUFFICES ASSUME EmuWireInv, phase = "closing", listening, taken = sent,
                      "short" \notin mishaps
               PROVE  FALSE
    BY DEF NoMutualWait
  <1>1. /\ req.list \in Lists /\ Rounds = Len(Groups(req.list)) /\ Past = Rounds
        /\ Groups(req.list) \in Seq(Nat)
    BY RoundTypes DEF EmuWireInv, PhaseFits, Downloading, Past
  <1>2. sent = Bytes(Rounds) /\ sent \in Nat
    BY <1>1 DEF EmuWireInv, TypeOK, Delivered, Downloading
  <1>3. Bytes(Rounds) = SumOf(Groups(req.list))
    <2>1. SubSeq(Groups(req.list), 1, Rounds) = Groups(req.list)
      BY <1>1
    <2> QED BY <2>1 DEF Bytes
  <1>4. SumOf(Groups(req.list)) = Total /\ Total \in Nat
    BY <1>1, ListTypes DEF Total
  <1>5. taken < Total
    BY DEF EmuWireInv, Delivered, Downloading
  <1> QED BY <1>2, <1>3, <1>4, <1>5

(* The invariant holds throughout, for any lists of addresses. *)
THEOREM EmuWireInvariant == Spec => []EmuWireInv
  <1>1. Init => EmuWireInv
    BY InitialEmuWire
  <1>2. EmuWireInv /\ [Next]_vars => EmuWireInv'
    BY EmuWireStep
  <1> QED BY <1>1, <1>2, PTL DEF Spec

(* The state of the connection keeps its types. *)
THEOREM EmuWireTypeCorrect == Spec => []TypeOK
  <1>1. EmuWireInv => TypeOK
    BY DEF EmuWireInv
  <1> QED BY <1>1, EmuWireInvariant, PTL

(* Answers and commands, and an upload's bytes and its addresses, pair up  *)
(* by order alone, unless a frame goes beyond its address.                 *)
THEOREM EmuInStepCorrect == Spec => []InStep
  <1>1. EmuWireInv => InStep
    BY DEF EmuWireInv
  <1> QED BY <1>1, EmuWireInvariant, PTL

(* A device is given up for what its emulator does, or for a read of no    *)
(* bytes, never for what a session does.                                   *)
THEOREM EndExplainedCorrect == Spec => []EndExplained
  <1>1. EmuWireInv => EndExplained
    BY DEF EmuWireInv
  <1> QED BY <1>1, EmuWireInvariant, PTL

(* Answers are read as one only where a download of several commands was   *)
(* refused.                                                                *)
THEOREM SwallowExplainedCorrect == Spec => []SwallowExplained
  <1>1. EmuWireInv => SwallowExplained
    BY DEF EmuWireInv, TextFits, SwallowExplained, Download
  <1> QED BY <1>1, EmuWireInvariant, PTL

(* The task and its session wait for each other only after an answer that  *)
(* was short: without one, all bytes of a download arrive.                 *)
THEOREM NoMutualWaitCorrect == Spec => []NoMutualWait
  <1>1. EmuWireInv => NoMutualWait
    BY WaitExplained
  <1> QED BY <1>1, EmuWireInvariant, PTL

=============================================================================
