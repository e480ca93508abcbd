------------------------ MODULE Sd2SnesManagerProofs ------------------------
(***************************************************************************)
(* Proofs about Sd2SnesManager, for any ports, any number of Uuids and any *)
(* capacity of the channel.                                                *)
(***************************************************************************)
EXTENDS Sd2SnesManager, SequenceTheorems, TLAPS

-----------------------------------------------------------------------------
(* The inductive invariant. *)

(* The device of a port was announced there and not taken back, ... *)
HandleLives ==
  \A p \in Ports : handle[p] # NoDevice => port[handle[p]] = p /\ life[handle[p]] = "live"

(* ... and an announced device is the one of its port. *)
LiveIsHandle == \A d \in Devices : life[d] = "live" => port[d] \in Ports /\ handle[port[d]] = d

UsbInv ==
  /\ TypeOK
  /\ FollowsPolls
  /\ HandleLives
  /\ LiveIsHandle

-----------------------------------------------------------------------------
(* What the messages say. *)

(* A message tells of one port that it was added or removed. *)
LEMMA MessageTypes ==
  ASSUME NEW m \in Messages
  PROVE  /\ m.port \in Ports
         /\ \A p \in Ports : m = Plus(p) <=> m.port = p /\ m.kind = "added"
         /\ \A p \in Ports : m = Minus(p) <=> m.port = p /\ m.kind # "added"
  BY DEF Messages, Plus, Minus

(* After one message more the manager will have what that one says, and at *)
(* other ports what it would have had without it.                          *)
LEMMA HasAfterAppend ==
  ASSUME NEW had \in BOOLEAN, NEW q \in Seq(Messages), NEW m \in Messages, NEW p \in Ports
  PROVE  /\ \A i \in 0..Len(q) : HasAfter(had, Append(q, m), p, i) <=> HasAfter(had, q, p, i)
         /\ HasAfter(had, Append(q, m), p, Len(q) + 1)
              <=> IF m.port = p THEN m.kind = "added" ELSE HasAfter(had, q, p, Len(q))
  <1> DEFINE r == Append(q, m)
             n == Len(q)
  <1>1. r[n + 1] = m /\ \A i \in 1..n : r[i] = q[i]
    BY AppendProperties
  <1>2. n \in Nat
    BY LenProperties
  <1>3. m = Plus(p) <=> m.port = p /\ m.kind = "added"
    BY MessageTypes
  <1> HIDE DEF n, r
  <1>4. ASSUME NEW i \in 0..n PROVE HasAfter(had, r, p, i) <=> HasAfter(had, q, p, i)
    <2>1. ASSUME NEW j \in 0..i
          PROVE  /\ (IF j = 0 THEN had ELSE r[j] = Plus(p)) <=> IF j = 0 THEN had ELSE q[j] = Plus(p)
                 /\ (\A k \in (j + 1)..i : r[k].port # p) <=> \A k \in (j + 1)..i : q[k].port # p
      BY <1>1, <1>2
    <2> QED BY <2>1 DEF HasAfter
  <1>5. CASE m.port = p
    <2>1. HasAfter(had, r, p, n + 1) => m.kind = "added"
      <3> SUFFICES ASSUME NEW j \in 0..(n + 1),
                          IF j = 0 THEN had ELSE r[j] = Plus(p),
                          \A k \in (j + 1)..(n + 1) : r[k].port # p
                   PROVE  m.kind = "added"
        BY DEF HasAfter
      <3>1. j = n + 1
        BY <1>1, <1>2, <1>5
      <3> QED BY <1>1, <1>2, <1>3, <3>1
    <2>2. m.kind = "added" => HasAfter(had, r, p, n + 1)
      BY <1>1, <1>2, <1>3, <1>5 DEF HasAfter
    <2> QED BY <1>4, <1>5, <2>1, <2>2 DEF n, r
  <1>6. CASE m.port # p
    <2>1. HasAfter(had, r, p, n + 1) => HasAfter(had, r, p, n)
      <3> SUFFICES ASSUME NEW j \in 0..(n + 1),
                          IF j = 0 THEN had ELSE r[j] = Plus(p),
                          \A k \in (j + 1)..(n + 1) : r[k].port # p
                   PROVE  HasAfter(had, r, p, n)
        BY DEF HasAfter
      <3>1. j \in 0..n
        BY <1>1, <1>2, <1>3, <1>6
      <3> QED BY <1>2, <3>1 DEF HasAfter
    <2>2. HasAfter(had, r, p, n) => HasAfter(had, r, p, n + 1)
      <3> SUFFICES ASSUME NEW j \in 0..n,
                          IF j = 0 THEN had ELSE r[j] = Plus(p),
                          \A k \in (j + 1)..n : r[k].port # p
                   PROVE  HasAfter(had, r, p, n + 1)
        BY DEF HasAfter
      <3>1. j \in 0..(n + 1) /\ \A k \in (j + 1)..(n + 1) : r[k].port # p
        BY <1>1, <1>2, <1>6
      <3> QED BY <3>1 DEF HasAfter
    <2>3. n \in 0..n
      BY <1>2
    <2> QED BY <1>4, <1>6, <2>1, <2>2, <2>3 DEF n, r
  <1> QED BY <1>5, <1>6

(* Once the manager has done what the first message says, the others tell  *)
(* it what they did before.                                                *)
LEMMA HasAfterTail ==
  ASSUME NEW had \in BOOLEAN, NEW q \in Seq(Messages), q # <<>>, NEW p \in Ports,
         NEW has \in BOOLEAN,
         has <=> IF q[1].port = p THEN q[1].kind = "added" ELSE had,
         NEW i \in 0..Len(Tail(q))
  PROVE  HasAfter(has, Tail(q), p, i) <=> HasAfter(had, q, p, i + 1)
  <1> DEFINE t == Tail(q)
             n == Len(t)
  <1>1. n = Len(q) - 1 /\ \A k \in 1..n : t[k] = q[k + 1]
    BY HeadTailProperties
  <1>2. Len(q) \in Nat \ {0} /\ q[1] \in Messages
    BY EmptySeq, ElementOfSeq
  <1>3. q[1] = Plus(p) <=> q[1].port = p /\ q[1].kind = "added"
    BY <1>2, MessageTypes
  <1>4. i \in 0..n
    OBVIOUS
  <1> HIDE DEF t, n
  <1>5. ASSUME HasAfter(has, t, p, i) PROVE HasAfter(had, q, p, i + 1)
    <2>1. PICK j \in 0..i :
            /\ IF j = 0 THEN has ELSE t[j] = Plus(p)
            /\ \A k \in (j + 1)..i : t[k].port # p
      BY <1>5 DEF HasAfter
    <2>2. \A k \in (j + 2)..(i + 1) : q[k].port # p
      <3> TAKE k \in (j + 2)..(i + 1)
      <3>1. k - 1 \in (j + 1)..i /\ k - 1 \in 1..n
        BY <1>1, <1>2, <1>4, <2>1
      <3>2. t[k - 1] = q[k]
        BY <1>1, <1>2, <3>1
      <3> QED BY <2>1, <3>1, <3>2
    <2>3. CASE j # 0
      <3>1. j + 1 \in 0..(i + 1) /\ j + 1 # 0 /\ q[j + 1] = Plus(p)
        BY <1>1, <1>2, <1>4, <2>1, <2>3
      <3>2. \A k \in ((j + 1) + 1)..(i + 1) : q[k].port # p
        BY <2>2
      <3> QED BY <3>1, <3>2 DEF HasAfter
    <2>4. CASE j = 0 /\ q[1].port = p
      <3>1. q[1] = Plus(p) /\ 1 \in 0..(i + 1)
        BY <1>3, <1>4, <2>1, <2>4
      <3>2. \A k \in (1 + 1)..(i + 1) : q[k].port # p
        BY <2>2, <2>4
      <3> QED BY <3>1, <3>2 DEF HasAfter
    <2>5. CASE j = 0 /\ q[1].port # p
      <3>1. had /\ 0 \in 0..(i + 1)
        BY <1>4, <2>1, <2>5
      <3>2. \A k \in (0 + 1)..(i + 1) : q[k].port # p
        BY <2>2, <2>5
      <3> QED BY <3>1, <3>2 DEF HasAfter
    <2> QED BY <2>3, <2>4, <2>5
  <1>6. ASSUME HasAfter(had, q, p, i + 1) PROVE HasAfter(has, t, p, i)
    <2>1. PICK j \in 0..(i + 1) :
            /\ IF j = 0 THEN had ELSE q[j] = Plus(p)
            /\ \A k \in (j + 1)..(i + 1) : q[k].port # p
      BY <1>6 DEF HasAfter
    <2> DEFINE h == IF j <= 1 THEN 0 ELSE j - 1
    <2>2. h \in 0..i
      BY <1>4, <2>1
    <2>3. \A k \in (h + 1)..i : t[k].port # p
      <3> TAKE k \in (h + 1)..i
      <3>1. k \in 1..n /\ k + 1 \in (j + 1)..(i + 1)
        BY <1>1, <1>2, <1>4, <2>1, <2>2
      <3> QED BY <1>1, <2>1, <3>1
    <2>4. IF h = 0 THEN has ELSE t[h] = Plus(p)
      <3>1. CASE j = 0
        <4>1. q[1].port # p
          BY <1>4, <2>1, <3>1
        <4> QED BY <2>1, <3>1, <4>1
      <3>2. CASE j = 1
        BY <1>3, <2>1, <3>2
      <3>3. CASE j > 1
        <4>1. h \in 1..n /\ h # 0 /\ h + 1 = j
          BY <1>1, <1>2, <1>4, <2>1, <2>2, <3>3
        <4>2. t[h] = q[j]
          BY <1>1, <4>1
        <4> QED BY <2>1, <3>3, <4>1, <4>2
      <3> QED BY <2>1, <3>1, <3>2, <3>3
    <2> HIDE DEF h
    <2> QED BY <2>2, <2>3, <2>4 DEF HasAfter
  <1> QED BY <1>5, <1>6 DEF t

-----------------------------------------------------------------------------
(* Steps. *)

(* A message is sent: the manager will come to know it, and it tells what  *)
(* the manager would not have thought.                                     *)
LEMMA TellKeeps ==
  ASSUME UsbInv, NEW p \in Ports, NEW m \in {Plus(p), Minus(p)}, Tell(m),
         running => (m = Plus(p) <=> ~Expects(p, Len(infoQ))),
         current' = current, added' \subseteq added, removed' \subseteq removed,
         (current' \ added') \cup removed'
           = IF m = Plus(p) THEN ((current \ added) \cup removed) \cup {p}
                            ELSE ((current \ added) \cup removed) \ {p},
         UNCHANGED <<running, handle>>
  PROVE  infoQ' \in Seq(Messages) /\ FollowsPolls'
  <1> USE DEF UsbInv
  <1>1. infoQ \in Seq(Messages) /\ m \in Messages /\ m.port = p /\ (m = Plus(p) <=> m.kind = "added")
    BY MessageTypes DEF TypeOK, Messages, Plus, Minus
  <1>2. added' \subseteq current' /\ removed' \cap current' = {}
    BY DEF FollowsPolls
  <1>3. CASE ~running
    BY <1>1, <1>2, <1>3 DEF Tell, FollowsPolls
  <1>4. CASE running
    <2>1. infoQ' = Append(infoQ, m)
      BY <1>4 DEF Tell
    <2>2. /\ infoQ' \in Seq(Messages) /\ Len(infoQ') = Len(infoQ) + 1 /\ Len(infoQ) \in Nat
          /\ infoQ'[Len(infoQ) + 1] = m /\ \A i \in 1..Len(infoQ) : infoQ'[i] = infoQ[i]
      BY <1>1, <2>1, AppendProperties, LenProperties
    <2>3. ASSUME NEW q \in Ports
          PROVE  /\ \A i \in 0..Len(infoQ) : Expects(q, i)' <=> Expects(q, i)
                 /\ HasAfter(handle[q] # NoDevice, infoQ', q, Len(infoQ) + 1)
                      <=> IF q = p THEN m.kind = "added" ELSE Expects(q, Len(infoQ))
      BY <1>1, <2>1, HasAfterAppend DEF Expects
    <2> SUFFICES ASSUME NEW q \in Ports
                 PROVE  /\ Expects(q, Len(infoQ))' <=> q \in (current' \ added') \cup removed'
                        /\ \A i \in 1..Len(infoQ') :
                             infoQ'[i].port = q
                               => (infoQ'[i].kind = "added"
                                     <=> ~HasAfter(handle[q] # NoDevice, infoQ', q, i - 1))
      BY <1>2, <2>2 DEF FollowsPolls, Expects
    <2>4. Expects(q, Len(infoQ))' <=> q \in (current' \ added') \cup removed'
      <3>1. Expects(q, Len(infoQ)) <=> q \in (current \ added) \cup removed
        BY <1>4 DEF FollowsPolls
      <3>2. Expects(q, Len(infoQ))' <=> HasAfter(handle[q] # NoDevice, infoQ', q, Len(infoQ) + 1)
        BY <2>2 DEF Expects
      <3> QED BY <1>1, <2>3, <3>1, <3>2
    <2>5. ASSUME NEW i \in 1..Len(infoQ'), infoQ'[i].port = q
          PROVE  infoQ'[i].kind = "added" <=> ~HasAfter(handle[q] # NoDevice, infoQ', q, i - 1)
      <3>1. i - 1 \in 0..Len(infoQ)
        BY <2>2
      <3>2. HasAfter(handle[q] # NoDevice, infoQ', q, i - 1) <=> Expects(q, i - 1)
        BY <2>1, <3>1, <1>1, HasAfterAppend DEF Expects
      <3>3. CASE i = Len(infoQ) + 1
        <4>1. infoQ'[i] = m /\ q = p /\ i - 1 = Len(infoQ)
          BY <1>1, <2>2, <2>5, <3>3
        <4> QED BY <1>1, <1>4, <3>2, <4>1
      <3>4. CASE i \in 1..Len(infoQ)
        <4>1. infoQ'[i] = infoQ[i]
          BY <2>2, <3>4
        <4> QED BY <1>4, <2>5, <3>2, <3>4, <4>1 DEF FollowsPolls
      <3> QED BY <2>2, <3>3, <3>4
    <2> QED BY <2>4, <2>5
  <1> QED BY <1>3, <1>4

(* A message is taken, and the manager does what it says. *)
LEMMA ReceivedKeeps ==
  ASSUME UsbInv, NEW p \in Ports, NEW m \in {Plus(p), Minus(p)}, Received(m),
         handle' \in [Ports -> Devices \cup {NoDevice}],
         \A q \in Ports : handle'[q] # NoDevice <=> IF q = p THEN m = Plus(p) ELSE handle[q] # NoDevice,
         UNCHANGED <<enumVars, running>>
  PROVE  infoQ' \in Seq(Messages) /\ FollowsPolls'
  <1> USE DEF UsbInv
  <1>1. infoQ \in Seq(Messages) /\ m.port = p /\ (m = Plus(p) <=> m.kind = "added")
    BY DEF TypeOK, Plus, Minus
  <1>2. /\ running /\ infoQ # <<>> /\ infoQ[1] = m /\ infoQ' = Tail(infoQ)
    BY DEF Received
  <1>3. /\ infoQ' \in Seq(Messages) /\ Len(infoQ') = Len(infoQ) - 1 /\ Len(infoQ) \in Nat \ {0}
        /\ \A i \in 1..Len(infoQ') : infoQ'[i] = infoQ[i + 1]
    BY <1>1, <1>2, HeadTailProperties, EmptySeq
  <1>4. ASSUME NEW q \in Ports, NEW i \in 0..Len(infoQ')
        PROVE  HasAfter(handle'[q] # NoDevice, infoQ', q, i) <=> Expects(q, i + 1)
    <2>1. handle'[q] # NoDevice <=> IF infoQ[1].port = q THEN infoQ[1].kind = "added"
                                                         ELSE handle[q] # NoDevice
      BY <1>1, <1>2
    <2>2. HasAfter(handle'[q] # NoDevice, Tail(infoQ), q, i)
            <=> HasAfter(handle[q] # NoDevice, infoQ, q, i + 1)
      BY <1>1, <1>2, <2>1, HasAfterTail
    <2> QED BY <1>2, <2>2 DEF Expects
  <1> SUFFICES ASSUME NEW q \in Ports
               PROVE  /\ Expects(q, Len(infoQ))' <=> q \in (current \ added) \cup removed
                      /\ \A i \in 1..Len(infoQ') :
                           infoQ'[i].port = q
                             => (infoQ'[i].kind = "added"
                                   <=> ~HasAfter(handle'[q] # NoDevice, infoQ', q, i - 1))
    BY <1>2, <1>3 DEF FollowsPolls, Expects, enumVars
  <1>5. Expects(q, Len(infoQ))' <=> q \in (current \ added) \cup removed
    <2>1. Len(infoQ') \in 0..Len(infoQ') /\ Len(infoQ') + 1 = Len(infoQ)
      BY <1>3
    <2>2. Expects(q, Len(infoQ))' <=> Expects(q, Len(infoQ))
      BY <1>4, <2>1 DEF Expects
    <2> QED BY <1>2, <2>2 DEF FollowsPolls
  <1>6. ASSUME NEW i \in 1..Len(infoQ'), infoQ'[i].port = q
        PROVE  infoQ'[i].kind = "added" <=> ~HasAfter(handle'[q] # NoDevice, infoQ', q, i - 1)
    <2>1. i - 1 \in 0..Len(infoQ') /\ (i - 1) + 1 = i /\ i + 1 \in 1..Len(infoQ) /\ (i + 1) - 1 = i
      BY <1>3
    <2>2. HasAfter(handle'[q] # NoDevice, infoQ', q, i - 1) <=> Expects(q, i)
      BY <1>4, <2>1
    <2>3. infoQ'[i] = infoQ[i + 1]
      BY <1>3
    <2>4. infoQ[i + 1].kind = "added" <=> ~Expects(q, i)
      BY <1>2, <1>6, <2>1, <2>3 DEF FollowsPolls
    <2> QED BY <2>2, <2>3, <2>4
  <1> QED BY <1>5, <1>6

(* The first message says what the manager does not have yet. *)
LEMMA FirstIsNews ==
  ASSUME UsbInv, NEW p \in Ports, NEW m \in {Plus(p), Minus(p)}, Received(m)
  PROVE  m = Plus(p) <=> handle[p] = NoDevice
  <1>1. running /\ infoQ # <<>> /\ infoQ[1] = m /\ 1 \in 1..Len(infoQ)
    BY EmptySeq DEF Received, UsbInv, TypeOK
  <1>2. m.port = p /\ (m = Plus(p) <=> m.kind = "added")
    BY DEF Plus, Minus
  <1>3. m.kind = "added" <=> ~Expects(p, 0)
    BY <1>1, <1>2 DEF UsbInv, FollowsPolls
  <1>4. Expects(p, 0) <=> handle[p] # NoDevice
    BY DEF Expects, HasAfter
  <1> QED BY <1>2, <1>3, <1>4

(* Every step of the port enumerator, its panic, and the steps of the ports. *)
LEMMA EnumeratorKeeps ==
  ASSUME UsbInv, Enumerator \/ PollPanics \/ \E p \in Ports : PortChanges(p)
  PROVE  UsbInv'
  <1> USE DEF UsbInv
  <1>1. UNCHANGED <<running, handle, life, port>>
    BY DEF Enumerator, Poll, PollPanics, TellRemoved, TellAdded, PortChanges, devVars
  <1>2. HandleLives' /\ LiveIsHandle'
    BY <1>1 DEF HandleLives, LiveIsHandle
  <1>3. ASSUME NEW p \in Ports, PortChanges(p) PROVE UsbInv'
    <2>1. UNCHANGED <<current, removed, added, polling, infoQ>>
      BY <1>3 DEF PortChanges, enumVars
    <2>2. FollowsPolls'
      BY <1>1, <2>1 DEF FollowsPolls, Expects
    <2>3. TypeOK'
      BY <1>1, <1>3, <2>1, Sd2SnesAssumption DEF PortChanges, TypeOK
    <2> QED BY <1>2, <2>2, <2>3
  <1>4. CASE Poll
    <2>1. /\ removed = {} /\ added = {} /\ removed' = current \ Available
          /\ added' = Available \ current /\ current' = Available
          /\ UNCHANGED <<polling, usb, infoQ, severed>> /\ Available \subseteq Ports
      BY <1>4 DEF Poll, Available, devVars
    <2>2. (current' \ added') \cup removed' = (current \ added) \cup removed
      BY <2>1
    <2>3. FollowsPolls'
      BY <1>1, <2>1, <2>2 DEF FollowsPolls, Expects
    <2>4. TypeOK'
      BY <1>1, <2>1 DEF TypeOK
    <2> QED BY <1>2, <2>3, <2>4
  <1>5. ASSUME NEW p \in Ports, TellRemoved(p) PROVE UsbInv'
    <2>1. /\ p \in removed /\ removed' = removed \ {p} /\ Tell(Minus(p))
          /\ UNCHANGED <<polling, usb, current, added, severed>>
      BY <1>5 DEF TellRemoved
    <2>2. p \notin current /\ Minus(p) # Plus(p)
      BY <2>1 DEF FollowsPolls, Plus, Minus
    <2>3. running => Expects(p, Len(infoQ))
      BY <2>1 DEF FollowsPolls
    <2>4. (current' \ added') \cup removed' = ((current \ added) \cup removed) \ {p}
      BY <2>1, <2>2
    <2>5. infoQ' \in Seq(Messages) /\ FollowsPolls'
      BY <1>1, <2>1, <2>2, <2>3, <2>4, TellKeeps
    <2> QED BY <1>1, <1>2, <2>1, <2>5 DEF TypeOK
  <1>6. ASSUME NEW p \in Ports, TellAdded(p) PROVE UsbInv'
    <2>1. /\ p \in added /\ removed = {} /\ added' = added \ {p} /\ Tell(Plus(p))
          /\ UNCHANGED <<polling, usb, current, removed, severed>>
      BY <1>6 DEF TellAdded
    <2>2. p \in current
      BY <2>1 DEF FollowsPolls
    <2>3. running => ~Expects(p, Len(infoQ))
      BY <2>1 DEF FollowsPolls
    <2>4. (current' \ added') \cup removed' = ((current \ added) \cup removed) \cup {p}
      BY <2>1, <2>2
    <2>5. infoQ' \in Seq(Messages) /\ FollowsPolls'
      BY <1>1, <2>1, <2>3, <2>4, TellKeeps
    <2> QED BY <1>1, <1>2, <2>1, <2>5 DEF TypeOK
  <1>7. CASE PollPanics
    <2>1. /\ UNCHANGED <<current, removed, added, infoQ, usb, severed>>
          /\ polling' = FALSE
      BY <1>7 DEF PollPanics
    <2>2. FollowsPolls'
      BY <1>1, <2>1 DEF FollowsPolls, Expects
    <2>3. TypeOK'
      BY <1>1, <2>1 DEF TypeOK
    <2> QED BY <1>2, <2>2, <2>3
  <1> QED BY <1>3, <1>4, <1>5, <1>6, <1>7 DEF Enumerator

(* Every step of the manager. *)
LEMMA ManagerKeeps ==
  ASSUME UsbInv, NEW p \in Ports, PortAdded(p) \/ OpenPanics(p) \/ PortRemoved(p)
  PROVE  UsbInv'
  <1> USE DEF UsbInv
  <1>1. CASE PortAdded(p)
    <2>1. PICK d \in Devices :
            /\ life[d] = "unborn"
            /\ life' = [life EXCEPT ![d] = "live"]
            /\ port' = [port EXCEPT ![d] = p]
            /\ handle' = [handle EXCEPT ![p] = d]
      BY <1>1 DEF PortAdded
    <2>2. Received(Plus(p)) /\ UNCHANGED <<usb, enumVars, running, severed>>
      BY <1>1 DEF PortAdded
    <2>3. handle[p] = NoDevice
      BY <2>2, FirstIsNews
    <2>4. infoQ' \in Seq(Messages) /\ FollowsPolls'
      <3>1. handle' \in [Ports -> Devices \cup {NoDevice}]
        BY <2>1 DEF TypeOK
      <3>2. \A q \in Ports : handle'[q] # NoDevice <=> IF q = p THEN TRUE ELSE handle[q] # NoDevice
        BY <2>1, Sd2SnesAssumption DEF TypeOK
      <3> QED BY <2>2, <3>1, <3>2, ReceivedKeeps
    <2>5. TypeOK'
      BY <2>1, <2>2, <2>4 DEF TypeOK, Lives, enumVars
    <2>6. \A q \in Ports : handle[q] # d
      BY <2>1, Sd2SnesAssumption DEF HandleLives
    <2>7. HandleLives'
      BY <2>1, <2>6 DEF HandleLives, TypeOK
    <2>8. LiveIsHandle'
      BY <2>1, <2>3, Sd2SnesAssumption DEF LiveIsHandle, TypeOK
    <2> QED BY <2>4, <2>5, <2>7, <2>8
  <1>2. CASE OpenPanics(p)
    <2>1. /\ Received(Plus(p)) /\ running' = FALSE
          /\ UNCHANGED <<polling, usb, current, removed, added, handle, life, port, severed>>
      BY <1>2 DEF OpenPanics, enumVars, devVars
    <2>2. infoQ' \in Seq(Messages)
      BY <2>1, HeadTailProperties DEF Received, TypeOK
    <2>3. TypeOK'
      BY <2>1, <2>2 DEF TypeOK
    <2> QED BY <2>1, <2>3 DEF FollowsPolls, HandleLives, LiveIsHandle
  <1>3. CASE PortRemoved(p)
    <2>1. /\ Received(Minus(p)) /\ life' = [life EXCEPT ![handle[p]] = "gone"]
          /\ handle' = [handle EXCEPT ![p] = NoDevice]
          /\ UNCHANGED <<usb, enumVars, running, port, severed>>
      BY <1>3 DEF PortRemoved
    <2>2. Minus(p) # Plus(p)
      BY DEF Plus, Minus
    <2>3. handle[p] # NoDevice /\ handle[p] \in Devices
      BY <2>1, <2>2, FirstIsNews DEF TypeOK
    <2>4. infoQ' \in Seq(Messages) /\ FollowsPolls'
      <3>1. handle' \in [Ports -> Devices \cup {NoDevice}]
        BY <2>1 DEF TypeOK
      <3>2. \A q \in Ports : handle'[q] # NoDevice <=> IF q = p THEN FALSE ELSE handle[q] # NoDevice
        BY <2>1 DEF TypeOK
      <3> QED BY <2>1, <2>2, <3>1, <3>2, ReceivedKeeps
    <2>5. TypeOK'
      BY <2>1, <2>4 DEF TypeOK, Lives, enumVars
    <2>6. HandleLives'
      BY <2>1, <2>3 DEF HandleLives, TypeOK
    <2>7. LiveIsHandle'
      BY <2>1, <2>3 DEF LiveIsHandle, TypeOK
    <2> QED BY <2>4, <2>5, <2>6, <2>7
  <1> QED BY <1>1, <1>2, <1>3

-----------------------------------------------------------------------------
(* The theorems. *)

(* UsbInv holds in every reachable state. *)
THEOREM UsbInvariant == UsbSpec => []UsbInv
  <1>1. UsbInit => UsbInv
    <2> SUFFICES ASSUME UsbInit PROVE UsbInv
      OBVIOUS
    <2>1. infoQ \in Seq(Messages) /\ Len(infoQ) = 0
      BY EmptySeq DEF UsbInit
    <2>2. TypeOK
      BY <2>1 DEF UsbInit, Init, TypeOK, Lives
    <2>3. FollowsPolls
      BY <2>1 DEF UsbInit, FollowsPolls, Expects, HasAfter
    <2> QED BY <2>2, <2>3 DEF UsbInit, Init, UsbInv, HandleLives, LiveIsHandle
  <1>2. UsbInv /\ [UsbNext]_vars => UsbInv'
    <2>1. ASSUME UsbInv, UNCHANGED vars PROVE UsbInv'
      BY <2>1
      DEF vars, enumVars, devVars, UsbInv, TypeOK, FollowsPolls, Expects, HandleLives, LiveIsHandle
    <2> QED BY <2>1, EnumeratorKeeps, ManagerKeeps DEF UsbNext, ManagerTask
  <1> QED BY <1>1, <1>2, PTL DEF UsbSpec

(* The state stays typed. *)
THEOREM UsbTypeCorrect == UsbSpec => []TypeOK
  BY UsbInvariant, PTL DEF UsbInv

(* The manager hears what the polls found and nothing twice, however the   *)
(* full channel delays a poll (sd2snes.rs, current_ports and port_tx).     *)
THEOREM FollowsPollsCorrect == UsbSpec => []FollowsPolls
  BY UsbInvariant, PTL DEF UsbInv

(* devices[&port_name] (sd2snes.rs, PortRemoved) finds a device: only the  *)
(* open of a port can take the manager.                                    *)
THEOREM RemovalFindsDevice ==
  UsbSpec => [][\A p \in Ports : PortRemoved(p) => handle[p] \in Devices /\ life[handle[p]] = "live"]_vars
  <1>1. ASSUME UsbInv, NEW p \in Ports, PortRemoved(p)
        PROVE  handle[p] \in Devices /\ life[handle[p]] = "live"
    <2>1. Received(Minus(p)) /\ Minus(p) # Plus(p)
      BY <1>1 DEF PortRemoved, Plus, Minus
    <2>2. handle[p] # NoDevice
      BY <1>1, <2>1, FirstIsNews
    <2> QED BY <1>1, <2>2 DEF UsbInv, TypeOK, HandleLives
  <1>2. UsbInv => \A p \in Ports : PortRemoved(p) => handle[p] \in Devices /\ life[handle[p]] = "live"
    BY <1>1
  <1> QED BY <1>2, UsbInvariant, PTL DEF UsbSpec

(* Sd2SnesManager implements DeviceFeed: it announces a device on a port   *)
(* only after it has taken back the one before.                            *)
THEOREM UsbFeedCorrect == UsbSpec => FeedSpec
  <1>1. UsbInit => Init
    BY DEF UsbInit
  <1>2. UsbInv /\ [UsbNext]_vars => [Next]_<<life, port>>
    <2> SUFFICES ASSUME UsbInv, [UsbNext]_vars PROVE [Next]_<<life, port>>
      OBVIOUS
    <2> USE DEF UsbInv
    <2>1. ASSUME NEW p \in Ports, PortAdded(p) PROVE [Next]_<<life, port>>
      <3>1. handle[p] = NoDevice
        BY <2>1, FirstIsNews DEF PortAdded
      <3>2. PICK d \in Devices :
              /\ life[d] = "unborn"
              /\ life' = [life EXCEPT ![d] = "live"]
              /\ port' = [port EXCEPT ![d] = p]
        BY <2>1 DEF PortAdded
      <3>3. Vacant(p)
        BY <3>1, Sd2SnesAssumption DEF Vacant, LiveIsHandle
      <3>4. Appear(d, p)
        BY <3>2, <3>3 DEF Appear
      <3> QED BY <3>4 DEF Next
    <2>2. ASSUME NEW p \in Ports, PortRemoved(p) PROVE [Next]_<<life, port>>
      <3>1. Received(Minus(p)) /\ Minus(p) # Plus(p)
        BY <2>2 DEF PortRemoved, Plus, Minus
      <3>2. handle[p] # NoDevice
        BY <3>1, FirstIsNews
      <3>3. handle[p] \in Devices /\ life[handle[p]] = "live"
        BY <3>2 DEF TypeOK, HandleLives
      <3>4. Vanish(handle[p])
        BY <2>2, <3>3 DEF PortRemoved, Vanish
      <3> QED BY <3>3, <3>4 DEF Next
    <2>3. CASE \/ Enumerator \/ PollPanics \/ UNCHANGED vars
               \/ \E p \in Ports : PortChanges(p) \/ OpenPanics(p)
      <3>1. UNCHANGED <<life, port>>
        BY <2>3
        DEF Enumerator, Poll, PollPanics, TellRemoved, TellAdded, PortChanges, OpenPanics, vars, devVars
      <3> QED BY <3>1
    <2> QED BY <2>1, <2>2, <2>3 DEF UsbNext, ManagerTask
  <1> QED BY <1>1, <1>2, UsbInvariant, PTL DEF UsbSpec, FeedSpec, Spec
=============================================================================
