----------------------- MODULE RetroarchManagerProofs -----------------------
(***************************************************************************)
(* Proofs about RetroarchManager, for any number of Uuids and any          *)
(* capacities of its two channels.                                         *)
(***************************************************************************)
EXTENDS RetroarchManager, SequenceTheorems, TLAPS

-----------------------------------------------------------------------------
(* The inductive invariant. *)

(* The next message will be the manager's last: it names a device that a   *)
(* report has taken away.                                                  *)
Doomed == handle = NoDevice /\ infoQ # <<>> /\ infoQ[1] = "removed"

(* What the manager has and what it is told alternate: an added finds no   *)
(* device, and a removed finds one.                                        *)
Alternates ==
  /\ infoQ # <<>> => (infoQ[1] = "added" <=> handle = NoDevice)
  /\ \A i \in 1..(Len(infoQ) - 1) : infoQ[i] # infoQ[i + 1]

(* The enumerator's idea is what the manager will come to, unless it is on *)
(* its way to be corrected; then nothing else is under way.                *)
InAgreement ==
  IF enumQ = 0
  THEN known <=> IF infoQ = <<>> THEN handle # NoDevice
                                 ELSE infoQ[Len(infoQ)] = "added"
  ELSE enumQ = 1 /\ known /\ handle = NoDevice /\ infoQ = <<>>

(* A registered device is the one that has the url. *)
OneLive ==
  /\ \A d \in Devices : life[d] = "live" <=> d = handle
  /\ \A d \in Devices : life[d] # "unborn" => port[d] = Url

(* Only a device that was given up is closing. *)
HandleServes == handle # NoDevice => task[handle] # "closing"

(* The enumerator asks for what it does not know. *)
AsksWhatItMust ==
  /\ step = "connect" => ~known
  /\ step = "check" => known

ManagerInv ==
  /\ TypeOK
  /\ OneLive
  /\ running => Doomed \/ (Alternates /\ InAgreement)
  /\ HandleServes
  /\ AsksWhatItMust
  /\ KnownIsServed
  /\ EndedIsReported
  /\ NoStandoff

-----------------------------------------------------------------------------
(* Steps. *)

(* A message is sent, or the manager is gone. *)
LEMMA TellTypes ==
  ASSUME TypeOK, NEW m \in {"added", "removed"}, Tell(m)
  PROVE  /\ infoQ' \in Seq({"added", "removed"})
         /\ running => /\ Len(infoQ') = Len(infoQ) + 1
                       /\ Len(infoQ) \in Nat
                       /\ infoQ' # <<>>
                       /\ \A i \in 1..Len(infoQ) : infoQ'[i] = infoQ[i]
                       /\ infoQ'[Len(infoQ')] = m
                       /\ infoQ = <<>> => Len(infoQ) = 0
                       /\ infoQ # <<>> => Len(infoQ) > 0
  <1>1. infoQ \in Seq({"added", "removed"})
    BY DEF TypeOK
  <1>2. Len(infoQ) \in Nat /\ (infoQ = <<>> => Len(infoQ) = 0) /\ (infoQ # <<>> => Len(infoQ) > 0)
    BY <1>1, LenProperties, EmptySeq
  <1>3. CASE running /\ infoQ' = Append(infoQ, m)
    <2>1. /\ infoQ' \in Seq({"added", "removed"})
          /\ infoQ' # <<>>
          /\ Len(infoQ') = Len(infoQ) + 1
          /\ infoQ'[Len(infoQ) + 1] = m
          /\ \A i \in 1..Len(infoQ) : infoQ'[i] = infoQ[i]
      BY <1>1, <1>3, AppendProperties
    <2> QED BY <1>2, <2>1
  <1> QED BY <1>1, <1>2, <1>3 DEF Tell

(* Told what it takes the manager not to know, the manager will agree. *)
LEMMA TellAgrees ==
  ASSUME TypeOK, running => Doomed \/ (Alternates /\ InAgreement),
         NEW m \in {"added", "removed"}, Tell(m),
         m = "added" <=> ~known, known' <=> m = "added",
         UNCHANGED <<handle, enumQ, running>>, running
  PROVE  Doomed' \/ (Alternates' /\ InAgreement')
  <1>1. /\ Len(infoQ) \in Nat
        /\ infoQ = <<>> => Len(infoQ) = 0
        /\ infoQ # <<>> => Len(infoQ) > 0
        /\ Len(infoQ') = Len(infoQ) + 1
        /\ infoQ' # <<>>
        /\ \A i \in 1..Len(infoQ) : infoQ'[i] = infoQ[i]
        /\ infoQ'[Len(infoQ) + 1] = m
    BY TellTypes
  <1>2. CASE Doomed
    BY <1>1, <1>2 DEF Doomed
  <1>3. CASE Alternates /\ InAgreement /\ enumQ # 0
    <2>1. m = "removed" /\ handle = NoDevice /\ infoQ = <<>>
      BY <1>3 DEF InAgreement
    <2> QED BY <1>1, <2>1 DEF Doomed
  <1>4. CASE Alternates /\ InAgreement /\ enumQ = 0
    <2>1. enumQ = 0 /\ (known <=> IF infoQ = <<>> THEN handle # NoDevice
                                                  ELSE infoQ[Len(infoQ)] = "added")
      BY <1>4 DEF InAgreement
    <2>2. CASE infoQ = <<>>
      <3>1. Len(infoQ') = 1 /\ infoQ'[1] = m
        BY <1>1, <2>2
      <3>2. Alternates'
        BY <1>1, <2>1, <2>2, <3>1 DEF Alternates
      <3>3. infoQ'[Len(infoQ')] = m /\ enumQ' = 0
        BY <2>1, <3>1
      <3> QED BY <1>1, <3>2, <3>3 DEF InAgreement
    <2>3. CASE infoQ # <<>>
      <3>1. infoQ'[1] = infoQ[1] /\ infoQ'[Len(infoQ)] # infoQ'[Len(infoQ) + 1]
        BY <1>1, <2>1, <2>3
      <3>2. \A i \in 1..(Len(infoQ') - 1) : infoQ'[i] # infoQ'[i + 1]
        <4> TAKE i \in 1..(Len(infoQ') - 1)
        <4>1. CASE i = Len(infoQ)
          BY <3>1, <4>1
        <4>2. CASE i \in 1..(Len(infoQ) - 1)
          <5>1. infoQ[i] # infoQ[i + 1]
            BY <1>4, <4>2 DEF Alternates
          <5> QED BY <1>1, <4>2, <5>1
        <4> QED BY <1>1, <4>1, <4>2
      <3> QED BY <1>1, <1>4, <2>1, <2>3, <3>1, <3>2 DEF Alternates, InAgreement
    <2> QED BY <2>2, <2>3
  <1> QED BY <1>2, <1>3, <1>4

(* A message is taken. *)
LEMMA ReceivedTypes ==
  ASSUME TypeOK, NEW m, Received(m)
  PROVE  /\ infoQ' \in Seq({"added", "removed"})
         /\ Len(infoQ) \in Nat /\ Len(infoQ) > 0
         /\ infoQ # <<>> /\ infoQ[1] = m
         /\ Len(infoQ') = Len(infoQ) - 1
         /\ \A i \in 1..Len(infoQ') : infoQ'[i] = infoQ[i + 1]
         /\ infoQ' = <<>> <=> Len(infoQ') = 0
  <1>1. infoQ \in Seq({"added", "removed"}) /\ infoQ # <<>> /\ Head(infoQ) = m /\ infoQ' = Tail(infoQ)
    BY DEF Received, TypeOK
  <1>2. /\ infoQ' \in Seq({"added", "removed"})
        /\ Len(infoQ') = Len(infoQ) - 1
        /\ \A i \in 1..Len(infoQ') : infoQ'[i] = infoQ[i + 1]
    BY <1>1, HeadTailProperties
  <1>3. Len(infoQ) \in Nat \ {0} /\ (infoQ' = <<>> <=> Len(infoQ') = 0)
    BY <1>1, <1>2, EmptySeq
  <1> QED BY <1>1, <1>2, <1>3

(* The enumerator. *)
LEMMA EnumeratorKeeps ==
  ASSUME ManagerInv, Enumerator \/ Unanswered
  PROVE  ManagerInv'
  <1> USE DEF ManagerInv
  <1>u. UNCHANGED <<running, handle, task, life, port, reports>>
    BY DEF Enumerator, Unanswered, Poll, Connects, ConnectFails, StatusOk, StatusBad, Drain, devVars
  <1>a. OneLive' /\ HandleServes' /\ EndedIsReported'
    BY <1>u DEF OneLive, HandleServes, EndedIsReported
  <1>1. CASE Connects
    <2>1. TypeOK'
      BY <1>1, <1>u, TellTypes DEF Connects, TypeOK
    <2>2. ~known /\ known' = TRUE /\ step' = "drain" /\ enumQ' = enumQ /\ Tell("added")
      BY <1>1 DEF Connects, AsksWhatItMust
    <2>3. running => Doomed' \/ (Alternates' /\ InAgreement')
      BY <1>u, <2>2, TellAgrees
    <2>4. KnownIsServed' /\ NoStandoff'
      <3>1. running => Len(infoQ') \in Nat \ {0} /\ infoQ'[Len(infoQ')] = "added"
        BY <2>2, TellTypes
      <3> QED BY <1>u, <2>2, <3>1 DEF KnownIsServed, NoStandoff
    <2> QED BY <1>u, <1>a, <2>1, <2>2, <2>3, <2>4 DEF AsksWhatItMust
  <1>2. CASE StatusBad
    <2>1. TypeOK'
      BY <1>2, <1>u, TellTypes DEF StatusBad, TypeOK
    <2>2. known /\ known' = FALSE /\ step' = "drain" /\ enumQ' = enumQ /\ Tell("removed")
      BY <1>2 DEF StatusBad, AsksWhatItMust
    <2>3. running => Doomed' \/ (Alternates' /\ InAgreement')
      BY <1>u, <2>2, TellAgrees
    <2>4. KnownIsServed' /\ NoStandoff'
      BY <1>u, <2>2 DEF KnownIsServed, NoStandoff
    <2> QED BY <1>u, <1>a, <2>1, <2>2, <2>3, <2>4 DEF AsksWhatItMust
  <1>3. CASE Drain
    <2>1. TypeOK'
      <3>1. UNCHANGED <<emulator, infoQ>> /\ step' = "sleep" /\ known' \in BOOLEAN
        BY <1>3 DEF Drain, TypeOK
      <3>2. enumQ' \in Nat
        <4>1. enumQ \in Nat /\ enumQ' = IF enumQ > 0 THEN enumQ - 1 ELSE enumQ
          BY <1>3 DEF Drain, TypeOK
        <4> QED BY <4>1
      <3> QED BY <1>u, <3>1, <3>2 DEF TypeOK
    <2>2. running => Doomed' \/ (Alternates' /\ InAgreement')
      BY <1>3, <1>u DEF Drain, Doomed, Alternates, InAgreement, TypeOK
    <2>3. KnownIsServed' /\ NoStandoff' /\ AsksWhatItMust'
      BY <1>3, <1>u DEF Drain, KnownIsServed, NoStandoff, AsksWhatItMust, TypeOK
    <2> QED BY <1>u, <1>a, <2>1, <2>2, <2>3
  <1>4. CASE Poll \/ ConnectFails \/ StatusOk \/ Unanswered
    <2>1. UNCHANGED <<emulator, known, infoQ, enumQ>> /\ TypeOK'
      BY <1>4, <1>u DEF Poll, ConnectFails, StatusOk, Unanswered, TypeOK
    <2>2. AsksWhatItMust'
      BY <1>4 DEF Poll, ConnectFails, StatusOk, Unanswered, AsksWhatItMust
    <2> QED
      BY <1>u, <1>a, <2>1, <2>2
      DEF Doomed, Alternates, InAgreement, KnownIsServed, NoStandoff
  <1> QED BY <1>1, <1>2, <1>3, <1>4 DEF Enumerator

(* The manager. *)
LEMMA ManagerKeeps ==
  ASSUME ManagerInv, ManagerTask
  PROVE  ManagerInv'
  <1> USE DEF ManagerInv
  <1>u. UNCHANGED <<emulator, step, known>> /\ AsksWhatItMust'
    BY DEF ManagerTask, Added, RemovedByEnumerator, IndexPanics, Reported, enumVars, AsksWhatItMust
  <1>1. CASE Added
    <2>1. PICK d \in Devices :
            /\ life[d] = "unborn"
            /\ task' = [task EXCEPT ![d] = "running"]
            /\ life' = [life EXCEPT ![d] = "live"]
            /\ port' = [port EXCEPT ![d] = Url]
            /\ handle' = d
      BY <1>1 DEF Added
    <2>2. Received("added") /\ running /\ running' /\ enumQ' = enumQ /\ reports' = reports
      BY <1>1 DEF Added, Received
    <2>3. ~Doomed /\ handle = NoDevice /\ Alternates /\ InAgreement /\ enumQ = 0
      BY <2>2, ReceivedTypes DEF Doomed, Alternates, InAgreement
    <2>4. handle' # NoDevice
      BY <2>1, RetroarchAssumption
    <2>5. TypeOK'
      BY <1>u, <2>1, <2>2, ReceivedTypes DEF TypeOK
    <2>6. OneLive'
      BY <2>1, <2>3, RetroarchAssumption DEF OneLive, TypeOK
    <2>7. Alternates'
      BY <2>2, <2>3, <2>4, ReceivedTypes DEF Alternates, TypeOK
    <2>8. InAgreement'
      BY <1>u, <2>2, <2>3, <2>4, ReceivedTypes DEF InAgreement
    <2>9. HandleServes' /\ EndedIsReported' /\ KnownIsServed' /\ NoStandoff'
      BY <2>1, <2>2, <2>4 DEF HandleServes, EndedIsReported, KnownIsServed, NoStandoff, TypeOK
    <2> QED BY <1>u, <2>5, <2>6, <2>7, <2>8, <2>9
  <1>2. CASE RemovedByEnumerator
    <2>1. Received("removed") /\ running /\ running' /\ UNCHANGED <<enumQ, reports, port>>
          /\ handle # NoDevice /\ handle' = NoDevice
          /\ task' = [task EXCEPT ![handle] = IF @ = "running" THEN "closing" ELSE @]
          /\ life' = [life EXCEPT ![handle] = "gone"]
      BY <1>2 DEF RemovedByEnumerator, Received, Dropped
    <2>2. Alternates /\ InAgreement /\ enumQ = 0 /\ handle \in Devices
      BY <2>1 DEF Doomed, InAgreement, TypeOK
    <2>3. TypeOK'
      BY <1>u, <2>1, <2>2, ReceivedTypes DEF TypeOK
    <2>4. OneLive'
      BY <2>1, <2>2, RetroarchAssumption DEF OneLive, TypeOK
    <2>5. Alternates'
      <3>1. /\ Len(infoQ) \in Nat /\ Len(infoQ) > 0 /\ Len(infoQ') = Len(infoQ) - 1
            /\ \A i \in 1..Len(infoQ') : infoQ'[i] = infoQ[i + 1]
            /\ infoQ' = <<>> <=> Len(infoQ') = 0
            /\ infoQ[1] = "removed"
        BY <2>1, ReceivedTypes
      <3>2. \A i \in 1..Len(infoQ) : infoQ[i] \in {"added", "removed"}
        BY ElementOfSeq DEF TypeOK
      <3>3. \A i \in 1..(Len(infoQ) - 1) : infoQ[i] # infoQ[i + 1]
        BY <2>2 DEF Alternates
      <3>4. infoQ' # <<>> => infoQ'[1] = "added"
        <4> SUFFICES ASSUME infoQ' # <<>> PROVE infoQ'[1] = "added"
          OBVIOUS
        <4>1. 1 \in 1..Len(infoQ') /\ 1 \in 1..(Len(infoQ) - 1) /\ 2 \in 1..Len(infoQ)
          BY <3>1
        <4>2. infoQ'[1] = infoQ[2] /\ infoQ[1] # infoQ[2] /\ infoQ[2] \in {"added", "removed"}
          BY <3>1, <3>2, <3>3, <4>1
        <4> QED BY <3>1, <4>2
      <3>5. \A i \in 1..(Len(infoQ') - 1) : infoQ'[i] # infoQ'[i + 1]
        BY <3>1, <3>3
      <3> QED BY <2>1, <3>4, <3>5 DEF Alternates
    <2>6. InAgreement'
      BY <1>u, <2>1, <2>2, ReceivedTypes DEF InAgreement
    <2>7. HandleServes' /\ EndedIsReported' /\ NoStandoff'
      BY <2>1 DEF HandleServes, EndedIsReported, NoStandoff
    <2>8. KnownIsServed'
      BY <1>u, <2>1, <2>2, <2>6, ReceivedTypes DEF KnownIsServed, InAgreement
    <2> QED BY <1>u, <2>3, <2>4, <2>5, <2>6, <2>7, <2>8
  <1>3. CASE IndexPanics
    <2>1. ~running' /\ handle = NoDevice /\ Received("removed") /\ reports' = <<>>
          /\ UNCHANGED <<enumQ, handle, task, life, port>>
      BY <1>3 DEF IndexPanics, devVars
    <2>2. TypeOK'
      <3>1. infoQ' \in Seq({"added", "removed"}) /\ reports' \in Seq(Devices)
        BY <2>1, ReceivedTypes, EmptySeq
      <3>2. running' \in BOOLEAN
        BY <1>3 DEF IndexPanics
      <3> QED BY <1>u, <2>1, <3>1, <3>2 DEF TypeOK
    <2> QED
      BY <1>u, <2>1, <2>2
      DEF OneLive, HandleServes, KnownIsServed, EndedIsReported, NoStandoff
  <1>4. CASE Reported
    <2>1. running /\ running' /\ reports # <<>> /\ reports' = Tail(reports)
          /\ UNCHANGED <<infoQ, task, port>>
      BY <1>4 DEF Reported, Dropped
    <2>2. reports' \in Seq(Devices)
      BY <2>1, HeadTailProperties DEF TypeOK
    <2>3. CASE handle = NoDevice
      <3>1. UNCHANGED <<enumQ, life, handle>>
        BY <1>4, <2>3 DEF Reported
      <3> QED
        BY <1>u, <2>1, <2>2, <2>3, <3>1
        DEF TypeOK, OneLive, Doomed, Alternates, InAgreement, HandleServes,
            KnownIsServed, EndedIsReported, NoStandoff
    <2>4. CASE handle # NoDevice
      <3>1. enumQ' = enumQ + 1 /\ handle' = NoDevice /\ life' = [life EXCEPT ![handle] = "gone"]
        BY <1>4, <2>4 DEF Reported, Dropped
      <3>2. enumQ = 0 /\ Alternates /\ InAgreement /\ handle \in Devices
        BY <2>1, <2>4 DEF Doomed, InAgreement, TypeOK
      <3>3. TypeOK'
        <4>1. enumQ' \in Nat
          BY <3>1, <3>2
        <4> QED BY <1>u, <2>1, <2>2, <3>1, <3>2, <4>1 DEF TypeOK
      <3>4. OneLive'
        BY <2>1, <3>1, <3>2, RetroarchAssumption DEF OneLive, TypeOK
      <3>5. Doomed' \/ (Alternates' /\ InAgreement')
        <4>1. CASE infoQ = <<>>
          BY <1>u, <2>1, <2>4, <3>1, <3>2, <4>1 DEF Alternates, InAgreement, EmptySeq
        <4>2. CASE infoQ # <<>>
          <5>1. infoQ[1] \in {"added", "removed"}
            BY <4>2, ElementOfSeq, EmptySeq DEF TypeOK
          <5> QED BY <2>1, <2>4, <3>1, <3>2, <4>2, <5>1 DEF Alternates, Doomed
        <4> QED BY <4>1, <4>2
      <3>6. HandleServes' /\ KnownIsServed' /\ EndedIsReported' /\ NoStandoff'
        BY <3>1, <3>2 DEF HandleServes, KnownIsServed, EndedIsReported, NoStandoff
      <3> QED BY <1>u, <2>1, <3>3, <3>4, <3>5, <3>6
    <2> QED BY <2>3, <2>4
  <1> QED BY <1>1, <1>2, <1>3, <1>4 DEF ManagerTask

(* The tasks of its devices, and RetroArch. *)
LEMMA DeviceKeeps ==
  ASSUME ManagerInv,
         EmulatorChanges \/ \E d \in Devices : FailsAndReports(d) \/ ReadPanics(d) \/ TaskCloses(d)
  PROVE  ManagerInv'
  <1> USE DEF ManagerInv
  <1>u. UNCHANGED <<step, known, infoQ, enumQ, running, handle, life, port>>
    BY DEF EmulatorChanges, FailsAndReports, ReadPanics, TaskCloses, enumVars, devVars
  <1>1. /\ OneLive' /\ AsksWhatItMust' /\ KnownIsServed' /\ NoStandoff'
        /\ running => Doomed' \/ (Alternates' /\ InAgreement')
    BY <1>u DEF OneLive, AsksWhatItMust, KnownIsServed, NoStandoff, Doomed, Alternates, InAgreement
  <1>2. CASE EmulatorChanges
    BY <1>u, <1>1, <1>2 DEF EmulatorChanges, TypeOK, HandleServes, EndedIsReported, devVars
  <1>3. ASSUME NEW d \in Devices, FailsAndReports(d) PROVE ManagerInv'
    <2>1. reports' \in Seq(Devices) /\ (running => reports' # <<>>)
      BY <1>3, AppendProperties DEF FailsAndReports, TypeOK
    <2>2. TypeOK' /\ HandleServes' /\ EndedIsReported'
      BY <1>u, <1>3, <2>1 DEF FailsAndReports, TypeOK, HandleServes, EndedIsReported
    <2> QED BY <1>u, <1>1, <2>2
  <1>4. ASSUME NEW d \in Devices, ReadPanics(d) PROVE ManagerInv'
    <2>1. TypeOK' /\ HandleServes' /\ EndedIsReported'
      BY <1>u, <1>4 DEF ReadPanics, TypeOK, HandleServes, EndedIsReported
    <2> QED BY <1>u, <1>1, <2>1
  <1>5. ASSUME NEW d \in Devices, TaskCloses(d) PROVE ManagerInv'
    <2>1. d # handle
      BY <1>5, RetroarchAssumption DEF TaskCloses, HandleServes
    <2>2. TypeOK' /\ HandleServes' /\ EndedIsReported'
      BY <1>u, <1>5, <2>1 DEF TaskCloses, TypeOK, HandleServes, EndedIsReported
    <2> QED BY <1>u, <1>1, <2>2
  <1> QED BY <1>2, <1>3, <1>4, <1>5

-----------------------------------------------------------------------------
(* The theorems. *)

(* ManagerInv holds in every reachable state. *)
THEOREM ManagerInvariant == Spec => []ManagerInv
  <1>1. Init => ManagerInv
    <2> SUFFICES ASSUME Init PROVE ManagerInv
      OBVIOUS
    <2>1. infoQ \in Seq({"added", "removed"}) /\ reports \in Seq(Devices) /\ Len(infoQ) = 0
      BY EmptySeq DEF Init
    <2>2. TypeOK
      BY <2>1 DEF Init, TypeOK
    <2>3. OneLive
      BY RetroarchAssumption DEF Init, OneLive
    <2> QED
      BY <2>1, <2>2, <2>3
      DEF Init, ManagerInv, Alternates, InAgreement, HandleServes, AsksWhatItMust, KnownIsServed,
          EndedIsReported, NoStandoff
  <1>2. ManagerInv /\ [Next]_vars => ManagerInv'
    <2>1. ASSUME ManagerInv, UNCHANGED vars PROVE ManagerInv'
      BY <2>1
      DEF vars, enumVars, devVars, ManagerInv, TypeOK, OneLive, Doomed, Alternates, InAgreement,
          HandleServes, AsksWhatItMust, KnownIsServed, EndedIsReported, NoStandoff
    <2> QED BY <2>1, EnumeratorKeeps, ManagerKeeps, DeviceKeeps DEF Next
  <1> QED BY <1>1, <1>2, PTL DEF Spec

(* The state stays typed: the enumerator takes no message that is not there *)
(* (retroarch.rs, try_recv), and messages keep their kind.                  *)
THEOREM ManagerTypeCorrect == Spec => []TypeOK
  BY ManagerInvariant, PTL DEF ManagerInv

(* What the enumerator takes for connected is served, or about to be, or   *)
(* about to be corrected (retroarch.rs, current_devices and devices).      *)
THEOREM ServedCorrect == Spec => []KnownIsServed
  BY ManagerInvariant, PTL DEF ManagerInv

(* A device whose task returned has a report that its manager has still to *)
(* handle.                                                                 *)
THEOREM ReportCorrect == Spec => []EndedIsReported
  BY ManagerInvariant, PTL DEF ManagerInv

(* Manager and enumerator never both wait for room in the other's channel. *)
THEOREM NoStandoffCorrect == Spec => []NoStandoff
  BY ManagerInvariant, PTL DEF ManagerInv

(* RetroarchManager implements DeviceFeed: every creation and removal that *)
(* it sends is one the registry may see.                                   *)
THEOREM FeedCorrect == Spec => FeedSpec
  <1>1. Init => Feed!Init
    BY DEF Init, Feed!Init
  <1>2. ManagerInv /\ [Next]_vars => [Feed!Next]_<<life, port>>
    <2> SUFFICES ASSUME ManagerInv, [Next]_vars PROVE [Feed!Next]_<<life, port>>
      OBVIOUS
    <2> USE DEF ManagerInv
    <2>1. CASE Added
      <3>1. handle = NoDevice
        BY <2>1, ReceivedTypes DEF Added, Received, Doomed, Alternates
      <3>2. PICK d \in Devices :
              /\ life[d] = "unborn"
              /\ life' = [life EXCEPT ![d] = "live"]
              /\ port' = [port EXCEPT ![d] = Url]
        BY <2>1 DEF Added
      <3>3. Feed!Vacant(Url)
        BY <3>1, RetroarchAssumption DEF Feed!Vacant, OneLive
      <3>4. Feed!Appear(d, Url)
        BY <3>2, <3>3 DEF Feed!Appear
      <3> QED BY <3>4 DEF Feed!Next
    <2>2. ASSUME handle # NoDevice, Dropped PROVE [Feed!Next]_<<life, port>>
      <3>1. handle \in Devices /\ life[handle] = "live"
        BY <2>2 DEF TypeOK, OneLive
      <3>2. Feed!Vanish(handle)
        BY <2>2, <3>1 DEF Dropped, Feed!Vanish
      <3> QED BY <3>1, <3>2 DEF Feed!Next
    <2>3. CASE RemovedByEnumerator
      BY <2>2, <2>3 DEF RemovedByEnumerator
    <2>4. CASE Reported
      BY <2>2, <2>4 DEF Reported
    <2>5. CASE EmulatorChanges \/ Enumerator \/ Unanswered \/ IndexPanics \/ UNCHANGED vars
               \/ \E d \in Devices : FailsAndReports(d) \/ ReadPanics(d) \/ TaskCloses(d)
      <3>1. UNCHANGED <<life, port>>
        BY <2>5
        DEF EmulatorChanges, Enumerator, Unanswered, Poll, Connects, ConnectFails, StatusOk,
            StatusBad, Drain, IndexPanics, FailsAndReports, ReadPanics, TaskCloses, devVars, vars
      <3> QED BY <3>1
    <2> QED BY <2>1, <2>3, <2>4, <2>5 DEF Next, ManagerTask
  <1> QED BY <1>1, <1>2, ManagerInvariant, PTL DEF Spec, FeedSpec, Feed!Spec
=============================================================================
