------------------------ MODULE EmuNwaManagerProofs ------------------------
(***************************************************************************)
(* Proofs about EmuNwaManager, for any number of Uuids and of ports and    *)
(* any capacities of its two channels.                                     *)
(***************************************************************************)
EXTENDS EmuNwaManager, FiniteSetTheorems, SequenceTheorems, TLAPS

-----------------------------------------------------------------------------
(* The inductive invariant. *)

(* The port of the device that is being replaced still has its handle.     *)
BusyServes == busy # NoPort => handle[busy] # NoDevice

(* The device of a port was announced there, and is taken back only while  *)
(* the manager connects to the port again.                                 *)
HandleLives ==
  \A p \in Ports :
    handle[p] # NoDevice =>
      port[handle[p]] = p /\ life[handle[p]] = IF p = busy THEN "gone" ELSE "live"

(* An announced device is the one of its port. *)
LiveIsHandle == \A d \in Devices : life[d] = "live" => port[d] \in Ports /\ handle[port[d]] = d

(* Tasks run for announced devices, ... *)
RunningLives == \A d \in Devices : task[d] = "running" => life[d] = "live"

(* ... and report once, when they end. *)
ReportsLive ==
  /\ \A i \in 1..Len(reports) : life[reports[i]] = "live" /\ task[reports[i]] = "ended"
  /\ \A i, j \in 1..Len(reports) : reports[i] = reports[j] => i = j

EmuInv ==
  /\ TypeOK
  /\ OnePlace
  /\ BusyServes
  /\ HandleLives
  /\ LiveIsHandle
  /\ RunningLives
  /\ ReportsLive
  /\ EndedIsReported

-----------------------------------------------------------------------------
(* Counting in channels. *)

(* A count is a number, and is not zero for what is in the channel. *)
LEMMA CountType ==
  ASSUME NEW S, NEW q \in Seq(S), NEW p
  PROVE  /\ IsFiniteSet({i \in DOMAIN q : q[i] = p})
         /\ Count(q, p) \in Nat
         /\ \A i \in 1..Len(q) : q[i] = p => Count(q, p) > 0
  <1> DEFINE I == {i \in DOMAIN q : q[i] = p}
  <1>1. Len(q) \in Nat /\ DOMAIN q = 1..Len(q)
    BY LenProperties
  <1>2. IsFiniteSet(1..Len(q)) /\ I \in SUBSET (1..Len(q))
    BY <1>1, FS_Interval
  <1>3. IsFiniteSet(I)
    BY <1>2, FS_Subset
  <1>4. Cardinality(I) \in Nat /\ (Cardinality(I) = 0 <=> I = {})
    BY <1>3, FS_CardinalityType, FS_EmptySet
  <1>5. ASSUME NEW i \in 1..Len(q), q[i] = p PROVE I # {}
    BY <1>1, <1>5
  <1>6. Count(q, p) = Cardinality(I)
    BY DEF Count
  <1> HIDE DEF I
  <1>7. Cardinality(I) # 0 => Cardinality(I) > 0
    BY <1>4
  <1>8. Count(q, p) \in Nat /\ \A i \in 1..Len(q) : q[i] = p => Count(q, p) > 0
    BY <1>4, <1>5, <1>6, <1>7
  <1> QED BY <1>3, <1>8 DEF I

(* A message that is sent is counted. *)
LEMMA CountAppend ==
  ASSUME NEW S, NEW q \in Seq(S), NEW m \in S, NEW p
  PROVE  Count(Append(q, m), p) = Count(q, p) + IF m = p THEN 1 ELSE 0
  <1> DEFINE r == Append(q, m)
             I == {i \in DOMAIN q : q[i] = p}
             J == {i \in DOMAIN r : r[i] = p}
             n == Len(q) + 1
  <1>1. /\ r \in Seq(S) /\ Len(r) = n /\ r[n] = m
        /\ \A i \in 1..Len(q) : r[i] = q[i]
    BY AppendProperties
  <1>2. Len(q) \in Nat /\ DOMAIN q = 1..Len(q) /\ DOMAIN r = 1..n
    BY <1>1, LenProperties
  <1> HIDE DEF r
  <1>3. J = IF m = p THEN I \cup {n} ELSE I
    BY <1>1, <1>2
  <1>4. n \notin I
    BY <1>2
  <1>5. IsFiniteSet(I) /\ Count(q, p) = Cardinality(I) /\ Count(q, p) \in Nat
    BY CountType DEF Count
  <1>6. Cardinality(I \cup {n}) = Cardinality(I) + 1
    BY <1>4, <1>5, FS_AddElement
  <1>7. Count(r, p) = Cardinality(J)
    BY DEF Count
  <1> HIDE DEF I, J, n
  <1>8. CASE m = p
    BY <1>3, <1>5, <1>6, <1>7, <1>8 DEF r
  <1>9. CASE m # p
    BY <1>3, <1>5, <1>7, <1>9 DEF r
  <1> QED BY <1>8, <1>9

(* A message that is taken is no longer counted. *)
LEMMA CountTail ==
  ASSUME NEW S, NEW q \in Seq(S), q # <<>>, NEW p
  PROVE  /\ Count(Tail(q), p) = Count(q, p) - IF Head(q) = p THEN 1 ELSE 0
         /\ Head(q) = p => Count(q, p) > 0
  <1> DEFINE t == Tail(q)
             I == {i \in DOMAIN q : q[i] = p}
             J == {i \in DOMAIN t : t[i] = p}
             K == I \ {1}
             f == [i \in J |-> i + 1]
  <1>1. /\ t \in Seq(S) /\ Len(t) = Len(q) - 1
        /\ \A i \in 1..Len(t) : t[i] = q[i + 1]
    BY HeadTailProperties
  <1>2. Len(q) \in Nat \ {0} /\ DOMAIN q = 1..Len(q) /\ DOMAIN t = 1..Len(t)
    BY <1>1, LenProperties, EmptySeq
  <1>3. Head(q) = q[1]
    OBVIOUS
  <1> HIDE DEF t
  <1>4. f \in Bijection(J, K)
    <2>1. f \in [J -> K]
      BY <1>1, <1>2
    <2>2. \A i, j \in J : f[i] = f[j] => i = j
      BY <1>2
    <2>3. \A k \in K : k - 1 \in J /\ f[k - 1] = k
      BY <1>1, <1>2
    <2>4. \A k \in K : \E i \in J : f[i] = k
      BY <2>3
    <2> QED BY <2>1, <2>2, <2>4 DEF Bijection, Injection, Surjection, IsInjective
  <1>5. IsFiniteSet(I) /\ Count(q, p) = Cardinality(I) /\ Count(q, p) \in Nat
    BY CountType DEF Count
  <1>6. IsFiniteSet(J) /\ Count(t, p) = Cardinality(J) /\ Count(t, p) \in Nat
    BY <1>1, CountType DEF Count
  <1>7. Cardinality(K) = Cardinality(J)
    BY <1>4, <1>6, FS_Bijection DEF ExistsBijection
  <1>8. Cardinality(K) = IF 1 \in I THEN Cardinality(I) - 1 ELSE Cardinality(I)
    BY <1>5, FS_RemoveElement
  <1>9. 1 \in I <=> Head(q) = p
    BY <1>2, <1>3
  <1> HIDE DEF I, J, K
  <1> QED BY <1>5, <1>6, <1>7, <1>8, <1>9 DEF t
-----------------------------------------------------------------------------
(* Steps. *)

(* Every step keeps the types. *)
LEMMA TypeKept ==
  ASSUME TypeOK, [EmuNext]_vars
  PROVE  TypeOK'
  <1> USE DEF TypeOK
  <1>1. ASSUME NEW p \in Ports, EmulatorChanges(p) PROVE TypeOK'
    BY <1>1 DEF EmulatorChanges, enumVars, devVars
  <1>2. CASE Probe
    <2>1. known' \subseteq Ports /\ infoQ' \in Seq(Ports) /\ step' = "drain"
      <3>1. Append(infoQ, at) \in Seq(Ports)
        BY AppendProperties
      <3> QED BY <1>2, <3>1 DEF Probe
    <2> QED BY <1>2, <2>1 DEF Probe, devVars
  <1>3. CASE Drain
    <2>1. known' \subseteq Ports /\ enumQ' \in Seq(Ports) /\ step' = "probe"
      <3>1. enumQ # <<>> => Tail(enumQ) \in Seq(Ports)
        BY HeadTailProperties
      <3> QED BY <1>3, <3>1 DEF Drain
    <2>2. at' \in Ports
      <3>1. at \in 0..(NumPorts - 1) /\ NumPorts \in Nat \ {0}
        BY EmuNwaAssumption
      <3>2. (at + 1) % NumPorts \in 0..(NumPorts - 1)
        BY <3>1
      <3> QED BY <1>3, <3>2, EmuNwaAssumption DEF Drain, NextPort
    <2> QED BY <1>3, <2>1, <2>2 DEF Drain, devVars
  <1>4. CASE Unanswered
    BY <1>4 DEF Unanswered, devVars
  <1>5. ASSUME NEW d \in Devices, NEW p \in Ports, Starts(d, p)
        PROVE  /\ handle' \in [Ports -> Devices \cup {NoDevice}]
               /\ task' \in [Devices -> {"none", "running", "ended"}]
               /\ life' \in [Devices -> Lives] /\ port' \in [Devices -> Ports \cup {NoPort}]
    BY <1>5 DEF Starts, Lives
  <1>6. infoQ # <<>> => Head(infoQ) \in Ports /\ Tail(infoQ) \in Seq(Ports)
    BY HeadTailProperties
  <1>7. CASE Added
    BY <1>5, <1>6, <1>7 DEF Added, enumVars
  <1>8. CASE AddedRefused
    BY <1>6, <1>8 DEF AddedRefused, enumVars, devVars
  <1>9. CASE Reported
    <2>1. Head(reports) \in Devices /\ reports' \in Seq(Devices)
      BY <1>9, HeadTailProperties DEF Reported
    <2>2. busy' \in Ports \cup {NoPort} /\ life' \in [Devices -> Lives]
      BY <1>9, <2>1 DEF Reported, Lives
    <2> QED BY <1>9, <2>1, <2>2 DEF Reported, enumVars
  <1>10. CASE Reconnects
    BY <1>5, <1>10 DEF Reconnects, enumVars
  <1>11. CASE GivesUp
    <2>1. busy \in Ports
      BY <1>11 DEF GivesUp
    <2>2. enumQ' \in Seq(Ports)
      BY <1>11, <2>1, AppendProperties DEF GivesUp
    <2> QED BY <1>11, <2>1, <2>2 DEF GivesUp, enumVars
  <1>12. ASSUME NEW d \in Devices, FailsAndReports(d) PROVE TypeOK'
    <2>1. reports' \in Seq(Devices)
      BY <1>12, AppendProperties DEF FailsAndReports
    <2> QED BY <1>12, <2>1 DEF FailsAndReports, enumVars
  <1>13. CASE UNCHANGED vars
    BY <1>13 DEF vars, enumVars, devVars
  <1> QED
    BY <1>1, <1>2, <1>3, <1>4, <1>7, <1>8, <1>9, <1>10, <1>11, <1>12, <1>13
    DEF EmuNext, Enumerator, ManagerTask

(* Every step keeps a port in one place. *)
LEMMA OnePlaceKept ==
  ASSUME TypeOK, BusyServes, OnePlace, [EmuNext]_vars
  PROVE  OnePlace'
  <1> SUFFICES ASSUME NEW p \in Ports
               PROVE  Count(infoQ', p) + Served(p)' + Count(enumQ', p)
                        <= IF p \in known' THEN 1 ELSE 0
    BY DEF OnePlace
  <1>1. /\ Count(infoQ, p) \in Nat /\ Count(enumQ, p) \in Nat /\ Served(p) \in {0, 1}
        /\ Count(infoQ, p) + Served(p) + Count(enumQ, p) <= IF p \in known THEN 1 ELSE 0
    BY CountType DEF OnePlace, Served, TypeOK
  <1>2. ASSUME UNCHANGED <<known, infoQ, enumQ, handle>>
        PROVE  Count(infoQ', p) + Served(p)' + Count(enumQ', p) <= IF p \in known' THEN 1 ELSE 0
    BY <1>1, <1>2 DEF Served
  <1>3. CASE Probe
    <2>1. CASE at \notin known /\ emulator[at]
      <3>1. /\ known' = known \cup {at} /\ infoQ' = Append(infoQ, at)
            /\ UNCHANGED <<enumQ, handle>>
        BY <1>3, <2>1 DEF Probe, devVars
      <3>2. Count(infoQ', p) = Count(infoQ, p) + IF at = p THEN 1 ELSE 0
        BY <3>1, CountAppend DEF TypeOK
      <3> QED BY <1>1, <2>1, <3>1, <3>2 DEF Served
    <2> QED BY <1>2, <1>3, <2>1 DEF Probe, devVars
  <1>4. CASE Drain
    <2>1. CASE enumQ # <<>>
      <3>1. /\ known' = known \ {Head(enumQ)} /\ enumQ' = Tail(enumQ)
            /\ UNCHANGED <<infoQ, handle>>
        BY <1>4, <2>1 DEF Drain, devVars
      <3>2. /\ Count(enumQ', p) = Count(enumQ, p) - IF Head(enumQ) = p THEN 1 ELSE 0
            /\ Head(enumQ) = p => Count(enumQ, p) > 0
        BY <2>1, <3>1, CountTail DEF TypeOK
      <3> QED BY <1>1, <3>1, <3>2 DEF Served
    <2> QED BY <1>2, <1>4, <2>1 DEF Drain, devVars
  <1>5. ASSUME infoQ # <<>>, infoQ' = Tail(infoQ)
        PROVE  /\ Count(infoQ', p) = Count(infoQ, p) - IF Head(infoQ) = p THEN 1 ELSE 0
               /\ Head(infoQ) = p => Count(infoQ, p) > 0
    BY <1>5, CountTail DEF TypeOK
  <1>6. CASE Added
    <2>1. PICK d \in Devices : handle' = [handle EXCEPT ![Head(infoQ)] = d]
      BY <1>6 DEF Added, Starts
    <2>2. infoQ # <<>> /\ infoQ' = Tail(infoQ) /\ UNCHANGED <<known, enumQ>>
      BY <1>6 DEF Added, enumVars
    <2>3. Served(p)' = IF Head(infoQ) = p THEN 1 ELSE Served(p)
      BY <2>1, EmuNwaAssumption DEF Served, TypeOK
    <2> QED BY <1>1, <1>5, <2>2, <2>3
  <1>7. CASE AddedRefused
    <2>1. infoQ # <<>> /\ infoQ' = Tail(infoQ) /\ UNCHANGED <<known, enumQ, handle>>
      BY <1>7 DEF AddedRefused, enumVars, devVars
    <2> QED BY <1>1, <1>5, <2>1 DEF Served
  <1>8. CASE Reconnects
    <2>1. PICK d \in Devices : handle' = [handle EXCEPT ![busy] = d]
      BY <1>8 DEF Reconnects, Starts
    <2>2. Served(p)' = Served(p) /\ UNCHANGED <<known, infoQ, enumQ>>
      BY <1>8, <2>1, EmuNwaAssumption DEF Reconnects, BusyServes, Served, TypeOK, enumVars
    <2> QED BY <1>1, <2>2
  <1>9. CASE GivesUp
    <2>1. /\ busy # NoPort /\ enumQ' = Append(enumQ, busy)
          /\ handle' = [handle EXCEPT ![busy] = NoDevice]
          /\ UNCHANGED <<known, infoQ>>
      BY <1>9 DEF GivesUp, enumVars
    <2>2. busy \in Ports /\ handle[busy] # NoDevice
      BY <2>1 DEF BusyServes, TypeOK
    <2>3. Count(enumQ', p) = Count(enumQ, p) + IF busy = p THEN 1 ELSE 0
      BY <2>1, <2>2, CountAppend DEF TypeOK
    <2>4. Served(p)' = Served(p) - IF busy = p THEN 1 ELSE 0
      BY <2>1, <2>2 DEF Served, TypeOK
    <2> QED BY <1>1, <2>1, <2>3, <2>4
  <1>10. CASE (\E q \in Ports : EmulatorChanges(q)) \/ Unanswered \/ Reported \/ UNCHANGED vars
              \/ \E d \in Devices : FailsAndReports(d)
    BY <1>2, <1>10
    DEF EmulatorChanges, Unanswered, Reported, FailsAndReports, vars, enumVars, devVars
  <1> QED
    BY <1>3, <1>4, <1>6, <1>7, <1>8, <1>9, <1>10
    DEF EmuNext, Enumerator, ManagerTask

(* The port of a message to the manager has no device. *)
LEMMA AddedHasNoDevice ==
  ASSUME TypeOK, OnePlace, infoQ # <<>>
  PROVE  handle[Head(infoQ)] = NoDevice
  <1> DEFINE p == Head(infoQ)
  <1>1. p \in Ports
    BY HeadTailProperties DEF TypeOK
  <1>2. Count(infoQ, p) > 0 /\ Count(infoQ, p) \in Nat /\ Count(enumQ, p) \in Nat
    BY CountTail, CountType DEF TypeOK
  <1>3. Count(infoQ, p) + Served(p) + Count(enumQ, p) <= IF p \in known THEN 1 ELSE 0
    BY <1>1 DEF OnePlace
  <1> HIDE DEF p
  <1>4. Served(p) \in {0, 1}
    BY DEF Served
  <1>5. Served(p) = 0
    BY <1>2, <1>3, <1>4
  <1> QED BY <1>5 DEF Served, p

(* A device that is started on a port which no announced device has. *)
LEMMA StartsKeeps ==
  ASSUME EmuInv, NEW d \in Devices, NEW p \in Ports, Starts(d, p),
         \A e \in Devices : life[e] = "live" => port[e] # p,
         busy \in {NoPort, p}, busy' = NoPort, UNCHANGED reports
  PROVE  BusyServes' /\ HandleLives' /\ LiveIsHandle' /\ RunningLives' /\ ReportsLive'
         /\ EndedIsReported'
  <1> USE DEF EmuInv, TypeOK
  <1>1. /\ life[d] = "unborn"
        /\ life' = [life EXCEPT ![d] = "live"] /\ port' = [port EXCEPT ![d] = p]
        /\ task' = [task EXCEPT ![d] = "running"] /\ handle' = [handle EXCEPT ![p] = d]
    BY DEF Starts
  <1>2. \A q \in Ports : handle[q] # d
    <2> SUFFICES ASSUME NEW q \in Ports, handle[q] = d PROVE FALSE
      OBVIOUS
    <2>1. life[handle[q]] \in {"gone", "live"}
      BY EmuNwaAssumption DEF HandleLives
    <2> QED BY <1>1, <2>1
  <1>3. \A q \in Ports : q # NoPort
    BY FeedAssumption
  <1>4. BusyServes'
    BY DEF BusyServes
  <1>5. HandleLives'
    <2> SUFFICES ASSUME NEW q \in Ports, handle'[q] # NoDevice
                 PROVE  port'[handle'[q]] = q /\ life'[handle'[q]] = "live"
      BY <1>3 DEF HandleLives
    <2>1. CASE q = p
      BY <1>1, <2>1
    <2>2. CASE q # p
      <3>1. handle'[q] = handle[q] /\ handle[q] \in Devices /\ handle[q] # d
        BY <1>1, <1>2, <2>2
      <3>2. port[handle[q]] = q /\ life[handle[q]] = "live"
        BY <1>3, <2>2, <3>1 DEF HandleLives
      <3> QED BY <1>1, <3>1, <3>2
    <2> QED BY <2>1, <2>2
  <1>6. LiveIsHandle'
    BY <1>1 DEF LiveIsHandle
  <1>7. RunningLives'
    BY <1>1 DEF RunningLives
  <1>8. \A i \in 1..Len(reports) : reports[i] \in Devices /\ reports[i] # d
    BY <1>1, ElementOfSeq DEF ReportsLive
  <1>9. ReportsLive'
    BY <1>1, <1>8 DEF ReportsLive
  <1>10. EndedIsReported'
    BY <1>1 DEF EndedIsReported
  <1> QED BY <1>4, <1>5, <1>6, <1>7, <1>9, <1>10

(* Every step keeps what is said of devices, handles and reports. *)
LEMMA DevicesKept ==
  ASSUME EmuInv, [EmuNext]_vars
  PROVE  BusyServes' /\ HandleLives' /\ LiveIsHandle' /\ RunningLives' /\ ReportsLive'
         /\ EndedIsReported'
  <1> USE DEF EmuInv
  <1> DEFINE Kept == BusyServes' /\ HandleLives' /\ LiveIsHandle' /\ RunningLives'
                     /\ ReportsLive' /\ EndedIsReported'
  <1>1. CASE Added
    <2>1. PICK d \in Devices : Starts(d, Head(infoQ))
      BY <1>1 DEF Added
    <2>2. /\ busy = NoPort /\ busy' = NoPort /\ infoQ # <<>> /\ UNCHANGED reports
          /\ Head(infoQ) \in Ports
      BY <1>1, HeadTailProperties DEF Added, TypeOK
    <2>3. handle[Head(infoQ)] = NoDevice
      BY <2>2, AddedHasNoDevice
    <2>4. \A e \in Devices : life[e] = "live" => port[e] # Head(infoQ)
      BY <2>3, EmuNwaAssumption DEF LiveIsHandle
    <2> QED BY <2>1, <2>2, <2>4, StartsKeeps
  <1>2. CASE Reconnects
    <2>1. PICK d \in Devices : Starts(d, busy)
      BY <1>2 DEF Reconnects
    <2>2. busy \in Ports /\ busy' = NoPort /\ UNCHANGED reports
      BY <1>2 DEF Reconnects, TypeOK
    <2>3. life[handle[busy]] = "gone"
      BY <1>2, <2>2 DEF Reconnects, BusyServes, HandleLives
    <2>4. \A e \in Devices : life[e] = "live" => port[e] # busy
      BY <2>3 DEF LiveIsHandle
    <2> QED BY <2>1, <2>2, <2>4, StartsKeeps
  <1>3. CASE GivesUp
    <2>1. /\ busy \in Ports /\ handle' = [handle EXCEPT ![busy] = NoDevice] /\ busy' = NoPort
          /\ UNCHANGED <<task, life, port, reports>>
      BY <1>3 DEF GivesUp, TypeOK
    <2>2. life[handle[busy]] = "gone"
      BY <1>3, <2>1 DEF GivesUp, BusyServes, HandleLives
    <2>3. BusyServes' /\ HandleLives'
      BY <2>1, FeedAssumption DEF BusyServes, HandleLives, TypeOK
    <2>4. LiveIsHandle'
      BY <2>1, <2>2 DEF LiveIsHandle, TypeOK
    <2> QED BY <2>1, <2>3, <2>4 DEF RunningLives, ReportsLive, EndedIsReported
  <1>4. CASE Reported
    <2> DEFINE d == Head(reports)
    <2>1. /\ busy = NoPort /\ reports # <<>> /\ reports' = Tail(reports)
          /\ life' = [life EXCEPT ![d] = "gone"]
          /\ busy' = IF handle[port[d]] # NoDevice THEN port[d] ELSE NoPort
          /\ UNCHANGED <<handle, task, port>>
      BY <1>4 DEF Reported
    <2>2. /\ d = reports[1] /\ d \in Devices /\ Len(reports) \in Nat \ {0}
          /\ Len(reports') = Len(reports) - 1
          /\ \A i \in 1..Len(reports') : reports'[i] = reports[i + 1]
      BY <2>1, HeadTailProperties, EmptySeq DEF TypeOK
    <2>3. life[d] = "live" /\ task[d] = "ended"
      BY <2>2 DEF ReportsLive
    <2>4. port[d] \in Ports /\ handle[port[d]] = d /\ d # NoDevice /\ busy' = port[d]
      BY <2>1, <2>2, <2>3, EmuNwaAssumption DEF LiveIsHandle
    <2> HIDE DEF d
    <2>5. BusyServes' /\ LiveIsHandle'
      BY <2>1, <2>2, <2>4 DEF BusyServes, LiveIsHandle, TypeOK
    <2>6. HandleLives'
      <3> SUFFICES ASSUME NEW p \in Ports, handle[p] # NoDevice
                   PROVE  port[handle[p]] = p
                          /\ life'[handle[p]] = IF p = busy' THEN "gone" ELSE "live"
        BY <2>1 DEF HandleLives
      <3>1. port[handle[p]] = p /\ life[handle[p]] = "live" /\ handle[p] \in Devices
        BY <2>1, FeedAssumption DEF HandleLives, TypeOK
      <3> QED BY <2>1, <2>2, <2>4, <3>1 DEF TypeOK
    <2>7. \A i \in 1..Len(reports') :
             i + 1 \in 1..Len(reports) /\ reports'[i] = reports[i + 1] /\ reports[i + 1] # d
      BY <2>2 DEF ReportsLive
    <2>8. RunningLives'
      BY <2>1, <2>3 DEF RunningLives, TypeOK
    <2>9. ReportsLive'
      <3>1. \A i \in 1..Len(reports') : life'[reports'[i]] = "live" /\ task[reports'[i]] = "ended"
        <4> TAKE i \in 1..Len(reports')
        <4>1. /\ life[reports[i + 1]] = "live" /\ task[reports[i + 1]] = "ended"
              /\ reports[i + 1] \in Devices
          BY <2>7, ElementOfSeq DEF ReportsLive, TypeOK
        <4> QED BY <2>1, <2>7, <4>1 DEF TypeOK
      <3>2. \A i, j \in 1..Len(reports') : reports'[i] = reports'[j] => i = j
        BY <2>2, <2>7 DEF ReportsLive
      <3> QED BY <2>1, <3>1, <3>2 DEF ReportsLive
    <2>10. EndedIsReported'
      <3> SUFFICES ASSUME NEW e \in Devices, life'[e] = "live", task'[e] = "ended"
                   PROVE  \E i \in DOMAIN reports' : reports'[i] = e
        BY DEF EndedIsReported
      <3>1. e # d /\ life[e] = "live" /\ task[e] = "ended"
        BY <2>1, <2>2 DEF TypeOK
      <3>2. DOMAIN reports = 1..Len(reports) /\ DOMAIN reports' = 1..Len(reports')
        BY <2>1, HeadTailProperties, LenProperties DEF TypeOK
      <3>3. PICK i \in 1..Len(reports) : reports[i] = e
        BY <3>1, <3>2 DEF EndedIsReported
      <3>4. i # 1
        BY <2>2, <3>1, <3>3
      <3>5. i - 1 \in 1..Len(reports') /\ reports'[i - 1] = e
        BY <2>2, <3>3, <3>4
      <3> QED BY <3>2, <3>5
    <2> QED BY <2>5, <2>6, <2>8, <2>9, <2>10
  <1>5. ASSUME NEW d \in Devices, FailsAndReports(d) PROVE Kept
    <2>1. /\ task[d] = "running" /\ task' = [task EXCEPT ![d] = "ended"]
          /\ reports' = Append(reports, d) /\ UNCHANGED <<busy, handle, life, port>>
      BY <1>5 DEF FailsAndReports
    <2>2. life[d] = "live"
      BY <2>1 DEF RunningLives
    <2>3. BusyServes' /\ HandleLives' /\ LiveIsHandle' /\ RunningLives'
      BY <2>1 DEF BusyServes, HandleLives, LiveIsHandle, RunningLives, TypeOK
    <2>4. /\ reports' \in Seq(Devices) /\ Len(reports') = Len(reports) + 1
          /\ reports'[Len(reports) + 1] = d /\ Len(reports) \in Nat
          /\ \A i \in 1..Len(reports) : reports'[i] = reports[i]
      BY <2>1, AppendProperties, LenProperties DEF TypeOK
    <2>5. \A i \in 1..Len(reports) : reports[i] \in Devices /\ reports[i] # d
      BY <2>1, ElementOfSeq DEF ReportsLive, TypeOK
    <2>6. ReportsLive'
      <3>1. \A i \in 1..Len(reports') : life[reports'[i]] = "live" /\ task'[reports'[i]] = "ended"
        BY <2>1, <2>2, <2>4, <2>5 DEF ReportsLive, TypeOK
      <3>2. \A i, j \in 1..Len(reports') : reports'[i] = reports'[j] => i = j
        BY <2>4, <2>5 DEF ReportsLive
      <3> QED BY <2>1, <3>1, <3>2 DEF ReportsLive
    <2>7. EndedIsReported'
      <3>1. DOMAIN reports = 1..Len(reports) /\ DOMAIN reports' = 1..Len(reports')
        BY <2>4, LenProperties DEF TypeOK
      <3>2. ASSUME NEW e \in Devices, life[e] = "live", task'[e] = "ended"
            PROVE  \E i \in DOMAIN reports' : reports'[i] = e
        <4>1. CASE e = d
          BY <2>4, <3>1, <4>1
        <4>2. CASE e # d
          <5>1. PICK i \in 1..Len(reports) : reports[i] = e
            BY <2>1, <3>1, <3>2, <4>2 DEF EndedIsReported, TypeOK
          <5> QED BY <2>4, <3>1, <5>1
        <4> QED BY <4>1, <4>2
      <3> QED BY <2>1, <3>2 DEF EndedIsReported
    <2> QED BY <2>3, <2>6, <2>7
  <1>6. CASE (\E p \in Ports : EmulatorChanges(p)) \/ Enumerator \/ Unanswered \/ AddedRefused
             \/ UNCHANGED vars
    <2>1. UNCHANGED <<busy, devVars, reports>>
      BY <1>6
      DEF EmulatorChanges, Enumerator, Probe, Drain, Unanswered, AddedRefused, vars, devVars
    <2> QED
      BY <2>1
      DEF devVars, BusyServes, HandleLives, LiveIsHandle, RunningLives, ReportsLive, EndedIsReported
  <1> QED BY <1>1, <1>2, <1>3, <1>4, <1>5, <1>6 DEF EmuNext, ManagerTask

-----------------------------------------------------------------------------
(* The theorems. *)

(* EmuInv holds in every reachable state. *)
THEOREM EmuInvariant == EmuSpec => []EmuInv
  <1>1. EmuInit => EmuInv
    <2> SUFFICES ASSUME EmuInit PROVE EmuInv
      OBVIOUS
    <2>1. /\ infoQ \in Seq(Ports) /\ enumQ \in Seq(Ports) /\ reports \in Seq(Devices)
          /\ Len(reports) = 0 /\ 0 \in Ports
      BY EmptySeq, EmuNwaAssumption DEF EmuInit
    <2>2. TypeOK
      BY <2>1 DEF EmuInit, Init, TypeOK, Lives
    <2>3. \A p \in Ports : Count(<<>>, p) = 0
      <3> TAKE p \in Ports
      <3>1. {i \in DOMAIN <<>> : <<>>[i] = p} = {}
        BY EmptySeq
      <3> QED BY <3>1, FS_EmptySet DEF Count
    <2>4. OnePlace
      BY <2>3 DEF EmuInit, OnePlace, Served
    <2> QED
      BY <2>1, <2>2, <2>4
      DEF EmuInit, Init, EmuInv, BusyServes, HandleLives, LiveIsHandle, RunningLives, ReportsLive,
          EndedIsReported
  <1>2. EmuInv /\ [EmuNext]_vars => EmuInv'
    BY TypeKept, OnePlaceKept, DevicesKept DEF EmuInv
  <1> QED BY <1>1, <1>2, PTL DEF EmuSpec

(* The state stays typed: ports stay within the range that is visited, and *)
(* nothing is taken from an empty channel (emunwa.rs, base_port..).        *)
THEOREM EmuTypeCorrect == EmuSpec => []TypeOK
  BY EmuInvariant, PTL DEF EmuInv

(* No port is ever in two of the places that current_emus stands for, nor  *)
(* twice in a channel.                                                     *)
THEOREM OnePlaceCorrect == EmuSpec => []OnePlace
  BY EmuInvariant, PTL DEF EmuInv

(* A registered device whose task returned has its own report in the       *)
(* manager's channel.                                                      *)
THEOREM EmuReportCorrect == EmuSpec => []EndedIsReported
  BY EmuInvariant, PTL DEF EmuInv

(* EmuNwaManager implements DeviceFeed: also a device that replaces one on *)
(* the same port is announced only after that one was taken back.          *)
THEOREM EmuFeedCorrect == EmuSpec => FeedSpec
  <1>1. EmuInit => Init
    BY DEF EmuInit
  <1>2. EmuInv /\ [EmuNext]_vars => [Next]_<<life, port>>
    <2> SUFFICES ASSUME EmuInv, [EmuNext]_vars PROVE [Next]_<<life, port>>
      OBVIOUS
    <2> USE DEF EmuInv
    <2>1. CASE Added
      <3>1. PICK d \in Devices : Starts(d, Head(infoQ))
        BY <2>1 DEF Added
      <3>2. infoQ # <<>> /\ Head(infoQ) \in Ports
        BY <2>1, HeadTailProperties DEF Added, TypeOK
      <3>3. handle[Head(infoQ)] = NoDevice
        BY <3>2, AddedHasNoDevice
      <3>4. Vacant(Head(infoQ))
        BY <3>3, EmuNwaAssumption DEF Vacant, LiveIsHandle
      <3>5. Appear(d, Head(infoQ))
        BY <3>1, <3>4 DEF Starts, Appear
      <3> QED BY <3>2, <3>5 DEF Next
    <2>2. CASE Reconnects
      <3>1. PICK d \in Devices : Starts(d, busy)
        BY <2>2 DEF Reconnects
      <3>2. busy \in Ports /\ life[handle[busy]] = "gone"
        BY <2>2 DEF Reconnects, BusyServes, HandleLives, TypeOK
      <3>3. Vacant(busy)
        BY <3>2 DEF Vacant, LiveIsHandle
      <3>4. Appear(d, busy)
        BY <3>1, <3>3 DEF Starts, Appear
      <3> QED BY <3>2, <3>4 DEF Next
    <2>3. CASE Reported
      <3>1. /\ Head(reports) = reports[1] /\ Head(reports) \in Devices
            /\ Len(reports) \in Nat \ {0}
        BY <2>3, HeadTailProperties, EmptySeq DEF Reported, TypeOK
      <3>2. life[Head(reports)] = "live"
        BY <3>1 DEF ReportsLive
      <3>3. Vanish(Head(reports))
        BY <2>3, <3>2 DEF Reported, Vanish
      <3> QED BY <3>1, <3>3 DEF Next
    <2>4. CASE (\E p \in Ports : EmulatorChanges(p)) \/ Enumerator \/ Unanswered \/ AddedRefused
               \/ GivesUp \/ UNCHANGED vars \/ \E d \in Devices : FailsAndReports(d)
      <3>1. UNCHANGED <<life, port>>
        BY <2>4
        DEF EmulatorChanges, Enumerator, Probe, Drain, Unanswered, AddedRefused, GivesUp,
            FailsAndReports, vars, devVars
      <3> QED BY <3>1
    <2> QED BY <2>1, <2>2, <2>3, <2>4 DEF EmuNext, ManagerTask
  <1> QED BY <1>1, <1>2, EmuInvariant, PTL DEF EmuSpec, FeedSpec, Spec
=============================================================================
