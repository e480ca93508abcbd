------------------------ MODULE RetroarchWireProofs ------------------------
(* What the mapping of ROM offsets to the bus does for every offset, and   *)
(* what a Retroarch task and its emulator do for every list of addresses.  *)
EXTENDS RetroarchWire, SumsProofs

(* The bytes from offset a that fit into the rest of its bank.             *)
Room(mapping, a) == Bank - (ToSnes(mapping, a) % Bank)

(* Bank and place in it. *)
LEMMA BankDivision ==
  ASSUME NEW b \in Nat, NEW x \in Nat, x < Bank
  PROVE  (b * Bank + x) \div Bank = b /\ (b * Bank + x) % Bank = x
BY SMT DEF Bank

(* Under LoROM a bank shows half as many bytes as it has places, in its    *)
(* upper half.                                                             *)
LEMMA LoRomShown ==
  ASSUME NEW a \in Nat, a < Half, NEW j \in Nat,
         a + j < Half, j < Room("LoROM", a)
  PROVE  /\ RomByte("LoROM", ToSnes("LoROM", a) + j) = a + j
         /\ (ToSnes("LoROM", a) + j) \div Bank = ToSnes("LoROM", a) \div Bank
<1> DEFINE q == a \div Page
           r == a % Page
           s == ToSnes("LoROM", a)
<1>1. a = q * Page + r /\ q \in Nat /\ r \in 0..(Page - 1) /\ q < 128
  BY SMT DEF Page, Half
<1>2. s = Mirror + q * Bank + Page + r
  <2>1. q % 512 = q
    BY <1>1, SMT
  <2> QED BY <2>1, <1>1, SMT DEF ToSnes, Mirror, Bank, Page, Half
<1>3. s \in Nat
  BY <1>1, <1>2, SMT DEF Mirror, Bank, Page
<1> HIDE DEF q, r, s
<1>4. s = (128 + q) * Bank + (Page + r)
  BY <1>1, <1>2, SMT DEF Mirror, Bank, Page
<1>5. s % Bank = Page + r
  <2>1. Page + r \in Nat /\ Page + r < Bank /\ 128 + q \in Nat
    BY <1>1, SMT DEF Bank, Page
  <2> QED BY <2>1, <1>4, BankDivision
<1>6. r + j < Page
  BY <1>1, <1>5, SMT DEF Room, Bank, Page, s
<1>7. s + j = (128 + q) * Bank + (Page + r + j)
  BY <1>1, <1>4, SMT DEF Bank, Page
<1>8. (s + j) \div Bank = 128 + q /\ s \div Bank = 128 + q
  <2>1. /\ Page + r \in Nat /\ Page + r < Bank /\ 128 + q \in Nat
        /\ Page + r + j \in Nat /\ Page + r + j < Bank
    BY <1>1, <1>6, SMT DEF Bank, Page
  <2>2. (s + j) \div Bank = 128 + q
    BY <2>1, <1>7, BankDivision
  <2>3. s \div Bank = 128 + q
    BY <2>1, <1>4, BankDivision
  <2> QED BY <2>2, <2>3
<1>9. (s + j) % Page = r + j
  <2>1. s + j = (2 * (128 + q) + 1) * Page + (r + j)
    BY <1>1, <1>7, SMT DEF Bank, Page
  <2> QED BY <2>1, <1>1, <1>6, SMT DEF Page
<1>10. ((s + j) \div Bank) % 128 = q
  BY <1>1, <1>8, SMT
<1>11. RomByte("LoROM", s + j) = q * Page + (r + j)
  BY <1>9, <1>10, SMT DEF RomByte
<1> QED BY <1>1, <1>8, <1>11, SMT DEF s, Page

(* Under HiROM the ROM lies in the upper banks as it is, ...               *)
LEMMA HiRomShown ==
  ASSUME NEW a \in Nat, NEW j \in Nat, a + j < Half, j < Room("HiROM", a)
  PROVE  /\ RomByte("HiROM", ToSnes("HiROM", a) + j) = a + j
         /\ (ToSnes("HiROM", a) + j) \div Bank = ToSnes("HiROM", a) \div Bank
BY SMT DEF Room, ToSnes, RomByte, Mirror, Half, Bank

(* ... and under ExHiROM its second half in the lower ones.                *)
LEMMA ExHiRomShown ==
  ASSUME NEW a \in Nat, NEW j \in Nat, a + j < Mirror, j < Room("ExHiROM", a)
  PROVE  /\ RomByte("ExHiROM", ToSnes("ExHiROM", a) + j) = a + j
         /\ (ToSnes("ExHiROM", a) + j) \div Bank = ToSnes("ExHiROM", a) \div Bank
<1> DEFINE s == ToSnes("ExHiROM", a)
<1>1. s \in Nat /\ s = IF a < Half THEN Mirror + Half + a ELSE a
  BY SMT DEF ToSnes, Mirror, Half
<1>2. PICK b \in Nat, x \in Nat : s = b * Bank + x /\ x < Bank
  <2>1. s = (s \div Bank) * Bank + (s % Bank) /\ s % Bank < Bank
        /\ s \div Bank \in Nat /\ s % Bank \in Nat
    BY <1>1, SMT DEF Bank
  <2> QED BY <2>1
<1> HIDE DEF s
<1>3. x + j < Bank /\ x + j \in Nat
  <2>1. s % Bank = x
    BY <1>2, BankDivision
  <2> QED BY <2>1, <1>2, SMT DEF Room, s, Bank
<1>4. (s + j) \div Bank = b /\ s \div Bank = b
  <2>1. s + j = b * Bank + (x + j)
    BY <1>1, <1>2, SMT DEF Bank
  <2> QED BY <2>1, <1>2, <1>3, BankDivision
<1>5. CASE a < Half
  <2>1. a + j < Half
    BY <1>1, <1>2, <1>3, <1>5, SMT DEF Mirror, Half, Bank
  <2>2. s + j = 3 * Half + (a + j) /\ s + j >= Mirror
    BY <1>1, <1>5, SMT DEF Mirror, Half
  <2>3. (s + j) % Half = a + j
    BY <2>1, <2>2, SMT DEF Half
  <2>4. RomByte("ExHiROM", s + j) = a + j
    BY <2>2, <2>3, <1>1, SMT DEF RomByte, Mirror
  <2> QED BY <2>4, <1>4 DEF s
<1>6. CASE a >= Half
  <2>1. s + j = a + j /\ s + j < Mirror
    BY <1>1, <1>6, SMT DEF Mirror, Half
  <2>2. (s + j) % Half = a + j - Half
    BY <2>1, <1>6, SMT DEF Mirror, Half
  <2> QED BY <2>1, <2>2, <1>1, <1>4, <1>6, SMT DEF RomByte, s, Half, Mirror
<1> QED BY <1>5, <1>6, SMT DEF Half

(* A run of ROM that map_addresses does not split, or the part that it     *)
(* splits off, shows at every place the byte that was asked for, and stays *)
(* in the bank where it starts: for every supported mapping, offset and    *)
(* length.  What the console shows is RomByte.                             *)
THEOREM PieceShown ==
  ASSUME NEW mapping, Supported(mapping),
         NEW a \in Nat, NEW n \in Nat, n > 0, a + n <= Reach(mapping),
         \/ ToSnes(mapping, a) \div Bank = (ToSnes(mapping, a) + n) \div Bank
         \/ n = Bank - (ToSnes(mapping, a) % Bank)
  PROVE  \A j \in 0..(n - 1) :
           /\ RomByte(mapping, ToSnes(mapping, a) + j) = a + j
           /\ (ToSnes(mapping, a) + j) \div Bank = ToSnes(mapping, a) \div Bank
<1> SUFFICES ASSUME NEW j \in 0..(n - 1)
             PROVE  /\ RomByte(mapping, ToSnes(mapping, a) + j) = a + j
                    /\ (ToSnes(mapping, a) + j) \div Bank = ToSnes(mapping, a) \div Bank
  OBVIOUS
<1>1. j \in Nat /\ a + j < Reach(mapping)
  BY SMT DEF Reach, Mirror, Half
<1>2. ToSnes(mapping, a) \in Nat
  BY SMT DEF Supported, ToSnes, Mirror, Half, Bank, Page
<1>3. j < Room(mapping, a)
  BY <1>2, SMT DEF Room, Bank
<1>4. CASE mapping = "LoROM"
  <2>1. Reach(mapping) = Half
    BY <1>4, SMT DEF Reach
  <2>2. a < Half /\ a + j < Half
    BY <1>1, <2>1, SMT DEF Half
  <2> QED BY <1>1, <1>3, <1>4, <2>2, LoRomShown
<1>5. CASE mapping = "HiROM"
  BY <1>1, <1>3, <1>5, HiRomShown DEF Reach
<1>6. CASE mapping = "ExHiROM"
  BY <1>1, <1>3, <1>6, ExHiRomShown DEF Reach
<1> QED BY <1>4, <1>5, <1>6 DEF Supported

-----------------------------------------------------------------------------
(* The recursion of map_addresses. *)

(* A run of n bytes from offset a stays in one bank, ...                   *)
Whole(mapping, a, n) ==
  ToSnes(mapping, a) \div Bank = (ToSnes(mapping, a) + n) \div Bank

Piece(mapping, a, n) ==
  << [domain |-> "CARTROM", address |-> ToSnes(mapping, a), size |-> n] >>

(* ... or is cut at the bank's end, and the rest is cut by f.              *)
Cut(mapping, f, n) ==
  [a \in Nat |->
    IF Whole(mapping, a, n)
    THEN Piece(mapping, a, n)
    ELSE Piece(mapping, a, Room(mapping, a)) \o f[n - Room(mapping, a)][a + Room(mapping, a)]]

(* f cuts all runs of the sizes in S. *)
Cuts(mapping, f, S) == f = [n \in S |-> Cut(mapping, f, n)]

LEMMA PlaceIsNumber ==
  ASSUME NEW mapping, Supported(mapping), NEW a \in Nat
  PROVE  ToSnes(mapping, a) \in Nat /\ Room(mapping, a) \in Nat \ {0}
<1>1. ToSnes(mapping, a) \in Nat
  BY SMT DEF Supported, ToSnes, Mirror, Half, Bank, Page
<1> QED BY <1>1, SMT DEF Room, Bank

(* What is cut off is something, and never more than there is. *)
LEMMA CutGoesOn ==
  ASSUME NEW mapping, Supported(mapping), NEW a \in Nat, NEW n \in Nat,
         ~Whole(mapping, a, n)
  PROVE  /\ Room(mapping, a) \in Nat \ {0} /\ Room(mapping, a) <= n
         /\ n - Room(mapping, a) \in 0..(n - 1) /\ a + Room(mapping, a) \in Nat
<1> DEFINE s == ToSnes(mapping, a)
<1>1. s \in Nat /\ Room(mapping, a) = Bank - (s % Bank) /\ Room(mapping, a) \in Nat \ {0}
  BY PlaceIsNumber DEF Room
<1>2. s \div Bank # (s + n) \div Bank
  BY DEF Whole
<1> HIDE DEF s
<1>3. Room(mapping, a) <= n
  BY <1>1, <1>2, SMT DEF Bank
<1> QED BY <1>1, <1>3

(* Functions that cut the same sizes cut them alike. *)
LEMMA CutAlike ==
  ASSUME NEW mapping, Supported(mapping), NEW n \in Nat, NEW f, NEW g,
         \A k \in 0..(n - 1) : f[k] = g[k]
  PROVE  Cut(mapping, f, n) = Cut(mapping, g, n)
<1> SUFFICES ASSUME NEW a \in Nat, ~Whole(mapping, a, n)
             PROVE  f[n - Room(mapping, a)] = g[n - Room(mapping, a)]
  BY DEF Cut
<1> QED BY CutGoesOn

LEMMA CutsAgree ==
  ASSUME NEW mapping, Supported(mapping), NEW m \in Nat, NEW t \in Nat, NEW f, NEW g,
         Cuts(mapping, f, 0..m), Cuts(mapping, g, 0..t),
         NEW n \in 0..m, n \in 0..t
  PROVE  f[n] = g[n]
<1> DEFINE Odd == {k \in 0..m : k \in 0..t /\ f[k] # g[k]}
<1> SUFFICES ASSUME Odd # {} PROVE FALSE
  OBVIOUS
<1>1. Odd \in SUBSET Nat
  OBVIOUS
<1>2. PICK k \in Odd : \A j \in Odd : k <= j
  BY <1>1, LeastNumber
<1>3. k \in Nat /\ k \in 0..m /\ k \in 0..t /\ f[k] # g[k]
  OBVIOUS
<1>4. \A j \in 0..(k - 1) : j \in 0..m /\ j \in 0..t /\ ~(k <= j)
  BY <1>3
<1>5. \A j \in 0..(k - 1) : f[j] = g[j]
  BY <1>2, <1>4
<1>6. f[k] = Cut(mapping, f, k) /\ g[k] = Cut(mapping, g, k)
  BY <1>3 DEF Cuts
<1> QED BY <1>3, <1>5, <1>6, CutAlike

(* There is one for all runs of up to m bytes, ... *)
LEMMA CutsExist ==
  ASSUME NEW mapping, Supported(mapping), NEW m \in Nat
  PROVE  \E f : Cuts(mapping, f, 0..m)
<1> DEFINE None == {k \in Nat : ~ \E f : Cuts(mapping, f, 0..k)}
<1> SUFFICES ASSUME None # {} PROVE FALSE
  OBVIOUS
<1>1. PICK k \in None : \A j \in None : k <= j
  BY LeastNumber
<1>2. k \in Nat
  OBVIOUS
<1>3. \E g : \A j \in 0..(k - 1) : g[j] = Cut(mapping, g, j)
  <2>1. CASE k = 0
    BY <2>1
  <2>2. CASE k # 0
    <3>1. k - 1 \in Nat /\ ~(k <= k - 1)
      BY <1>2, <2>2
    <3>2. PICK g : Cuts(mapping, g, 0..(k - 1))
      BY <1>1, <3>1
    <3> QED BY <3>2 DEF Cuts
  <2> QED BY <2>1, <2>2
<1>4. PICK g : \A j \in 0..(k - 1) : g[j] = Cut(mapping, g, j)
  BY <1>3
<1> DEFINE f == [j \in 0..k |-> Cut(mapping, g, j)]
<1>5. \A j \in 0..k : \A i \in 0..(j - 1) : f[i] = g[i]
  <2>1. \A j \in 0..k : \A i \in 0..(j - 1) : i \in 0..k /\ i \in 0..(k - 1)
    BY <1>2
  <2> QED BY <1>4, <2>1
<1>6. \A j \in 0..k : f[j] = Cut(mapping, g, j)
  OBVIOUS
<1>7. f = [j \in 0..k |-> f[j]]
  OBVIOUS
<1> HIDE DEF f
<1>8. \A j \in 0..k : f[j] = Cut(mapping, f, j)
  <2> SUFFICES ASSUME NEW j \in 0..k PROVE f[j] = Cut(mapping, f, j)
    OBVIOUS
  <2>1. j \in Nat /\ \A i \in 0..(j - 1) : f[i] = g[i]
    BY <1>2, <1>5
  <2> QED BY <1>6, <2>1, CutAlike
<1>9. Cuts(mapping, f, 0..k)
  BY <1>7, <1>8 DEF Cuts
<1> QED BY <1>1, <1>9

(* ... and so there is one for all runs.                                   *)
LEMMA AllCutsExist ==
  ASSUME NEW mapping, Supported(mapping)
  PROVE  \E f : Cuts(mapping, f, Nat)
<1> DEFINE g(n) == CHOOSE f : Cuts(mapping, f, 0..n)
           f == [n \in Nat |-> g(n)[n]]
<1>1. \A n \in Nat : Cuts(mapping, g(n), 0..n)
  BY CutsExist
<1> HIDE DEF g
<1>2. \A n \in Nat : f[n] = g(n)[n]
  OBVIOUS
<1>3. f = [n \in Nat |-> f[n]]
  OBVIOUS
<1> HIDE DEF f
<1>4. ASSUME NEW n \in Nat PROVE f[n] = Cut(mapping, f, n)
  <2>1. f[n] = Cut(mapping, g(n), n)
    <3>1. n \in 0..n
      OBVIOUS
    <3> QED BY <1>1, <1>2, <3>1 DEF Cuts
  <2>2. ASSUME NEW k \in 0..(n - 1) PROVE g(n)[k] = f[k]
    <3>1. k \in Nat /\ k \in 0..n /\ k \in 0..k
      OBVIOUS
    <3>2. g(n)[k] = g(k)[k]
      BY <1>1, <3>1, CutsAgree
    <3> QED BY <1>2, <3>1, <3>2
  <2> QED BY <2>1, <2>2, CutAlike
<1>5. Cuts(mapping, f, Nat)
  BY <1>3, <1>4 DEF Cuts
<1> QED BY <1>5

-----------------------------------------------------------------------------
(* Sums of sizes. *)

(* What has sizes to be summed up. *)
Sized(S) == \A e \in S : e.size \in Nat

Sizes(p) == [i \in 1..Len(p) |-> p[i].size]

LEMMA SizesAreNumbers ==
  ASSUME NEW S, Sized(S), NEW p \in Seq(S)
  PROVE  /\ Sizes(p) \in Seq(Nat) /\ Len(Sizes(p)) = Len(p)
         /\ \A i \in 1..Len(p) : Sizes(p)[i] = p[i].size /\ p[i].size \in Nat
         /\ Bytes(p) = SumOf(Sizes(p)) /\ Bytes(p) \in Nat
<1>1. Len(p) \in Nat /\ \A i \in 1..Len(p) : p[i] \in S
  BY ElementOfSeq, LenProperties
<1>2. \A i \in 1..Len(p) : p[i].size \in Nat
  BY <1>1 DEF Sized
<1>3. Sizes(p) \in [1..Len(p) -> Nat]
  BY <1>2 DEF Sizes
<1>4. Sizes(p) \in Seq(Nat) /\ Len(Sizes(p)) = Len(p)
  BY <1>1, <1>3
<1>5. Bytes(p) = SumOf(Sizes(p))
  BY DEF Bytes, Sizes
<1>6. \A i \in 1..Len(p) : Sizes(p)[i] = p[i].size
  BY DEF Sizes
<1> QED BY <1>2, <1>4, <1>5, <1>6, SumIsNumber

LEMMA BytesOfNone == Bytes(<<>>) = 0
<1>1. [i \in 1..Len(<<>>) |-> (<<>>)[i].size] = <<>>
  OBVIOUS
<1> QED BY <1>1, SumOfNone DEF Bytes

LEMMA BytesOfConcat ==
  ASSUME NEW S, Sized(S), NEW p \in Seq(S), NEW q \in Seq(S)
  PROVE  p \o q \in Seq(S) /\ Bytes(p \o q) = Bytes(p) + Bytes(q)
<1> DEFINE r == p \o q
<1>1. /\ r \in Seq(S) /\ Len(r) = Len(p) + Len(q)
      /\ \A i \in 1..Len(p) + Len(q) : r[i] = IF i <= Len(p) THEN p[i] ELSE q[i - Len(p)]
  BY ConcatProperties
<1> HIDE DEF r
<1>2. /\ Sizes(p) \in Seq(Nat) /\ Len(Sizes(p)) = Len(p) /\ Bytes(p) = SumOf(Sizes(p))
      /\ \A i \in 1..Len(p) : Sizes(p)[i] = p[i].size
  BY SizesAreNumbers
<1>3. /\ Sizes(q) \in Seq(Nat) /\ Len(Sizes(q)) = Len(q) /\ Bytes(q) = SumOf(Sizes(q))
      /\ \A i \in 1..Len(q) : Sizes(q)[i] = q[i].size
  BY SizesAreNumbers
<1>4. /\ Sizes(r) \in Seq(Nat) /\ Len(Sizes(r)) = Len(r) /\ Bytes(r) = SumOf(Sizes(r))
      /\ \A i \in 1..Len(r) : Sizes(r)[i] = r[i].size
  BY <1>1, SizesAreNumbers
<1> DEFINE u == Sizes(p)
           v == Sizes(q)
           w == Sizes(r)
<1>5. /\ u \o v \in Seq(Nat) /\ Len(u \o v) = Len(u) + Len(v)
      /\ \A i \in 1..Len(u) + Len(v) : (u \o v)[i] = IF i <= Len(u) THEN u[i] ELSE v[i - Len(u)]
  BY <1>2, <1>3, ConcatProperties
<1> HIDE DEF u, v, w
<1>6. Len(p) \in Nat /\ Len(q) \in Nat
  BY LenProperties
<1>7. ASSUME NEW i \in 1..Len(r) PROVE w[i] = (u \o v)[i]
  <2>1. CASE i <= Len(p)
    <3>1. i \in 1..Len(p)
      BY <1>6, <2>1
    <3>2. w[i] = p[i].size
      BY <1>1, <1>4, <2>1 DEF w
    <3>3. (u \o v)[i] = u[i]
      BY <1>1, <1>2, <1>3, <1>5, <2>1 DEF u, v
    <3> QED BY <1>2, <3>1, <3>2, <3>3 DEF u
  <2>2. CASE ~(i <= Len(p))
    <3>1. i - Len(p) \in 1..Len(q)
      BY <1>1, <1>6, <2>2
    <3>2. w[i] = q[i - Len(p)].size
      BY <1>1, <1>4, <2>2 DEF w
    <3>3. (u \o v)[i] = v[i - Len(p)]
      BY <1>1, <1>2, <1>3, <1>5, <2>2 DEF u, v
    <3> QED BY <1>3, <3>1, <3>2, <3>3 DEF v
  <2> QED BY <2>1, <2>2
<1>8. w = u \o v
  <2>1. w \in Seq(Nat) /\ Len(w) = Len(r) /\ Len(u \o v) = Len(r)
    BY <1>1, <1>2, <1>3, <1>4, <1>5 DEF u, v, w
  <2> QED BY <1>5, <1>7, <2>1, SeqEqual
<1>9. SumOf(u \o v) = SumOf(u) + SumOf(v)
  BY <1>2, <1>3, SumOfConcat DEF u, v
<1> QED BY <1>1, <1>2, <1>3, <1>4, <1>8, <1>9 DEF r, u, v, w

LEMMA BytesOfOne ==
  ASSUME NEW e, e.size \in Nat
  PROVE  Bytes(<<e>>) = e.size
<1>1. [i \in 1..Len(<<e>>) |-> (<<e>>)[i].size] = Append(<<>>, e.size)
  OBVIOUS
<1>2. <<>> \in Seq(Nat)
  OBVIOUS
<1>3. SumOf(Append(<<>>, e.size)) = 0 + e.size
  BY <1>2, SumOfNone, SumOfMore
<1>4. Bytes(<<e>>) = SumOf(Append(<<>>, e.size))
  BY <1>1 DEF Bytes
<1> QED BY <1>3, <1>4

(* The bytes of the first i of a sequence. *)
LEMMA UptoAdds ==
  ASSUME NEW S, Sized(S), NEW l \in Seq(S)
  PROVE  /\ Upto(l, 0) = 0 /\ Upto(l, Len(l)) = Bytes(l)
         /\ \A i \in 0..Len(l) : Upto(l, i) \in Nat
         /\ \A i \in 1..Len(l) : Upto(l, i) = Upto(l, i - 1) + l[i].size
         /\ \A i, j \in 0..Len(l) : i <= j => Upto(l, i) <= Upto(l, j)
<1>2. Len(l) \in Nat /\ \A i \in 1..Len(l) : l[i] \in S /\ l[i].size \in Nat
  BY ElementOfSeq, LenProperties DEF Sized
<1>3. Upto(l, 0) = 0
  <2>1. 1 \in Int /\ 0 \in Int /\ 0 < 1
    OBVIOUS
  <2>2. SubSeq(l, 1, 0) = <<>>
    BY <2>1, SubSeqEmpty
  <2> QED BY <2>2, BytesOfNone DEF Upto
<1>4. Upto(l, Len(l)) = Bytes(l)
  BY SubSeqFull DEF Upto
<1>5. \A m \in 1..(Len(l) + 1), i \in 0..Len(l) :
        SubSeq(l, m, i) \in Seq(S) /\ Bytes(SubSeq(l, m, i)) \in Nat
  <2> SUFFICES ASSUME NEW m \in 1..(Len(l) + 1), NEW i \in 0..Len(l)
               PROVE  SubSeq(l, m, i) \in Seq(S) /\ Bytes(SubSeq(l, m, i)) \in Nat
    OBVIOUS
  <2>1. m \in Int /\ i \in Int /\ \A j \in m..i : l[j] \in S
    BY <1>2
  <2>2. SubSeq(l, m, i) \in Seq(S)
    BY <2>1, SubSeqProperties
  <2> QED BY <2>2, SizesAreNumbers
<1>6. ASSUME NEW i \in 0..Len(l), NEW j \in i..Len(l)
      PROVE  Upto(l, j) = Upto(l, i) + Bytes(SubSeq(l, i + 1, j))
  <2>1. 1 \in 1..(Len(l) + 1) /\ i \in (1 - 1)..Len(l) /\ i + 1 \in 1..(Len(l) + 1)
        /\ j \in 0..Len(l) /\ i \in 0..Len(l)
    BY <1>2
  <2>2. SubSeq(l, 1, i) \o SubSeq(l, i + 1, j) = SubSeq(l, 1, j)
    BY <2>1, ConcatAdjacentSubSeq
  <2>3. SubSeq(l, 1, i) \in Seq(S) /\ SubSeq(l, i + 1, j) \in Seq(S)
    BY <1>5, <2>1
  <2> QED BY <2>2, <2>3, BytesOfConcat DEF Upto
<1>7. \A i \in 0..Len(l) : Upto(l, i) \in Nat
  BY <1>2, <1>5 DEF Upto
<1>8. ASSUME NEW i \in 1..Len(l) PROVE Upto(l, i) = Upto(l, i - 1) + l[i].size
  <2>1. i - 1 \in 0..Len(l) /\ i \in (i - 1)..Len(l) /\ (i - 1) + 1 = i /\ i \in i..Len(l)
        /\ i + 1 \in Int /\ i < i + 1 /\ i \in Int
    BY <1>2
  <2>2. SubSeq(l, i, i) = <<l[i]>>
    <3>1. SubSeq(l, i, i) = <<l[i]>> \o SubSeq(l, i + 1, i)
      BY <2>1, SubSeqRecursiveFirst
    <3>2. SubSeq(l, i + 1, i) = <<>>
      BY <2>1, SubSeqEmpty
    <3>3. <<l[i]>> \in Seq(S)
      BY <1>2
    <3>4. <<l[i]>> \o <<>> = <<l[i]>>
      BY <3>3, ConcatEmptySeq
    <3> QED BY <3>1, <3>2, <3>4
  <2>3. Bytes(SubSeq(l, i, i)) = l[i].size
    BY <1>2, <2>2, BytesOfOne
  <2> QED BY <1>6, <2>1, <2>3
<1>9. ASSUME NEW i \in 0..Len(l), NEW j \in 0..Len(l), i <= j
      PROVE  Upto(l, i) <= Upto(l, j)
  <2>1. j \in i..Len(l) /\ i + 1 \in 1..(Len(l) + 1)
    BY <1>2, <1>9
  <2>2. Upto(l, j) = Upto(l, i) + Bytes(SubSeq(l, i + 1, j)) /\ Upto(l, i) \in Nat
        /\ Bytes(SubSeq(l, i + 1, j)) \in Nat
    BY <1>5, <1>6, <1>7, <2>1
  <2> QED BY <2>2
<1> QED BY <1>3, <1>4, <1>7, <1>8, <1>9

-----------------------------------------------------------------------------
(* Pieces of memory and what they show. *)

Pieces == [domain : {"WRAM", "CARTRAM", "CARTROM"}, address : Nat, size : Nat]

(* Piece e shows the bytes of w from place from up to place to, and stays  *)
(* in one bank if it is of the ROM.                                        *)
PieceShows(mapping, e, w, from, to) ==
  /\ to = from + e.size
  /\ \A j \in 0..(e.size - 1) :
       /\ Shown(mapping, e.domain, Place(e) + j) = w[from + j]
       /\ e.domain = "CARTROM" => (e.address + j) \div Bank = e.address \div Bank

(* The pieces of p, one after the other, show the n bytes of w from place  *)
(* k: off[i] is the place at which the i-th piece begins.                  *)
Shows(mapping, p, w, k, n) ==
  \E off \in [1..(Len(p) + 1) -> Nat] :
    /\ off[1] = k /\ off[Len(p) + 1] = k + n
    /\ \A i \in 1..Len(p) : PieceShows(mapping, p[i], w, off[i], off[i + 1])

LEMMA NoneShow ==
  ASSUME NEW mapping, NEW w, NEW k \in Nat
  PROVE  Shows(mapping, <<>>, w, k, 0)
<1> DEFINE off == [i \in 1..1 |-> k]
<1>1. off \in [1..1 -> Nat] /\ off[1] = k
  OBVIOUS
<1>2. Len(<<>>) = 0 /\ 0 + 1 = 1 /\ k = k + 0 /\ 1..0 = {}
  OBVIOUS
<1> HIDE DEF off
<1> QED BY <1>1, <1>2 DEF Shows

LEMMA OneShows ==
  ASSUME NEW mapping, NEW w, NEW k \in Nat, NEW e \in Pieces,
         PieceShows(mapping, e, w, k, k + e.size)
  PROVE  <<e>> \in Seq(Pieces) /\ Shows(mapping, <<e>>, w, k, e.size)
<1> DEFINE off == [i \in 1..2 |-> IF i = 1 THEN k ELSE k + e.size]
           p == <<e>>
<1>1. e.size \in Nat
  BY DEF Pieces
<1>2. off \in [1..2 -> Nat] /\ off[1] = k /\ off[2] = k + e.size
  BY <1>1
<1>3. p \in Seq(Pieces) /\ Len(p) = 1 /\ p[1] = e
  OBVIOUS
<1> HIDE DEF off, p
<1>4. \A i \in 1..1 : i = 1 /\ i + 1 = 2
  OBVIOUS
<1>5. \A i \in 1..Len(p) : PieceShows(mapping, p[i], w, off[i], off[i + 1])
  BY <1>2, <1>3, <1>4
<1>6. Shows(mapping, p, w, k, e.size)
  BY <1>2, <1>3, <1>5 DEF Shows
<1> QED BY <1>3, <1>6 DEF p

(* Pieces after others go on where these end. *)
LEMMA ConcatShows ==
  ASSUME NEW mapping, NEW w, NEW k \in Nat, NEW m \in Nat, NEW n \in Nat,
         NEW p \in Seq(Pieces), Shows(mapping, p, w, k, m),
         NEW q \in Seq(Pieces), Shows(mapping, q, w, k + m, n)
  PROVE  p \o q \in Seq(Pieces) /\ Shows(mapping, p \o q, w, k, m + n)
<1> DEFINE r == p \o q
           a == Len(p)
           b == Len(q)
<1>1. /\ r \in Seq(Pieces) /\ Len(r) = a + b /\ a \in Nat /\ b \in Nat
      /\ \A i \in 1..(a + b) : r[i] = IF i <= a THEN p[i] ELSE q[i - a]
  BY ConcatProperties, LenProperties
<1>2. PICK f \in [1..(a + 1) -> Nat] :
        /\ f[1] = k /\ f[a + 1] = k + m
        /\ \A i \in 1..a : PieceShows(mapping, p[i], w, f[i], f[i + 1])
  BY DEF Shows
<1>3. PICK g \in [1..(b + 1) -> Nat] :
        /\ g[1] = k + m /\ g[b + 1] = k + m + n
        /\ \A i \in 1..b : PieceShows(mapping, q[i], w, g[i], g[i + 1])
  BY DEF Shows
<1> DEFINE off == [i \in 1..(a + b + 1) |-> IF i <= a THEN f[i] ELSE g[i - a]]
<1> HIDE DEF r, a, b
<1>4. off \in [1..(a + b + 1) -> Nat]
  <2>1. ASSUME NEW i \in 1..(a + b + 1)
        PROVE  (IF i <= a THEN f[i] ELSE g[i - a]) \in Nat
    <3>1. CASE i <= a
      <4>1. i \in 1..(a + 1)
        BY <1>1, <3>1
      <4> QED BY <4>1, <3>1
    <3>2. CASE ~(i <= a)
      <4>1. i - a \in 1..(b + 1)
        BY <1>1, <3>2
      <4> QED BY <4>1, <3>2
    <3> QED BY <3>1, <3>2
  <2> QED BY <2>1
<1>5. \A i \in 1..(a + b + 1) : off[i] = IF i <= a THEN f[i] ELSE g[i - a]
  OBVIOUS
<1> HIDE DEF off
<1>6. ASSUME NEW i \in 1..(a + 1) PROVE off[i] = f[i]
  <2>1. i \in 1..(a + b + 1) /\ i \in Nat
    BY <1>1
  <2>2. CASE i <= a
    BY <1>5, <2>1, <2>2
  <2>3. CASE ~(i <= a)
    <3>1. i = a + 1 /\ i - a = 1
      BY <1>1, <2>1, <2>3
    <3> QED BY <1>2, <1>3, <1>5, <2>1, <2>3, <3>1
  <2> QED BY <2>2, <2>3
<1>7. ASSUME NEW h \in 1..(b + 1) PROVE off[a + h] = g[h]
  <2>1. a + h \in 1..(a + b + 1) /\ ~(a + h <= a) /\ (a + h) - a = h
    BY <1>1
  <2> QED BY <1>5, <2>1
<1>8. off[1] = k /\ off[a + b + 1] = k + (m + n)
  <2>1. 1 \in 1..(a + 1) /\ b + 1 \in 1..(b + 1) /\ a + (b + 1) = a + b + 1
        /\ k + (m + n) = k + m + n
    BY <1>1
  <2>2. off[1] = f[1] /\ off[a + (b + 1)] = g[b + 1]
    BY <1>6, <1>7, <2>1
  <2> QED BY <1>2, <1>3, <2>1, <2>2
<1>9. ASSUME NEW i \in 1..(a + b)
      PROVE  PieceShows(mapping, r[i], w, off[i], off[i + 1])
  <2>1. CASE i <= a
    <3>1. i \in 1..a /\ i \in 1..(a + 1) /\ i + 1 \in 1..(a + 1)
      BY <1>1, <2>1
    <3>2. r[i] = p[i] /\ off[i] = f[i] /\ off[i + 1] = f[i + 1]
      BY <1>1, <1>6, <2>1, <3>1
    <3> QED BY <1>2, <3>1, <3>2
  <2>2. CASE ~(i <= a)
    <3>1. PICK h \in 1..b : h = i - a
      BY <1>1, <2>2
    <3>2. h \in 1..(b + 1) /\ h + 1 \in 1..(b + 1) /\ i = a + h /\ i + 1 = a + (h + 1)
      BY <1>1, <3>1
    <3>3. r[i] = q[h]
      BY <1>1, <2>2, <3>1
    <3>4. off[i] = g[h] /\ off[i + 1] = g[h + 1]
      BY <1>7, <3>2
    <3> QED BY <1>3, <3>3, <3>4
  <2> QED BY <2>1, <2>2
<1>10. Shows(mapping, r, w, k, m + n)
  BY <1>1, <1>4, <1>8, <1>9 DEF Shows
<1> QED BY <1>1, <1>10 DEF r

(* A run of n bytes of ROM from offset a is at place k of w. *)
IsRun(w, k, a, n) ==
  \A j \in 0..(n - 1) : w[k + j] = [domain |-> "CARTROM", offset |-> a + j]

LEMMA PieceShowsRun ==
  ASSUME NEW mapping, Supported(mapping), NEW w, NEW k \in Nat,
         NEW a \in Nat, NEW n \in Nat, Whole(mapping, a, n) \/ n = Room(mapping, a)
  PROVE  /\ Piece(mapping, a, n) \in Seq(Pieces) /\ Bytes(Piece(mapping, a, n)) = n
         /\ a + n <= Reach(mapping) /\ IsRun(w, k, a, n) =>
              Shows(mapping, Piece(mapping, a, n), w, k, n)
<1> DEFINE e == [domain |-> "CARTROM", address |-> ToSnes(mapping, a), size |-> n]
<1>1. e \in Pieces
  BY PlaceIsNumber DEF Pieces
<1>2. Piece(mapping, a, n) = <<e>>
  BY DEF Piece
<1>3. e.address = ToSnes(mapping, a) /\ e.size = n /\ e.domain = "CARTROM"
  OBVIOUS
<1> HIDE DEF e
<1>4. Piece(mapping, a, n) \in Seq(Pieces) /\ Bytes(Piece(mapping, a, n)) = n
  BY <1>1, <1>2, <1>3, BytesOfOne
<1>5. ASSUME a + n <= Reach(mapping), IsRun(w, k, a, n)
      PROVE  PieceShows(mapping, e, w, k, k + e.size)
  <2> SUFFICES ASSUME NEW j \in 0..(n - 1)
               PROVE  /\ Shown(mapping, "CARTROM", ToSnes(mapping, a) + j) = w[k + j]
                      /\ (ToSnes(mapping, a) + j) \div Bank = ToSnes(mapping, a) \div Bank
    BY <1>3 DEF PieceShows, Place
  <2>1. n > 0
    OBVIOUS
  <2>2. /\ RomByte(mapping, ToSnes(mapping, a) + j) = a + j
        /\ (ToSnes(mapping, a) + j) \div Bank = ToSnes(mapping, a) \div Bank
    BY <1>5, <2>1, PieceShown DEF Whole, Room
  <2> QED BY <1>5, <2>2 DEF IsRun, Shown
<1>6. ASSUME a + n <= Reach(mapping), IsRun(w, k, a, n)
      PROVE  Shows(mapping, Piece(mapping, a, n), w, k, n)
  BY <1>1, <1>2, <1>3, <1>5, <1>6, OneShows
<1> QED BY <1>4, <1>6

(* map_addresses gives for any run of ROM pieces that are as long as it in *)
(* all and, where the mapping reaches it, a chain of pieces, none of them  *)
(* across a bank, which show its bytes in order and without a gap.         *)
THEOREM RunShown ==
  ASSUME NEW mapping, Supported(mapping), NEW a \in Nat, NEW n \in Nat
  PROVE  /\ MapRom(mapping, a, n) \in Seq(Pieces)
         /\ Bytes(MapRom(mapping, a, n)) = n
         /\ \A w : \A k \in Nat :
              a + n <= Reach(mapping) /\ IsRun(w, k, a, n) =>
                Shows(mapping, MapRom(mapping, a, n), w, k, n)
<1> DEFINE f == CHOOSE f : Cuts(mapping, f, Nat)
<1>1. Cuts(mapping, f, Nat)
  BY AllCutsExist
<1>2. MapRom(mapping, a, n) = f[n][a]
  BY Zenon DEF MapRom, Cuts, Cut, Whole, Piece, Room
<1> HIDE DEF f
<1> DEFINE Good(m) == \A b \in Nat :
             /\ f[m][b] \in Seq(Pieces) /\ Bytes(f[m][b]) = m
             /\ \A w : \A k \in Nat :
                  b + m <= Reach(mapping) /\ IsRun(w, k, b, m) =>
                    Shows(mapping, f[m][b], w, k, m)
           Odd == {m \in Nat : ~Good(m)}
<1>3. Odd = {}
  <2> SUFFICES ASSUME Odd # {} PROVE FALSE
    OBVIOUS
  <2>1. PICK m \in Odd : \A j \in Odd : m <= j
    BY LeastNumber
  <2>2. m \in Nat
    OBVIOUS
  <2>3. ASSUME NEW b \in Nat
        PROVE  /\ f[m][b] \in Seq(Pieces) /\ Bytes(f[m][b]) = m
               /\ \A w : \A k \in Nat :
                    b + m <= Reach(mapping) /\ IsRun(w, k, b, m) =>
                      Shows(mapping, f[m][b], w, k, m)
    <3> DEFINE x == Room(mapping, b)
    <3>1. f[m][b] = IF Whole(mapping, b, m) THEN Piece(mapping, b, m)
                    ELSE Piece(mapping, b, x) \o f[m - x][b + x]
      <4>1. f[m] = Cut(mapping, f, m)
        BY <1>1, <2>2 DEF Cuts
      <4> QED BY <4>1 DEF Cut
    <3>2. CASE Whole(mapping, b, m)
      <4>1. f[m][b] = Piece(mapping, b, m)
        BY <3>1, <3>2
      <4>2. ASSUME NEW w, NEW k \in Nat
            PROVE  /\ Piece(mapping, b, m) \in Seq(Pieces) /\ Bytes(Piece(mapping, b, m)) = m
                   /\ b + m <= Reach(mapping) /\ IsRun(w, k, b, m) =>
                        Shows(mapping, Piece(mapping, b, m), w, k, m)
        BY <2>2, <3>2, PieceShowsRun
      <4>3. 0 \in Nat
        OBVIOUS
      <4> QED BY <4>1, <4>2, <4>3
    <3>3. CASE ~Whole(mapping, b, m)
      <4>1. x \in Nat \ {0} /\ x <= m /\ m - x \in 0..(m - 1) /\ b + x \in Nat
        BY <2>2, <3>3, CutGoesOn
      <4> DEFINE u == Piece(mapping, b, x)
                 v == f[m - x][b + x]
      <4>2. f[m][b] = u \o v
        BY <3>1, <3>3
      <4>3. /\ u \in Seq(Pieces) /\ Bytes(u) = x
            /\ \A w : \A k \in Nat :
                 b + x <= Reach(mapping) /\ IsRun(w, k, b, x) => Shows(mapping, u, w, k, x)
        <5>1. ASSUME NEW w, NEW k \in Nat
              PROVE  /\ u \in Seq(Pieces) /\ Bytes(u) = x
                     /\ b + x <= Reach(mapping) /\ IsRun(w, k, b, x) =>
                          Shows(mapping, u, w, k, x)
          BY <4>1, PieceShowsRun
        <5>2. 0 \in Nat
          OBVIOUS
        <5> HIDE DEF u, x
        <5> QED BY <5>1, <5>2
      <4> HIDE DEF x
      <4>4. m - x \in Nat /\ ~(m <= m - x) /\ b + x + (m - x) = b + m /\ x + (m - x) = m
        <5>1. m \in Nat /\ b \in Nat /\ x \in Nat /\ x # 0 /\ x <= m
          BY <2>2, <4>1
        <5> HIDE DEF Odd
        <5> QED BY <5>1
      <4>5. Good(m - x)
        BY <2>1, <4>4
      <4>6. /\ v \in Seq(Pieces) /\ Bytes(v) = m - x
            /\ \A w : \A k \in Nat :
                 b + m <= Reach(mapping) /\ IsRun(w, k, b + x, m - x) =>
                   Shows(mapping, v, w, k, m - x)
        BY <4>1, <4>4, <4>5
      <4> HIDE DEF u, v, Good, Odd
      <4>7. f[m][b] \in Seq(Pieces) /\ Bytes(f[m][b]) = m
        <5>1. Sized(Pieces)
          BY DEF Sized, Pieces
        <5> QED BY <4>2, <4>3, <4>4, <4>6, <5>1, BytesOfConcat
      <4>8. ASSUME NEW w, NEW k \in Nat, b + m <= Reach(mapping), IsRun(w, k, b, m)
            PROVE  Shows(mapping, f[m][b], w, k, m)
        <5>1. b + x <= Reach(mapping)
          BY <2>2, <4>1, <4>8 DEF Reach, Mirror, Half
        <5>2. IsRun(w, k, b, x)
          BY <2>2, <4>1, <4>8 DEF IsRun
        <5>3. IsRun(w, k + x, b + x, m - x)
          <6> SUFFICES ASSUME NEW j \in 0..(m - x - 1)
                       PROVE  w[k + x + j] = [domain |-> "CARTROM", offset |-> b + x + j]
            BY DEF IsRun
          <6>1. x + j \in 0..(m - 1) /\ k + x + j = k + (x + j) /\ b + x + j = b + (x + j)
            BY <2>2, <4>1
          <6> QED BY <4>8, <6>1 DEF IsRun
        <5>4. Shows(mapping, u, w, k, x) /\ Shows(mapping, v, w, k + x, m - x)
          BY <4>1, <4>3, <4>6, <4>8, <5>1, <5>2, <5>3
        <5>5. x \in Nat /\ m - x \in Nat
          BY <4>1, <4>4
        <5>6. Shows(mapping, u \o v, w, k, x + (m - x))
          BY <4>3, <4>6, <5>4, <5>5, ConcatShows
        <5> QED BY <4>2, <4>4, <5>6
      <4> QED BY <4>7, <4>8
    <3> QED BY <3>2, <3>3
  <2> QED BY <2>3
<1>4. Good(n)
  BY <1>3
<1> QED BY <1>2, <1>4

-----------------------------------------------------------------------------
(* The addresses of a transfer. *)

AddressInfos == [address : Nat, size : Nat]

LEMMA InfosAreSized == Sized(AddressInfos)
BY DEF Sized, AddressInfos

(* The bytes of a transfer in their order are those of its first address,  *)
(* then of its second, and so on.                                          *)
LEMMA WantedByAddress ==
  ASSUME NEW l \in Seq(AddressInfos), NEW i \in 1..Len(l),
         NEW x \in Nat, x < l[i].size
  PROVE  Wanted(l, Upto(l, i - 1) + x)
           = [domain |-> Domain(l[i].address), offset |-> Offset(l[i].address) + x]
<1> DEFINE k == Upto(l, i - 1) + x
           S == {j \in 1..Len(l) : Upto(l, j) > k}
<1>1. \A j \in 1..Len(l) : j \in 0..Len(l) /\ j - 1 \in 0..Len(l)
  BY LenProperties
<1>2. S = {j \in 1..Len(l) : Upto(l, j) > k}
  OBVIOUS
<1>3. Upto(l, i - 1) \in Nat /\ Upto(l, i) = Upto(l, i - 1) + l[i].size /\ k \in Nat
  BY <1>1, UptoAdds, InfosAreSized
<1>4. l[i].size \in Nat /\ l[i].address \in Nat
  <2>1. l[i] \in AddressInfos
    BY ElementOfSeq
  <2> QED BY <2>1 DEF AddressInfos
<1> HIDE DEF k
<1>5. Upto(l, i) > k /\ Upto(l, i - 1) <= k
  BY <1>3, <1>4 DEF k
<1> HIDE DEF S
<1>6. i \in S
  BY <1>2, <1>5
<1>7. \A j \in S : j \in 1..Len(l) /\ i <= j
  <2> SUFFICES ASSUME NEW j \in 1..Len(l), Upto(l, j) > k, ~(i <= j) PROVE FALSE
    BY <1>2
  <2>1. j <= i - 1
    BY LenProperties
  <2>2. Upto(l, j) <= Upto(l, i - 1) /\ Upto(l, j) \in Nat
    BY <1>1, <2>1, UptoAdds, InfosAreSized
  <2> QED BY <1>3, <1>5, <2>2
<1>8. Min(S) = i
  <2>1. \A y \in S : (\A j \in S : y <= j) => y = i
    <3> SUFFICES ASSUME NEW y \in S, y <= i PROVE y = i
      BY <1>6
    <3> QED BY <1>7, LenProperties
  <2>2. Min(S) \in S /\ \A j \in S : Min(S) <= j
    <3>1. \E y \in S : \A j \in S : y <= j
      BY <1>6, <1>7
    <3> QED BY <3>1 DEF Min
  <2> QED BY <2>1, <2>2
<1>9. Wanted(l, k) = [domain |-> Domain(l[i].address),
                      offset |-> Offset(l[i].address) + k - Upto(l, i - 1)]
  BY <1>8 DEF Wanted, S
<1>10. Offset(l[i].address) \in Nat
  BY <1>4 DEF Offset, Domain, CartRam, Wram
<1>11. Offset(l[i].address) + k - Upto(l, i - 1) = Offset(l[i].address) + x
  BY <1>3, <1>10 DEF k
<1> QED BY <1>9, <1>11 DEF k

(* One address of map_addresses. *)
Mapped(e) ==
  IF Domain(e.address) = "CARTROM"
  THEN MapRom(rom_mapping, e.address, e.size)
  ELSE << [domain |-> Domain(e.address), address |-> Offset(e.address), size |-> e.size] >>

(* There is memory for all of it. *)
Reaches(e) ==
  LET end == Offset(e.address) + e.size IN
  CASE Domain(e.address) = "CARTROM" -> end <= Reach(rom_mapping)
    [] Domain(e.address) = "WRAM" -> end <= 131072
    [] OTHER -> TRUE

LEMMA AddressTypes ==
  ASSUME NEW a \in Nat
  PROVE  /\ Domain(a) \in {"WRAM", "CARTRAM", "CARTROM"} /\ Offset(a) \in Nat
         /\ Domain(a) = "CARTROM" => Offset(a) = a
<1>1. CASE a < CartRam
  <2>1. Domain(a) = "CARTROM"
    BY <1>1 DEF Domain, CartRam, Wram
  <2> QED BY <2>1, <1>1 DEF Offset
<1>2. CASE a >= CartRam /\ a < Wram
  <2>1. Domain(a) = "CARTRAM"
    BY <1>2 DEF Domain, CartRam, Wram
  <2> QED BY <2>1, <1>2 DEF Offset, CartRam
<1>3. CASE a >= Wram
  <2>1. Domain(a) = "WRAM"
    BY <1>3 DEF Domain, CartRam, Wram
  <2> QED BY <2>1, <1>3 DEF Offset, Wram
<1> QED BY <1>1, <1>2, <1>3 DEF CartRam, Wram

LEMMA MappedShows ==
  ASSUME NEW e \in AddressInfos, Domain(e.address) = "CARTROM" => Supported(rom_mapping)
  PROVE  /\ Mapped(e) \in Seq(Pieces) /\ Bytes(Mapped(e)) = e.size
         /\ \A w : \A k \in Nat :
              /\ Reaches(e)
              /\ \A x \in Nat : x < e.size =>
                   w[k + x] = [domain |-> Domain(e.address), offset |-> Offset(e.address) + x]
              => Shows(rom_mapping, Mapped(e), w, k, e.size)
<1>1. e.address \in Nat /\ e.size \in Nat
  BY DEF AddressInfos
<1>2. CASE Domain(e.address) = "CARTROM"
  <2>1. Mapped(e) = MapRom(rom_mapping, e.address, e.size) /\ Offset(e.address) = e.address
    BY <1>1, <1>2, AddressTypes DEF Mapped
  <2> DEFINE p == MapRom(rom_mapping, e.address, e.size)
  <2>0. /\ p \in Seq(Pieces) /\ Bytes(p) = e.size
        /\ \A w : \A k \in Nat :
             e.address + e.size <= Reach(rom_mapping) /\ IsRun(w, k, e.address, e.size) =>
               Shows(rom_mapping, p, w, k, e.size)
    <3>1. Supported(rom_mapping)
      BY <1>2
    <3> QED BY <1>1, <3>1, RunShown
  <2> HIDE DEF p
  <2>2. ASSUME NEW w, NEW k \in Nat, Reaches(e),
               \A x \in Nat : x < e.size =>
                   w[k + x] = [domain |-> Domain(e.address), offset |-> Offset(e.address) + x]
        PROVE  Shows(rom_mapping, p, w, k, e.size)
    <3>1. e.address + e.size <= Reach(rom_mapping)
      BY <1>2, <2>1, <2>2 DEF Reaches
    <3>2. \A j \in 0..(e.size - 1) : j \in Nat /\ j < e.size
      BY <1>1
    <3>3. IsRun(w, k, e.address, e.size)
      BY <1>2, <2>1, <2>2, <3>2 DEF IsRun
    <3> QED BY <2>0, <3>1, <3>3
  <2>3. Mapped(e) = p
    BY <2>1 DEF p
  <2> QED BY <2>0, <2>2, <2>3
<1>3. CASE Domain(e.address) # "CARTROM"
  <2> DEFINE q == [domain |-> Domain(e.address), address |-> Offset(e.address), size |-> e.size]
  <2>1. q \in Pieces
    BY <1>1, AddressTypes DEF Pieces
  <2>2. q.domain = Domain(e.address) /\ q.address = Offset(e.address) /\ q.size = e.size
    OBVIOUS
  <2>3. Mapped(e) = <<q>>
    BY <1>3 DEF Mapped
  <2> HIDE DEF q
  <2>4. Mapped(e) \in Seq(Pieces) /\ Bytes(Mapped(e)) = e.size
    BY <1>1, <2>1, <2>2, <2>3, BytesOfOne
  <2>5. ASSUME NEW w, NEW k \in Nat, Reaches(e),
               \A x \in Nat : x < e.size =>
                   w[k + x] = [domain |-> Domain(e.address), offset |-> Offset(e.address) + x]
        PROVE  Shows(rom_mapping, Mapped(e), w, k, e.size)
    <3>1. ASSUME NEW j \in 0..(q.size - 1)
          PROVE  Shown(rom_mapping, q.domain, Place(q) + j) = w[k + j]
      <4>1. j \in Nat /\ j < e.size /\ q.address \in Nat
        BY <1>1, <2>1, <2>2 DEF Pieces
      <4>2. w[k + j] = [domain |-> q.domain, offset |-> q.address + j]
        BY <2>2, <2>5, <4>1
      <4>3. CASE q.domain = "WRAM"
        <5>1. q.address + e.size <= 131072
          BY <2>2, <2>5, <4>3 DEF Reaches
        <5>2. Place(q) + j < 131072 /\ Place(q) = q.address
          BY <1>1, <4>1, <4>3, <5>1 DEF Place
        <5> QED BY <4>2, <4>3, <5>2 DEF Shown
      <4>4. CASE q.domain = "CARTRAM"
        <5> DEFINE z == Place(q) + j
        <5>1. ~(z < 131072) /\ z - 131072 = q.address + j
          BY <4>1, <4>4 DEF Place
        <5> HIDE DEF z
        <5>2. Shown(rom_mapping, q.domain, z) = [domain |-> "CARTRAM", offset |-> z - 131072]
          BY <4>4, <5>1 DEF Shown
        <5> QED BY <4>2, <4>4, <5>1, <5>2 DEF z
      <4>5. q.domain = "WRAM" \/ q.domain = "CARTRAM"
        <5>1. Domain(e.address) \in {"WRAM", "CARTRAM", "CARTROM"}
          BY <1>1, AddressTypes
        <5> QED BY <1>3, <2>2, <5>1
      <4> QED BY <4>3, <4>4, <4>5
    <3>2. PieceShows(rom_mapping, q, w, k, k + q.size)
      BY <1>3, <2>2, <3>1 DEF PieceShows
    <3> QED BY <2>1, <2>2, <2>3, <3>2, OneShows
  <2> QED BY <2>4, <2>5
<1> QED BY <1>2, <1>3

(* The fold of FlattenSeq over the first n of some sequences.              *)
Flattens(f, seqs, n) ==
  f = [i \in 1..n |-> IF i = 1 THEN seqs[i] ELSE f[i - 1] \o seqs[i]]

LEMMA FlatteningExists ==
  ASSUME NEW seqs, NEW m \in Nat
  PROVE  \E f : Flattens(f, seqs, m)
<1> DEFINE None == {n \in Nat : ~ \E f : Flattens(f, seqs, n)}
<1> SUFFICES ASSUME None # {} PROVE FALSE
  OBVIOUS
<1>1. PICK n \in None : \A k \in None : n <= k
  BY LeastNumber
<1>2. CASE n = 0
  <2> DEFINE f == [i \in 1..0 |-> 0]
  <2>1. f = [i \in 1..0 |-> IF i = 1 THEN seqs[i] ELSE f[i - 1] \o seqs[i]]
    OBVIOUS
  <2> HIDE DEF f
  <2> QED BY <1>1, <1>2, <2>1 DEF Flattens
<1>3. CASE n # 0
  <2>1. n - 1 \in Nat /\ ~(n <= n - 1) /\ n \in Nat
    BY <1>3
  <2>2. PICK g : Flattens(g, seqs, n - 1)
    BY <1>1, <2>1
  <2> DEFINE f == [i \in 1..n |-> IF i = 1 THEN seqs[i] ELSE g[i - 1] \o seqs[i]]
  <2>3. \A i \in 1..n : f[i] = IF i = 1 THEN seqs[i] ELSE g[i - 1] \o seqs[i]
    OBVIOUS
  <2>4. f = [i \in 1..n |-> f[i]]
    OBVIOUS
  <2> HIDE DEF f
  <2>5. \A i \in 1..(n - 1) : i \in 1..n
    BY <2>1
  <2>6. \A i \in 1..(n - 1) : f[i] = g[i]
    <3>1. \A i \in 1..(n - 1) : g[i] = IF i = 1 THEN seqs[i] ELSE g[i - 1] \o seqs[i]
      BY <2>2 DEF Flattens
    <3> QED BY <2>3, <2>5, <3>1
  <2>7. \A i \in 1..n : i # 1 => f[i - 1] = g[i - 1]
    <3>1. \A i \in 1..n : i # 1 => i - 1 \in 1..(n - 1)
      BY <2>1
    <3> QED BY <2>6, <3>1
  <2>8. \A i \in 1..n : f[i] = IF i = 1 THEN seqs[i] ELSE f[i - 1] \o seqs[i]
    BY <2>3, <2>7
  <2>9. Flattens(f, seqs, n)
    BY <2>4, <2>8 DEF Flattens
  <2>10. \E h : Flattens(h, seqs, n)
    BY <2>9
  <2> QED BY <1>1, <2>10
<1> QED BY <1>2, <1>3

WantedOf(l) == [k \in Nat |-> Wanted(l, k)]

(* map_addresses gives for any list of addresses pieces that are as long   *)
(* as it in all and, where there is memory for all of it, show the bytes   *)
(* that it asks for, in order.                                             *)
THEOREM TransferShown ==
  ASSUME NEW l \in Seq(AddressInfos), Mappable(l)
  PROVE  /\ MapAddresses(l) \in Seq(Pieces) /\ Bytes(MapAddresses(l)) = Bytes(l)
         /\ InReach(l) => Shows(rom_mapping, MapAddresses(l), WantedOf(l), 0, Bytes(l))
<1> DEFINE seqs == [i \in 1..Len(l) |-> Mapped(l[i])]
<1>1. MapAddresses(l) = FlattenSeq(seqs)
  BY DEF MapAddresses, Mapped
<1>2. Len(seqs) = Len(l) /\ \A i \in 1..Len(l) : seqs[i] = Mapped(l[i])
  BY LenProperties
<1> HIDE DEF seqs
<1>3. Sized(Pieces)
  BY DEF Sized, Pieces
<1>4. CASE Len(l) = 0
  <2>1. l = <<>> /\ seqs = <<>>
    BY <1>4, EmptySeq DEF seqs
  <2>2. MapAddresses(l) = <<>>
    BY <1>1, <1>2, <1>4, <2>1 DEF FlattenSeq
  <2>3. <<>> \in Seq(Pieces)
    OBVIOUS
  <2>4. Shows(rom_mapping, <<>>, WantedOf(<<>>), 0, 0)
    BY NoneShow
  <2> QED BY <2>1, <2>2, <2>3, <2>4, BytesOfNone
<1>5. CASE Len(l) # 0
  <2> DEFINE f == CHOOSE f : Flattens(f, seqs, Len(l))
             n == Len(l)
             w == WantedOf(l)
  <2>1. Flattens(f, seqs, n) /\ n \in Nat
    BY FlatteningExists, LenProperties
  <2>2. MapAddresses(l) = f[n]
    BY <1>1, <1>2, <1>5 DEF FlattenSeq, Flattens
  <2> HIDE DEF f, n, w
  <2> DEFINE Good(i) == /\ f[i] \in Seq(Pieces) /\ Bytes(f[i]) = Upto(l, i)
                        /\ InReach(l) => Shows(rom_mapping, f[i], w, 0, Upto(l, i))
             Odd == {i \in 1..n : ~Good(i)}
  <2>3. ASSUME NEW i \in 1..n
        PROVE  /\ seqs[i] \in Seq(Pieces) /\ Bytes(seqs[i]) = l[i].size
               /\ InReach(l) => Shows(rom_mapping, seqs[i], w, Upto(l, i - 1), l[i].size)
    <3>1. i \in 1..Len(l) /\ l[i] \in AddressInfos /\ seqs[i] = Mapped(l[i]) /\ i - 1 \in 0..Len(l)
      BY <1>2, <2>1, ElementOfSeq DEF n
    <3>2. Domain(l[i].address) = "CARTROM" => Supported(rom_mapping)
      BY <3>1 DEF Mappable
    <3>3. InReach(l) => Reaches(l[i])
      BY <3>1 DEF InReach, Reaches
    <3>4. Upto(l, i - 1) \in Nat
      BY <3>1, UptoAdds, InfosAreSized
    <3>5. \A x \in Nat : x < l[i].size =>
            w[Upto(l, i - 1) + x]
              = [domain |-> Domain(l[i].address), offset |-> Offset(l[i].address) + x]
      <4>1. \A x \in Nat : w[Upto(l, i - 1) + x] = Wanted(l, Upto(l, i - 1) + x)
        BY <3>4 DEF w, WantedOf
      <4> QED BY <3>1, <4>1, WantedByAddress
    <3>6. /\ Mapped(l[i]) \in Seq(Pieces) /\ Bytes(Mapped(l[i])) = l[i].size
          /\ \A v : \A k \in Nat :
               /\ Reaches(l[i])
               /\ \A x \in Nat : x < l[i].size =>
                    v[k + x] = [domain |-> Domain(l[i].address),
                                offset |-> Offset(l[i].address) + x]
               => Shows(rom_mapping, Mapped(l[i]), v, k, l[i].size)
      BY <3>1, <3>2, MappedShows
    <3> QED BY <3>1, <3>3, <3>4, <3>5, <3>6
  <2>4. \A i \in 1..n : f[i] = IF i = 1 THEN seqs[i] ELSE f[i - 1] \o seqs[i]
    BY <2>1 DEF Flattens
  <2>5. Odd = {}
    <3> SUFFICES ASSUME Odd # {} PROVE FALSE
      OBVIOUS
    <3>1. Odd \in SUBSET Nat
      OBVIOUS
    <3>2. PICK i \in Odd : \A j \in Odd : i <= j
      BY <3>1, LeastNumber
    <3>3. i \in 1..n /\ ~Good(i)
      OBVIOUS
    <3> HIDE DEF Odd
    <3>4. i \in 1..Len(l) /\ i - 1 \in 0..Len(l) /\ i \in Nat
      BY <2>1, <3>3 DEF n
    <3>5. /\ Upto(l, i - 1) \in Nat /\ l[i].size \in Nat
          /\ Upto(l, i) = Upto(l, i - 1) + l[i].size
      <4>1. l[i].size \in Nat
        <5>1. l[i] \in AddressInfos
          BY <3>4, ElementOfSeq
        <5> QED BY <5>1 DEF AddressInfos
      <4> QED BY <3>4, <4>1, UptoAdds, InfosAreSized
    <3>6. CASE i = 1
      <4>1. Upto(l, i - 1) = 0 /\ Upto(l, i) = l[i].size
        BY <3>5, <3>6, UptoAdds, InfosAreSized
      <4>2. f[i] = seqs[i]
        BY <2>4, <3>3, <3>6
      <4> QED BY <2>3, <3>3, <4>1, <4>2
    <3>7. CASE i # 1
      <4>1. i - 1 \in 1..n /\ ~(i <= i - 1)
        BY <2>1, <3>3, <3>7
      <4>2. Good(i - 1)
        BY <3>2, <4>1 DEF Odd
      <4>3. f[i] = f[i - 1] \o seqs[i]
        BY <2>4, <3>3, <3>7
      <4> DEFINE p == f[i - 1]
                 q == seqs[i]
                 k == Upto(l, i - 1)
                 m == l[i].size
      <4>4. /\ p \in Seq(Pieces) /\ Bytes(p) = k
            /\ InReach(l) => Shows(rom_mapping, p, w, 0, k)
        BY <4>2
      <4>5. /\ q \in Seq(Pieces) /\ Bytes(q) = m
            /\ InReach(l) => Shows(rom_mapping, q, w, k, m)
        BY <2>3, <3>3
      <4>6. f[i] = p \o q /\ k \in Nat /\ m \in Nat /\ Upto(l, i) = k + m /\ 0 + k = k /\ 0 \in Nat
        BY <3>5, <4>3
      <4> HIDE DEF p, q, k, m
      <4>7. p \o q \in Seq(Pieces) /\ Bytes(p \o q) = k + m
        BY <1>3, <4>4, <4>5, BytesOfConcat
      <4>8. InReach(l) => Shows(rom_mapping, p \o q, w, 0, k + m)
        BY <4>4, <4>5, <4>6, ConcatShows
      <4> QED BY <3>3, <4>6, <4>7, <4>8
    <3> QED BY <3>6, <3>7
  <2>6. Good(n)
    <3>1. n \in 1..n
      BY <1>5, <2>1 DEF n
    <3> QED BY <2>5, <3>1
  <2>7. Upto(l, n) = Bytes(l)
    BY UptoAdds, InfosAreSized DEF n
  <2> QED BY <2>2, <2>6, <2>7 DEF w
<1> QED BY <1>4, <1>5

-----------------------------------------------------------------------------
(* The loop over the pieces. *)

LEMMA PiecesAreSized == Sized(Pieces)
BY DEF Sized, Pieces

LEMMA MinChooses ==
  ASSUME NEW T \in SUBSET Nat, T # {}
  PROVE  Min(T) \in T /\ \A x \in T : Min(T) <= x
<1>1. \E x \in T : \A y \in T : x <= y
  BY LeastNumber
<1> QED BY <1>1 DEF Min

(* Pieces of no bytes may be dropped. *)
LEMMA EmptyDropped ==
  ASSUME NEW p \in Seq(Pieces), NEW i \in 1..Len(p),
         \A j \in 1..(i - 1) : p[j].size = 0
  PROVE  LET q == SubSeq(p, i, Len(p)) IN
         /\ q \in Seq(Pieces) /\ q # <<>> /\ Head(q) = p[i] /\ Bytes(q) = Bytes(p)
         /\ \A mapping, w, k, n :
              Shows(mapping, p, w, k, n) => Shows(mapping, q, w, k, n)
<1> DEFINE q == SubSeq(p, i, Len(p))
           a == Len(p)
<1>1. a \in Nat /\ i \in Nat /\ 1 <= i /\ i <= a /\ \A j \in 1..a : p[j] \in Pieces
  BY ElementOfSeq, LenProperties
<1>2. /\ q \in Seq(Pieces) /\ Len(q) = a - i + 1
      /\ \A h \in 1..(a - i + 1) : q[h] = p[i + h - 1]
  <2>1. \A j \in i..a : p[j] \in Pieces
    BY <1>1
  <2> QED BY <1>1, <2>1, SubSeqProperties
<1>3. q # <<>> /\ Head(q) = p[i]
  <2>1. q[1] = p[i] /\ Len(q) # 0
    BY <1>1, <1>2
  <2> HIDE DEF q
  <2> QED BY <1>2, <2>1
<1>4. \A j \in 0..(i - 1) : Upto(p, j) = 0
  <2> DEFINE Odd == {j \in 0..(i - 1) : Upto(p, j) # 0}
  <2> SUFFICES ASSUME Odd # {} PROVE FALSE
    OBVIOUS
  <2>1. Odd \in SUBSET Nat
    BY <1>1
  <2>2. PICK j \in Odd : \A h \in Odd : j <= h
    BY <2>1, LeastNumber
  <2>3. j \in 0..(i - 1) /\ Upto(p, j) # 0
    OBVIOUS
  <2>4. j # 0
    BY <2>3, PiecesAreSized, UptoAdds
  <2>5. j \in 1..Len(p) /\ j \in 1..(i - 1) /\ j - 1 \in 0..(i - 1) /\ ~(j <= j - 1)
    BY <1>1, <2>3, <2>4
  <2>6. Upto(p, j - 1) = 0
    BY <2>2, <2>5
  <2>7. Upto(p, j) = Upto(p, j - 1) + p[j].size
    BY <2>5, PiecesAreSized, UptoAdds
  <2> QED BY <2>3, <2>5, <2>6, <2>7
<1>5. Bytes(q) = Bytes(p)
  <2> DEFINE z == SubSeq(p, 1, i - 1)
  <2>1. z \o q = p
    <3>1. 1 \in 1..(a + 1) /\ i - 1 \in (1 - 1)..a /\ a \in (i - 1)..a /\ (i - 1) + 1 = i
      BY <1>1
    <3>2. SubSeq(p, 1, i - 1) \o SubSeq(p, (i - 1) + 1, a) = SubSeq(p, 1, a)
      BY <3>1, ConcatAdjacentSubSeq
    <3>3. SubSeq(p, 1, a) = p
      BY SubSeqFull
    <3> QED BY <3>1, <3>2, <3>3
  <2>2. z \in Seq(Pieces)
    <3>1. \A j \in 1..(i - 1) : p[j] \in Pieces
      BY <1>1
    <3> QED BY <1>1, <3>1, SubSeqProperties
  <2>3. Bytes(z) = 0
    <3>1. i - 1 \in 0..(i - 1)
      BY <1>1
    <3> QED BY <1>4, <3>1 DEF Upto
  <2> HIDE DEF z, q
  <2>4. Bytes(p) = Bytes(z) + Bytes(q) /\ Bytes(q) \in Nat
    BY <1>2, <2>1, <2>2, PiecesAreSized, BytesOfConcat, SizesAreNumbers
  <2> QED BY <2>3, <2>4
<1>6. ASSUME NEW mapping, NEW w, NEW k, NEW n, Shows(mapping, p, w, k, n)
      PROVE  Shows(mapping, q, w, k, n)
  <2>1. PICK f \in [1..(a + 1) -> Nat] :
          /\ f[1] = k /\ f[a + 1] = k + n
          /\ \A h \in 1..a : PieceShows(mapping, p[h], w, f[h], f[h + 1])
    BY <1>6 DEF Shows
  <2>2. \A j \in 1..i : f[j] = k
    <3> DEFINE Odd == {j \in 1..i : f[j] # k}
    <3> SUFFICES ASSUME Odd # {} PROVE FALSE
      OBVIOUS
    <3>1. Odd \in SUBSET Nat
      BY <1>1
    <3>2. PICK j \in Odd : \A h \in Odd : j <= h
      BY <3>1, LeastNumber
    <3>3. j \in 1..i /\ f[j] # k
      OBVIOUS
    <3>4. j # 1
      BY <2>1, <3>3
    <3>5. /\ j - 1 \in 1..i /\ ~(j <= j - 1) /\ j - 1 \in 1..(i - 1) /\ j - 1 \in 1..a
          /\ (j - 1) + 1 = j /\ j - 1 \in 1..(a + 1)
      BY <1>1, <3>3, <3>4
    <3>6. f[j - 1] = k
      BY <3>2, <3>5
    <3>7. f[j] = f[j - 1] + p[j - 1].size
      BY <2>1, <3>5 DEF PieceShows
    <3>8. p[j - 1].size = 0 /\ f[j - 1] \in Nat
      BY <2>1, <3>5
    <3> QED BY <3>3, <3>6, <3>7, <3>8
  <2> DEFINE off == [h \in 1..(a - i + 2) |-> f[i + h - 1]]
  <2>3. \A h \in 1..(a - i + 2) : off[h] = f[i + h - 1] /\ i + h - 1 \in 1..(a + 1)
    BY <1>1
  <2>4. off \in [1..(a - i + 2) -> Nat]
    BY <2>3
  <2> HIDE DEF off, q, a
  <2>5. off[1] = k /\ off[a - i + 2] = k + n
    <3>1. /\ 1 \in 1..(a - i + 2) /\ a - i + 2 \in 1..(a - i + 2) /\ i + 1 - 1 = i
          /\ i + (a - i + 2) - 1 = a + 1 /\ i \in 1..i
      BY <1>1
    <3> QED BY <2>1, <2>2, <2>3, <3>1
  <2>6. ASSUME NEW h \in 1..(a - i + 1)
        PROVE  PieceShows(mapping, q[h], w, off[h], off[h + 1])
    <3>1. /\ h \in 1..(a - i + 2) /\ h + 1 \in 1..(a - i + 2) /\ i + h - 1 \in 1..a
          /\ i + (h + 1) - 1 = (i + h - 1) + 1
      BY <1>1
    <3>2. q[h] = p[i + h - 1] /\ off[h] = f[i + h - 1] /\ off[h + 1] = f[(i + h - 1) + 1]
      BY <1>2, <2>3, <3>1
    <3> QED BY <2>1, <3>1, <3>2
  <2>7. Len(q) = a - i + 1 /\ Len(q) + 1 = a - i + 2
    BY <1>1, <1>2
  <2> QED BY <2>4, <2>5, <2>6, <2>7 DEF Shows
<1> HIDE DEF q
<1>7. /\ q \in Seq(Pieces) /\ q # <<>> /\ Head(q) = p[i] /\ Bytes(q) = Bytes(p)
      /\ \A mapping, w, k, n :
           Shows(mapping, p, w, k, n) => Shows(mapping, q, w, k, n)
  BY <1>2, <1>3, <1>5, <1>6
<1> QED BY <1>7 DEF q

LEMMA NothingLeft ==
  ASSUME NEW p \in Seq(Pieces), \A i \in 1..Len(p) : p[i].size = 0
  PROVE  Bytes(p) = 0
<1>1. CASE Len(p) = 0
  <2>1. p = <<>>
    BY <1>1, EmptySeq
  <2> QED BY <2>1, BytesOfNone
<1>2. CASE Len(p) # 0
  <2>1. Len(p) \in 1..Len(p) /\ Len(p) \in Nat
    BY <1>2, LenProperties
  <2>2. \A j \in 1..(Len(p) - 1) : p[j].size = 0
    BY <2>1
  <2> DEFINE q == SubSeq(p, Len(p), Len(p))
  <2>3. q \in Seq(Pieces) /\ Bytes(q) = Bytes(p)
    BY <2>1, <2>2, EmptyDropped
  <2>4. q = <<p[Len(p)]>>
    <3>1. SubSeq(p, Len(p), Len(p)) = <<p[Len(p)]>> \o SubSeq(p, Len(p) + 1, Len(p))
      BY <2>1, SubSeqRecursiveFirst
    <3>2. SubSeq(p, Len(p) + 1, Len(p)) = <<>>
      BY <2>1, SubSeqEmpty
    <3>3. <<p[Len(p)]>> \in Seq(Pieces)
      BY <2>1, ElementOfSeq
    <3> QED BY <3>1, <3>2, <3>3, ConcatEmptySeq
  <2>5. Bytes(q) = p[Len(p)].size
    BY <2>1, <2>4, BytesOfOne
  <2> QED BY <2>1, <2>3, <2>5
<1> QED BY <1>1, <1>2

(* Where the loop stands after GoesOn: at its end, at a piece that it may  *)
(* not touch, or at the next piece with bytes.                             *)
LEMMA GoesOnStands ==
  ASSUME NEW p \in Seq(Pieces), NEW busy, NEW finished, GoesOn(p, busy, finished)
  PROVE  \/ phase' = finished /\ plan' = <<>> /\ Bytes(p) = 0
         \/ phase' = "ended" /\ ~rom_access /\ plan' \in Seq(Pieces)
         \/ /\ phase' = busy /\ plan' \in Seq(Pieces) /\ plan' # <<>>
            /\ Head(plan').size > 0 /\ Bytes(plan') = Bytes(p)
            /\ \A mapping, w, k, n :
                 Shows(mapping, p, w, k, n) => Shows(mapping, plan', w, k, n)
<1>1. \A i \in 1..Len(p) : p[i] \in Pieces /\ p[i].size \in Nat
  <2>1. \A i \in 1..Len(p) : p[i] \in Pieces
    BY ElementOfSeq
  <2> QED BY <2>1 DEF Pieces
<1>2. CASE Stops(p) = {}
  <2>1. \A i \in 1..Len(p) : p[i].size = 0
    BY <1>1, <1>2 DEF Stops
  <2> QED BY <1>2, <2>1, NothingLeft DEF GoesOn
<1>3. CASE Stops(p) # {}
  <2> DEFINE i == Min(Stops(p))
  <2>1. Stops(p) \in SUBSET Nat /\ Stops(p) \in SUBSET (1..Len(p))
    BY DEF Stops
  <2>2. i \in Stops(p) /\ \A j \in Stops(p) : i <= j
    BY <1>3, <2>1, MinChooses
  <2>3. plan' = SubSeq(p, i, Len(p)) /\ phase' = IF Refused(p[i]) THEN "ended" ELSE busy
    BY <1>3 DEF GoesOn
  <2> HIDE DEF i
  <2>4. i \in 1..Len(p) /\ (p[i].size > 0 \/ Refused(p[i]))
    BY <2>2 DEF Stops
  <2>5. \A j \in 1..(i - 1) : p[j].size = 0
    <3> SUFFICES ASSUME NEW j \in 1..(i - 1) PROVE p[j].size = 0
      OBVIOUS
    <3>1. j \in 1..Len(p) /\ ~(i <= j)
      BY <2>4, LenProperties
    <3>2. ~(p[j].size > 0)
      BY <2>2, <3>1 DEF Stops
    <3> QED BY <1>1, <3>1, <3>2
  <2>6. /\ plan' \in Seq(Pieces) /\ plan' # <<>> /\ Head(plan') = p[i] /\ Bytes(plan') = Bytes(p)
        /\ \A mapping, w, k, n :
             Shows(mapping, p, w, k, n) => Shows(mapping, plan', w, k, n)
    BY <2>3, <2>4, <2>5, EmptyDropped
  <2>7. CASE Refused(p[i])
    BY <2>3, <2>6, <2>7 DEF Refused
  <2>8. CASE ~Refused(p[i])
    BY <2>3, <2>4, <2>6, <2>8
  <2> QED BY <2>7, <2>8
<1> QED BY <1>2, <1>3

(* The plan when its first piece has bytes. *)
HeadStands == plan \in Seq(Pieces) /\ plan # <<>> /\ Head(plan).size > 0

LEMMA NextFits ==
  ASSUME HeadStands
  PROVE  /\ Head(plan) \in Pieces /\ Head(plan) = plan[1] /\ Len(plan) \in Nat \ {0}
         /\ Next512 \in Nat \ {0} /\ Next512 <= Head(plan).size
         /\ Bytes(plan) \in Nat /\ Head(plan).size <= Bytes(plan)
<1>1. /\ Head(plan) \in Pieces /\ Head(plan) = plan[1] /\ Len(plan) \in Nat \ {0}
      /\ Head(plan).size \in Nat
  <2>1. Head(plan) \in Pieces /\ Head(plan) = plan[1] /\ Len(plan) \in Nat /\ Len(plan) # 0
    BY EmptySeq, LenProperties DEF HeadStands
  <2> QED BY <2>1 DEF Pieces
<1>2. Next512 \in {Head(plan).size, CMD_SIZE} /\ Next512 <= Head(plan).size
  <2>1. {Head(plan).size, CMD_SIZE} \in SUBSET Nat
    BY <1>1 DEF CMD_SIZE
  <2> QED BY <2>1, MinChooses DEF Next512
<1>3. Next512 \in Nat \ {0}
  BY <1>1, <1>2 DEF HeadStands, CMD_SIZE
<1>4. Bytes(plan) \in Nat /\ Head(plan).size <= Bytes(plan)
  <2>1. 1 \in 0..Len(plan) /\ Len(plan) \in 0..Len(plan) /\ 0 \in 0..Len(plan) /\ 1 <= Len(plan)
        /\ 1 \in 1..Len(plan) /\ 1 - 1 = 0
    BY <1>1
  <2>2. /\ Upto(plan, 0) = 0 /\ Upto(plan, Len(plan)) = Bytes(plan)
        /\ Upto(plan, 1) = Upto(plan, 1 - 1) + plan[1].size
        /\ Upto(plan, 1) <= Upto(plan, Len(plan)) /\ Bytes(plan) \in Nat
    BY <2>1, PiecesAreSized, UptoAdds, SizesAreNumbers DEF HeadStands
  <2> QED BY <1>1, <2>1, <2>2
<1> QED BY <1>1, <1>2, <1>3, <1>4

(* A command for the next bytes of the plan takes them off it. *)
LEMMA AdvancedGoesOn ==
  ASSUME HeadStands
  PROVE  /\ Advanced \in Seq(Pieces) /\ Bytes(Advanced) = Bytes(plan) - Next512
         /\ \A mapping, w, k :
              Shows(mapping, plan, w, k, Bytes(plan)) =>
                Shows(mapping, Advanced, w, k + Next512, Bytes(plan) - Next512)
<1> DEFINE N == Next512
           e == Head(plan)
           d == [e EXCEPT !.address = @ + N, !.size = @ - N]
           t == Tail(plan)
           b == Len(t)
<1>1. /\ e \in Pieces /\ e = plan[1] /\ Len(plan) \in Nat \ {0}
      /\ N \in Nat \ {0} /\ N <= e.size /\ Bytes(plan) \in Nat /\ e.size <= Bytes(plan)
  BY NextFits
<1>2. Advanced = <<d>> \o t
  BY DEF Advanced
<1>3. /\ e.domain \in {"WRAM", "CARTRAM", "CARTROM"} /\ e.address \in Nat /\ e.size \in Nat
      /\ e \in [domain : {"WRAM", "CARTRAM", "CARTROM"}, address : Nat, size : Nat]
  BY <1>1 DEF Pieces
<1>4. t \in Seq(Pieces) /\ b = Len(plan) - 1 /\ \A h \in 1..b : t[h] = plan[h + 1]
  BY HeadTailProperties DEF HeadStands
<1> HIDE DEF N, e
<1>5. /\ d.domain = e.domain /\ d.address = e.address + N /\ d.size = e.size - N
      /\ d \in [domain : {"WRAM", "CARTRAM", "CARTROM"}, address : Nat, size : Nat]
  <2>1. e.address + N \in Nat /\ e.size - N \in Nat
    BY <1>1, <1>3
  <2>2. d.domain = e.domain /\ d.address = e.address + N /\ d.size = e.size - N
    BY <1>3
  <2>3. d \in [domain : {"WRAM", "CARTRAM", "CARTROM"}, address : Nat, size : Nat]
    BY <1>3, <2>1
  <2> QED BY <2>2, <2>3
<1>6. d \in Pieces
  BY <1>5 DEF Pieces
<1> HIDE DEF d, t, b
<1>7. <<d>> \in Seq(Pieces) /\ <<e>> \in Seq(Pieces) /\ Bytes(<<d>>) = e.size - N /\ Bytes(<<e>>) = e.size
  BY <1>1, <1>3, <1>5, <1>6, BytesOfOne
<1>8. plan = <<e>> \o t
  <2>1. Tail(plan) = SubSeq(plan, 2, Len(plan)) /\ plan = SubSeq(plan, 1, Len(plan))
    BY TailIsSubSeq, SubSeqFull DEF HeadStands
  <2>2. 1 \in 1..Len(plan) /\ Len(plan) \in 1..Len(plan) /\ 1 + 1 = 2
    BY <1>1
  <2>3. SubSeq(plan, 1, Len(plan)) = <<plan[1]>> \o SubSeq(plan, 1 + 1, Len(plan))
    BY <2>2, SubSeqRecursiveFirst DEF HeadStands
  <2> QED BY <1>1, <2>1, <2>2, <2>3 DEF t
<1>9. /\ Advanced \in Seq(Pieces) /\ Bytes(Advanced) = Bytes(plan) - N
      /\ Bytes(t) \in Nat /\ Bytes(plan) = e.size + Bytes(t)
  <2>1. /\ <<d>> \o t \in Seq(Pieces) /\ Bytes(<<d>> \o t) = Bytes(<<d>>) + Bytes(t)
        /\ Bytes(<<e>> \o t) = Bytes(<<e>>) + Bytes(t) /\ Bytes(t) \in Nat
    BY <1>4, <1>7, PiecesAreSized, BytesOfConcat, SizesAreNumbers DEF t
  <2> QED BY <1>1, <1>2, <1>3, <1>7, <1>8, <2>1
<1>10. ASSUME NEW mapping, NEW w, NEW k, Shows(mapping, plan, w, k, Bytes(plan))
       PROVE  Shows(mapping, Advanced, w, k + N, Bytes(plan) - N)
  <2>1. PICK f \in [1..(Len(plan) + 1) -> Nat] :
          /\ f[1] = k /\ f[Len(plan) + 1] = k + Bytes(plan)
          /\ \A i \in 1..Len(plan) : PieceShows(mapping, plan[i], w, f[i], f[i + 1])
    BY <1>10 DEF Shows
  <2>2. 1 \in 1..Len(plan) /\ 1 \in 1..(Len(plan) + 1) /\ 1 + 1 \in 1..(Len(plan) + 1)
        /\ Len(plan) + 1 \in 1..(Len(plan) + 1)
    BY <1>1
  <2>3. k \in Nat /\ PieceShows(mapping, e, w, k, f[1 + 1]) /\ f[1 + 1] \in Nat
    BY <1>1, <2>1, <2>2
  <2>4. f[1 + 1] = k + e.size
    BY <2>3 DEF PieceShows
  <2>5. PieceShows(mapping, d, w, k + N, k + N + d.size)
    <3> SUFFICES ASSUME NEW j \in 0..(d.size - 1)
                 PROVE  /\ Shown(mapping, d.domain, Place(d) + j) = w[k + N + j]
                        /\ d.domain = "CARTROM" => (d.address + j) \div Bank = d.address \div Bank
      BY DEF PieceShows
    <3>1. /\ N + j \in 0..(e.size - 1) /\ N \in 0..(e.size - 1) /\ k + N + j = k + (N + j)
          /\ d.address + j = e.address + (N + j)
      <4> DEFINE y == e.size
                 z == e.address
      <4>1. /\ N \in Nat \ {0} /\ y \in Nat /\ z \in Nat /\ k \in Nat /\ N <= y
            /\ j \in 0..((y - N) - 1) /\ d.address = z + N
        BY <1>1, <1>3, <1>5, <2>3
      <4> HIDE DEF y, z
      <4>2. /\ N + j \in 0..(y - 1) /\ N \in 0..(y - 1) /\ k + N + j = k + (N + j)
            /\ (z + N) + j = z + (N + j)
        BY <4>1
      <4> QED BY <4>1, <4>2 DEF y, z
    <3>2. Place(d) + j = Place(e) + (N + j)
      BY <1>1, <1>3, <1>5 DEF Place
    <3>3. /\ Shown(mapping, e.domain, Place(e) + (N + j)) = w[k + (N + j)]
          /\ e.domain = "CARTROM" => /\ (e.address + (N + j)) \div Bank = e.address \div Bank
                                     /\ (e.address + N) \div Bank = e.address \div Bank
      BY <2>3, <3>1 DEF PieceShows
    <3>4. Shown(mapping, d.domain, Place(d) + j) = w[k + N + j]
      BY <1>5, <3>1, <3>2, <3>3
    <3>5. ASSUME d.domain = "CARTROM" PROVE (d.address + j) \div Bank = d.address \div Bank
      BY <1>5, <3>1, <3>3, <3>5
    <3> QED BY <3>4, <3>5
  <2>6. Shows(mapping, <<d>>, w, k + N, d.size)
    <3>1. k + N \in Nat
      BY <1>1, <2>3
    <3> QED BY <1>6, <2>5, <3>1, OneShows
  <2>7. Shows(mapping, t, w, k + e.size, Bytes(t))
    <3> DEFINE g == [i \in 1..(b + 1) |-> f[i + 1]]
    <3>1. \A i \in 1..(b + 1) : g[i] = f[i + 1] /\ i + 1 \in 1..(Len(plan) + 1)
      BY <1>1, <1>4
    <3>2. g \in [1..(b + 1) -> Nat]
      BY <3>1
    <3> HIDE DEF g
    <3>3. 1 \in 1..(b + 1) /\ b + 1 \in 1..(b + 1) /\ (b + 1) + 1 = Len(plan) + 1
      BY <1>1, <1>4
    <3>4. g[1] = k + e.size /\ g[b + 1] = k + Bytes(plan)
      BY <2>1, <2>4, <3>1, <3>3
    <3>5. ASSUME NEW i \in 1..b PROVE PieceShows(mapping, t[i], w, g[i], g[i + 1])
      <4>1. i \in 1..(b + 1) /\ i + 1 \in 1..(b + 1) /\ i + 1 \in 1..Len(plan)
        BY <1>1, <1>4
      <4>2. t[i] = plan[i + 1] /\ g[i] = f[i + 1] /\ g[i + 1] = f[(i + 1) + 1]
        BY <1>4, <3>1, <4>1
      <4> QED BY <2>1, <4>1, <4>2
    <3>6. k + Bytes(plan) = k + e.size + Bytes(t)
      BY <1>3, <1>9, <2>3
    <3> QED BY <3>2, <3>4, <3>5, <3>6 DEF Shows, b
  <2>8. k + N \in Nat /\ k + N + d.size = k + e.size /\ d.size \in Nat
        /\ d.size + Bytes(t) = Bytes(plan) - N
    <3>1. k \in Nat
      BY <2>3
    <3>2. d.size = e.size - N /\ N \in Nat /\ e.size \in Nat /\ N <= e.size
      BY <1>1, <1>3, <1>5
    <3>3. d.size + Bytes(t) = Bytes(plan) - N
      BY <1>9, <3>2
    <3>4. k + N \in Nat /\ k + N + d.size = k + e.size /\ d.size \in Nat
      BY <3>1, <3>2
    <3> QED BY <3>3, <3>4
  <2>9. Shows(mapping, <<d>> \o t, w, k + N, d.size + Bytes(t))
    BY <1>4, <1>7, <1>9, <2>6, <2>7, <2>8, ConcatShows
  <2> QED BY <1>2, <2>8, <2>9
<1> QED BY <1>9, <1>10 DEF N

-----------------------------------------------------------------------------
(* The wire. *)

(* Where the task stands in which kind of request, and that it does only   *)
(* where there is something left to move.                                  *)
StagesFit ==
  /\ phase \in {"read", "await", "spoilt", "closing"} => Download
  /\ phase \in {"fill", "confirm"} => req.cmd = "PutAddress"
  /\ Busy => HeadStands

(* AddsUp, stage by stage. *)
Counts ==
  /\ phase \in {"read", "await", "spoilt"} => Bytes(plan) = Total - sent
  /\ phase = "closing" => Total = sent
  /\ phase = "fill" => Bytes(plan) = Total - sent + recv_buf
  /\ phase = "confirm" => Bytes(plan) - Next512 = Total - sent + recv_buf
  /\ phase = "idle" => 0 = IF Download THEN Total - sent ELSE Total - sent + recv_buf

(* Until a write is answered too late there is one command at a time under *)
(* way, and every answer is one to the command that waits for it.          *)
Timely ==
  "late" \notin mishaps =>
    /\ phase \notin {"spoilt", "panicked"}
    /\ phase \in {"idle", "read", "closing", "fill"} => asked = <<>> /\ inbox = <<>>
    /\ phase \in {"await", "confirm"} => Len(asked) + Len(inbox) <= 1
    /\ phase = "await" => /\ \A i \in 1..Len(asked) : asked[i] = "read"
                          /\ \A i \in 1..Len(inbox) : inbox[i] # "done"

RefusalsNoted == \A i \in 1..Len(inbox) : inbox[i] = "-1" => "refused" \in mishaps

(* An error of the socket comes from a datagram that found no RetroArch.   *)
BouncesNoted == bounced => "unreachable" \in mishaps

(* A session is away from an upload when it has given all, or left.        *)
UploadGiven ==
  phase \in {"fill", "confirm"} /\ ~listening => "abandoned" \in mishaps \/ sent >= Total

(* What the plan has still to move shows the rest of what was asked for.   *)
PlanShows ==
  Busy /\ InReach(req.list) =>
    Shows(rom_mapping, plan, WantedOf(req.list), Total - Bytes(plan), Bytes(plan))

RetroarchInv ==
  /\ TypeOK /\ StagesFit /\ Counts /\ Timely /\ RefusalsNoted /\ BouncesNoted
  /\ UploadGiven /\ PlanShows /\ GivenUpExplained

Mishaps == {"refused", "timeout", "late", "abandoned", "unreachable", "broken"}

LEMMA ReqFacts ==
  ASSUME TypeOK
  PROVE  /\ req.list \in Seq(AddressInfos) /\ Total \in Nat
         /\ req.cmd \in {"Info", "GetAddress", "PutAddress"}
         /\ plan \in Seq(Pieces) /\ Bytes(plan) \in Nat
<1>1. <<>> \in Seq(AddressInfos)
  OBVIOUS
<1>2. req.list \in Seq(AddressInfos) /\ req.cmd \in {"Info", "GetAddress", "PutAddress"}
  BY <1>1, ListsAssumption DEF TypeOK, AddressInfos
<1>3. plan \in Seq(Pieces)
  BY DEF TypeOK, Pieces
<1> QED BY <1>2, <1>3, PiecesAreSized, InfosAreSized, SizesAreNumbers DEF Total

LEMMA InitialRetroarch == Init => RetroarchInv
<1> SUFFICES ASSUME Init PROVE RetroarchInv
  OBVIOUS
<1>1. TypeOK
  <2>1. rom_mapping \in {"LoROM", "HiROM", "ExHiROM", "SDD1", "SA1", "Unknown"}
    BY DEF Init, RomMapping
  <2>2. <<>> \in Seq([domain : {"WRAM", "CARTRAM", "CARTROM"}, address : Nat, size : Nat])
        /\ <<>> \in Seq({"read", "write"}) /\ <<>> \in Seq({"data", "short", "-1", "done"})
    OBVIOUS
  <2>3. req \in [cmd : {"Info", "GetAddress", "PutAddress"}, list : Lists \cup {<<>>}]
    BY DEF Init
  <2> QED BY <2>1, <2>2, <2>3 DEF Init, TypeOK
<1>2. phase = "idle" /\ ~Busy /\ ~Download /\ Total = 0
  <2>1. req.list = <<>> /\ req.cmd = "Info"
    BY DEF Init
  <2> QED BY <2>1, BytesOfNone DEF Init, Busy, Download, Total
<1>3. StagesFit /\ PlanShows /\ UploadGiven /\ GivenUpExplained
  BY <1>2 DEF StagesFit, PlanShows, UploadGiven, GivenUpExplained
<1>4. Counts
  BY <1>2 DEF Counts, Init
<1>5. Timely /\ RefusalsNoted /\ BouncesNoted
  BY DEF Timely, RefusalsNoted, BouncesNoted, Init
<1> QED BY <1>1, <1>3, <1>4, <1>5 DEF RetroarchInv

(* What the plan shows stays as it is while the plan does. *)
LEMMA SamePlan ==
  ASSUME PlanShows, UNCHANGED <<header, req, plan>>, Busy' => Busy
  PROVE  PlanShows'
<1>1. rom_mapping' = rom_mapping /\ req' = req /\ plan' = plan
  BY DEF header
<1>2. InReach(req.list)' <=> InReach(req.list)
  BY <1>1 DEF InReach
<1> QED BY <1>1, <1>2 DEF PlanShows, Total

(* A command is done and the loop goes on. *)
LEMMA CommandDone ==
  ASSUME RetroarchInv, Busy, UNCHANGED <<header, req>>,
         NEW busy, NEW finished \in {"closing", "idle"}, GoesOn(Advanced, busy, finished)
  PROVE  /\ plan' \in Seq(Pieces) /\ PlanShows'
         /\ \/ phase' = finished /\ Bytes(plan) = Next512
            \/ phase' = "ended" /\ ~rom_access
            \/ phase' = busy /\ HeadStands' /\ Bytes(plan') = Bytes(plan) - Next512
<1>1. HeadStands /\ TypeOK
  BY DEF RetroarchInv, StagesFit
<1>2. Bytes(plan) \in Nat /\ Next512 \in Nat /\ Total \in Nat
  BY <1>1, NextFits, ReqFacts
<1>3. rom_mapping' = rom_mapping /\ rom_access' = rom_access /\ req' = req /\ Total' = Total
  BY DEF header, Total
<1>4. /\ Advanced \in Seq(Pieces) /\ Bytes(Advanced) = Bytes(plan) - Next512
      /\ \A mapping, w, k :
           Shows(mapping, plan, w, k, Bytes(plan)) =>
             Shows(mapping, Advanced, w, k + Next512, Bytes(plan) - Next512)
  BY <1>1, AdvancedGoesOn
<1>5. \/ phase' = finished /\ plan' = <<>> /\ Bytes(Advanced) = 0
      \/ phase' = "ended" /\ ~rom_access /\ plan' \in Seq(Pieces)
      \/ /\ phase' = busy /\ plan' \in Seq(Pieces) /\ plan' # <<>>
         /\ Head(plan').size > 0 /\ Bytes(plan') = Bytes(Advanced)
         /\ \A mapping, w, k, n :
              Shows(mapping, Advanced, w, k, n) => Shows(mapping, plan', w, k, n)
  BY <1>4, GoesOnStands
<1>6. InReach(req.list)' <=> InReach(req.list)
  BY <1>3 DEF InReach
<1>7. CASE phase' = finished /\ plan' = <<>> /\ Bytes(Advanced) = 0
  <2>1. <<>> \in Seq(Pieces) /\ Bytes(plan) = Next512
    BY <1>2, <1>4, <1>7
  <2>2. PlanShows'
    BY <1>7 DEF PlanShows, Busy
  <2> QED BY <1>7, <2>1, <2>2
<1>8. CASE phase' = "ended" /\ ~rom_access /\ plan' \in Seq(Pieces)
  BY <1>8 DEF PlanShows, Busy
<1>9. CASE /\ phase' = busy /\ plan' \in Seq(Pieces) /\ plan' # <<>>
           /\ Head(plan').size > 0 /\ Bytes(plan') = Bytes(Advanced)
           /\ \A mapping, w, k, n :
                Shows(mapping, Advanced, w, k, n) => Shows(mapping, plan', w, k, n)
  <2>1. HeadStands'
    BY <1>9 DEF HeadStands
  <2>2. ASSUME InReach(req.list)
        PROVE  Shows(rom_mapping, plan', WantedOf(req.list), Total - Bytes(plan'), Bytes(plan'))
    <3>1. Shows(rom_mapping, plan, WantedOf(req.list), Total - Bytes(plan), Bytes(plan))
      BY <2>2 DEF RetroarchInv, PlanShows
    <3>2. Total - Bytes(plan') = Total - Bytes(plan) + Next512
      BY <1>2, <1>4, <1>9
    <3> QED BY <1>4, <1>9, <3>1, <3>2
  <2>3. PlanShows'
    BY <1>3, <1>6, <2>2 DEF PlanShows
  <2> QED BY <1>4, <1>9, <2>1, <2>3
<1> QED BY <1>5, <1>7, <1>8, <1>9

(* A datagram is under way, or it bounces. *)
LEMMA SendsFacts ==
  ASSUME TypeOK, BouncesNoted, NEW asks, Sends(asks),
         \/ asks = <<>>
         \/ \E m \in {"read", "write"} : asks = <<m>>
  PROVE  /\ asked' \in Seq({"read", "write"}) /\ bounced' \in BOOLEAN
         /\ mishaps \subseteq mishaps' /\ mishaps' \subseteq Mishaps
         /\ "late" \in mishaps' => "late" \in mishaps
         /\ BouncesNoted'
         /\ asks = <<>> => asked' = asked
         /\ asked = <<>> => Len(asked') <= 1 /\ \A i \in 1..Len(asked') : asked'[i] = asks[1]
<1>1. PICK there \in BOOLEAN :
        /\ asked' = IF there /\ Len(asked) + Len(inbox) < MaxStray
                    THEN asked \o asks ELSE asked
        /\ bounced' = IF there THEN bounced ELSE TRUE
        /\ mishaps' = IF there THEN mishaps ELSE mishaps \cup {"unreachable"}
  BY DEF Sends
<1>2. asked \in Seq({"read", "write"}) /\ bounced \in BOOLEAN /\ mishaps \subseteq Mishaps
  BY DEF TypeOK, Mishaps
<1>3. bounced' \in BOOLEAN /\ BouncesNoted'
  BY <1>1, <1>2 DEF BouncesNoted
<1>4. /\ mishaps \subseteq mishaps' /\ mishaps' \subseteq Mishaps
      /\ "late" \in mishaps' => "late" \in mishaps
  BY <1>1, <1>2 DEF Mishaps
<1>5. asked' = asked \/ asked' = asked \o asks
  BY <1>1
<1>6. Len(<<>>) = 0 /\ 0 <= 1 /\ \A i \in 1..0 : FALSE
  OBVIOUS
<1>7. CASE asks = <<>>
  <2>1. asked \o asks = asked
    BY <1>2, <1>7
  <2> QED BY <1>2, <1>3, <1>4, <1>5, <1>6, <2>1
<1>8. CASE \E m \in {"read", "write"} : asks = <<m>>
  <2>1. PICK m \in {"read", "write"} : asks = <<m>>
    BY <1>8
  <2>2. asked \o <<m>> \in Seq({"read", "write"}) /\ <<>> \o <<m>> = <<m>>
    BY <1>2
  <2>3. Len(<<m>>) = 1 /\ (<<m>>)[1] = m /\ <<m>> # <<>>
    OBVIOUS
  <2>4. asked = <<>> => Len(asked') <= 1 /\ \A i \in 1..Len(asked') : asked'[i] = m
    <3> SUFFICES ASSUME asked = <<>>
                 PROVE  Len(asked') <= 1 /\ \A i \in 1..Len(asked') : asked'[i] = m
      OBVIOUS
    <3>1. asked' = <<>> \/ asked' = <<m>>
      BY <1>5, <2>1, <2>2
    <3>2. CASE asked' = <<>>
      BY <1>6, <3>2
    <3>3. CASE asked' = <<m>>
      BY <2>3, <3>3
    <3> QED BY <3>1, <3>2, <3>3
  <2>5. asked' \in Seq({"read", "write"})
    BY <1>2, <1>5, <2>1, <2>2
  <2> QED BY <1>3, <1>4, <2>1, <2>3, <2>4, <2>5
<1> QED BY <1>7, <1>8

(* The head of a queue is gone. *)
LEMMA TailFacts ==
  ASSUME NEW S, NEW q \in Seq(S), q # <<>>
  PROVE  /\ Head(q) \in S /\ Head(q) = q[1] /\ 1 \in 1..Len(q) /\ Len(q) \in Nat \ {0}
         /\ Tail(q) \in Seq(S) /\ Len(Tail(q)) = Len(q) - 1
         /\ \A i \in 1..Len(Tail(q)) : i + 1 \in 1..Len(q) /\ Tail(q)[i] = q[i + 1]
         /\ Len(q) = 1 => Tail(q) = <<>>
<1>1. Len(q) \in Nat /\ Len(q) # 0
  BY EmptySeq, LenProperties
<1>2. /\ Head(q) \in S /\ Tail(q) \in Seq(S) /\ Len(Tail(q)) = Len(q) - 1
      /\ \A i \in 1..Len(Tail(q)) : Tail(q)[i] = q[i + 1]
  BY HeadTailProperties
<1>3. Head(q) = q[1]
  BY <1>1
<1>4. \A i \in 1..(Len(q) - 1) : i + 1 \in 1..Len(q)
  BY <1>1
<1>5. 1 \in 1..Len(q)
  BY <1>1
<1>6. Len(q) = 1 => Tail(q) = <<>>
  <2>1. Len(q) = 1 => Len(Tail(q)) = 0
    BY <1>2
  <2> QED BY <1>2, <2>1, EmptySeq
<1> QED BY <1>1, <1>2, <1>3, <1>4, <1>5, <1>6

LEMMA SendReadKeeps ==
  ASSUME RetroarchInv, SendRead
  PROVE  RetroarchInv'
<1>1. /\ phase = "read" /\ phase' = "await" /\ Sends(<<"read">>)
      /\ UNCHANGED <<header, req, plan, recv_buf, session, inbox>>
  BY DEF SendRead
<1>2. <<"read">> # <<>> /\ (<<"read">>)[1] = "read"
  OBVIOUS
<1>3. /\ asked' \in Seq({"read", "write"}) /\ bounced' \in BOOLEAN
      /\ mishaps \subseteq mishaps' /\ mishaps' \subseteq Mishaps
      /\ "late" \in mishaps' => "late" \in mishaps
      /\ BouncesNoted'
      /\ asked = <<>> => Len(asked') <= 1 /\ \A i \in 1..Len(asked') : asked'[i] = "read"
  BY <1>1, <1>2, SendsFacts DEF RetroarchInv
<1>4. TypeOK'
  BY <1>1, <1>3 DEF RetroarchInv, TypeOK, header, session, Mishaps
<1>5. StagesFit'
  BY <1>1 DEF RetroarchInv, StagesFit, HeadStands, Download, Busy
<1>6. Counts'
  BY <1>1 DEF RetroarchInv, Counts, Total, session
<1>7. Timely'
  <2> SUFFICES ASSUME "late" \notin mishaps
               PROVE  /\ Len(asked') + Len(inbox') <= 1
                      /\ \A i \in 1..Len(asked') : asked'[i] = "read"
                      /\ \A i \in 1..Len(inbox') : inbox'[i] # "done"
    BY <1>1, <1>3 DEF Timely
  <2>1. asked = <<>> /\ inbox' = <<>>
    BY <1>1 DEF RetroarchInv, Timely
  <2>2. Len(inbox') = 0 /\ Len(asked') \in Nat
    BY <2>1, <1>3, LenProperties
  <2> QED BY <1>3, <2>1, <2>2
<1>8. PlanShows'
  BY <1>1, SamePlan DEF RetroarchInv, Busy
<1>9. RefusalsNoted' /\ UploadGiven' /\ GivenUpExplained'
  BY <1>1, <1>3 DEF RetroarchInv, RefusalsNoted, UploadGiven, GivenUpExplained, session
<1> QED BY <1>3, <1>4, <1>5, <1>6, <1>7, <1>8, <1>9 DEF RetroarchInv

(* An answer is out of the socket. *)
LEMMA InboxTaken ==
  ASSUME TypeOK, RefusalsNoted, inbox # <<>>, inbox' = Tail(inbox), mishaps' = mishaps
  PROVE  /\ Head(inbox) \in {"data", "short", "-1", "done"}
         /\ inbox' \in Seq({"data", "short", "-1", "done"}) /\ RefusalsNoted'
         /\ Head(inbox) = "-1" => "refused" \in mishaps
         /\ Len(inbox) \in Nat \ {0} /\ Head(inbox) = inbox[1] /\ 1 \in 1..Len(inbox)
         /\ Len(inbox) = 1 => inbox' = <<>>
<1>1. inbox \in Seq({"data", "short", "-1", "done"})
  BY DEF TypeOK
<1>2. /\ Head(inbox) \in {"data", "short", "-1", "done"} /\ Head(inbox) = inbox[1]
      /\ 1 \in 1..Len(inbox) /\ Len(inbox) \in Nat \ {0}
      /\ inbox' \in Seq({"data", "short", "-1", "done"})
      /\ \A i \in 1..Len(inbox') : i + 1 \in 1..Len(inbox) /\ inbox'[i] = inbox[i + 1]
      /\ Len(inbox) = 1 => inbox' = <<>>
  BY <1>1, TailFacts
<1>3. RefusalsNoted'
  BY <1>2 DEF RefusalsNoted
<1>4. Head(inbox) = "-1" => "refused" \in mishaps
  BY <1>2 DEF RefusalsNoted
<1> QED BY <1>2, <1>3, <1>4

(* While commands are answered in time there is only the one answer. *)
LEMMA OnlyAnswer ==
  ASSUME TypeOK, Timely, "late" \notin mishaps, phase \in {"await", "confirm"}, inbox # <<>>
  PROVE  asked = <<>> /\ Len(inbox) = 1
<1>1. asked \in Seq({"read", "write"}) /\ inbox \in Seq({"data", "short", "-1", "done"})
  BY DEF TypeOK
<1>2. Len(asked) + Len(inbox) <= 1
  BY DEF Timely
<1>3. Len(inbox) \in Nat \ {0} /\ Len(asked) \in Nat
  BY <1>1, TailFacts, LenProperties
<1>4. Len(asked) = 0 /\ Len(inbox) = 1
  <2> DEFINE a == Len(asked)
             b == Len(inbox)
  <2>1. a + b <= 1 /\ b \in Nat \ {0} /\ a \in Nat
    BY <1>2, <1>3
  <2> HIDE DEF a, b
  <2>2. a = 0 /\ b = 1
    BY <2>1
  <2> QED BY <2>2 DEF a, b
<1> QED BY <1>1, <1>4, EmptySeq

LEMMA ReadAnswerKeeps ==
  ASSUME RetroarchInv, ReadAnswer
  PROVE  RetroarchInv'
<1>1. /\ phase \in {"await", "spoilt"} /\ inbox # <<>> /\ inbox' = Tail(inbox)
      /\ UNCHANGED <<header, req, recv_buf, taken, listening, asked, bounced, mishaps>>
  BY DEF ReadAnswer
<1>2. TypeOK /\ Busy /\ Download
  BY <1>1 DEF RetroarchInv, Busy, StagesFit
<1>3. /\ Head(inbox) \in {"data", "short", "-1", "done"}
      /\ inbox' \in Seq({"data", "short", "-1", "done"}) /\ RefusalsNoted'
      /\ Head(inbox) = "-1" => "refused" \in mishaps
      /\ Len(inbox) \in Nat \ {0} /\ Head(inbox) = inbox[1] /\ 1 \in 1..Len(inbox)
      /\ Len(inbox) = 1 => inbox' = <<>>
  BY <1>1, InboxTaken DEF RetroarchInv
<1>4. "late" \notin mishaps =>
        asked' = <<>> /\ inbox' = <<>> /\ phase = "await" /\ Head(inbox) # "done"
  <2> SUFFICES ASSUME "late" \notin mishaps
               PROVE  asked' = <<>> /\ inbox' = <<>> /\ phase = "await" /\ Head(inbox) # "done"
    OBVIOUS
  <2>1. phase = "await" /\ \A i \in 1..Len(inbox) : inbox[i] # "done"
    BY <1>1 DEF RetroarchInv, Timely
  <2>2. asked = <<>> /\ Len(inbox) = 1
    BY <1>1, <1>2, <2>1, OnlyAnswer DEF RetroarchInv
  <2> QED BY <1>1, <1>3, <2>1, <2>2
<1>5. UploadGiven'
  <2>1. phase' \notin {"fill", "confirm"}
    <3>1. CASE GoesOn(Advanced, "read", "closing")
      BY <3>1 DEF GoesOn
    <3>2. CASE ~GoesOn(Advanced, "read", "closing")
      BY <1>3, <3>2 DEF ReadAnswer
    <3> QED BY <3>1, <3>2
  <2> QED BY <2>1 DEF UploadGiven
<1>8. BouncesNoted'
  BY <1>1 DEF RetroarchInv, BouncesNoted
<1>6. CASE /\ Head(inbox) = "data" /\ phase = "await"
           /\ GoesOn(Advanced, "read", "closing") /\ sent' = sent + Next512
  <2>1. /\ plan' \in Seq(Pieces) /\ PlanShows'
        /\ \/ phase' = "closing" /\ Bytes(plan) = Next512
           \/ phase' = "ended" /\ ~rom_access
           \/ phase' = "read" /\ HeadStands' /\ Bytes(plan') = Bytes(plan) - Next512
    BY <1>1, <1>2, <1>6, CommandDone
  <2>2. /\ HeadStands /\ Next512 \in Nat /\ Bytes(plan) \in Nat /\ Total \in Nat
        /\ sent \in Nat /\ Total' = Total /\ Download'
    BY <1>1, <1>2, NextFits, ReqFacts DEF RetroarchInv, StagesFit, Total, TypeOK, Download
  <2>3. Bytes(plan) = Total - sent
    BY <1>1 DEF RetroarchInv, Counts
  <2>4. sent' \in Nat
    BY <1>6, <2>2
  <2>5. phase' \in {"closing", "ended", "read"}
    BY <2>1
  <2>6. TypeOK'
    BY <1>1, <1>2, <1>3, <2>1, <2>4, <2>5 DEF TypeOK, header, Pieces
  <2>7. StagesFit'
    BY <2>1, <2>2 DEF StagesFit, Busy
  <2>8. Counts'
    BY <1>6, <2>1, <2>2, <2>3, <2>5 DEF Counts
  <2>9. Timely'
    BY <1>1, <1>4, <2>5 DEF Timely
  <2>10. GivenUpExplained'
    BY <1>1, <2>1 DEF GivenUpExplained, header
  <2> QED BY <1>3, <1>5, <1>8, <2>1, <2>6, <2>7, <2>8, <2>9, <2>10 DEF RetroarchInv
<1>7. CASE /\ UNCHANGED <<plan, sent>>
           /\ Head(inbox) # "data" \/ phase = "spoilt"
           /\ phase' \in CASE Head(inbox) = "-1" -> {"ended"}
                          [] Head(inbox) = "data" -> {"panicked"}
                          [] Head(inbox) = "short" /\ phase = "await" -> {"await"}
                          [] OTHER -> {"spoilt", "panicked"}
  <2>1. \/ phase' = "ended" /\ Head(inbox) = "-1"
        \/ phase' = "panicked" /\ (Head(inbox) = "done" \/ phase = "spoilt")
        \/ phase' = "await" /\ phase = "await"
        \/ phase' = "spoilt" /\ (Head(inbox) = "done" \/ phase = "spoilt")
    BY <1>1, <1>3, <1>7
  <2>2. TypeOK'
    BY <1>1, <1>2, <1>3, <1>7, <2>1 DEF TypeOK, header
  <2>3. StagesFit'
    BY <1>1, <1>2, <1>7, <2>1 DEF RetroarchInv, StagesFit, Busy, HeadStands, Download
  <2>4. Counts'
    BY <1>1, <1>7, <2>1 DEF RetroarchInv, Counts, Total
  <2>5. Timely'
    <3> SUFFICES ASSUME "late" \notin mishaps
                 PROVE  /\ phase' \in {"ended", "await"} /\ asked' = <<>> /\ inbox' = <<>>
      <4>1. Len(<<>>) = 0 /\ 0 + 0 <= 1 /\ \A i \in 1..0 : FALSE
        OBVIOUS
      <4> QED BY <1>1, <4>1 DEF Timely
    <3> QED BY <1>4, <2>1
  <2>6. PlanShows'
    BY <1>1, <1>2, <1>7, SamePlan DEF RetroarchInv
  <2>7. GivenUpExplained'
    BY <1>1, <1>3, <1>4, <2>1 DEF GivenUpExplained
  <2> QED BY <1>3, <1>5, <1>8, <2>2, <2>3, <2>4, <2>5, <2>6, <2>7 DEF RetroarchInv
<1> QED BY <1>6, <1>7 DEF ReadAnswer

LEMMA ReadTimeoutKeeps ==
  ASSUME RetroarchInv, ReadTimeout
  PROVE  RetroarchInv'
<1>1. /\ phase' = "ended" /\ mishaps' = mishaps \cup {"timeout"}
      /\ UNCHANGED <<header, req, plan, recv_buf, session, asked, inbox, bounced>>
  BY DEF ReadTimeout
<1>2. TypeOK'
  BY <1>1 DEF RetroarchInv, TypeOK, header, session
<1>3. StagesFit' /\ Counts' /\ Timely' /\ UploadGiven' /\ PlanShows'
  BY <1>1 DEF StagesFit, Counts, Timely, UploadGiven, PlanShows, Busy
<1>4. RefusalsNoted' /\ BouncesNoted' /\ GivenUpExplained'
  BY <1>1 DEF RetroarchInv, RefusalsNoted, BouncesNoted, GivenUpExplained
<1> QED BY <1>2, <1>3, <1>4 DEF RetroarchInv

LEMMA DownloadEndsKeeps ==
  ASSUME RetroarchInv, DownloadEnds
  PROVE  RetroarchInv'
<1>1. /\ phase = "closing" /\ phase' = "idle"
      /\ UNCHANGED <<header, req, plan, recv_buf, session, asked, inbox, bounced, mishaps>>
  BY DEF DownloadEnds
<1>2. TypeOK'
  BY <1>1 DEF RetroarchInv, TypeOK, header, session
<1>3. StagesFit' /\ UploadGiven' /\ PlanShows' /\ GivenUpExplained'
  BY <1>1 DEF StagesFit, UploadGiven, PlanShows, Busy, GivenUpExplained
<1>4. Counts'
  <2>1. Download' /\ Total' = Total /\ Total = sent /\ sent' = sent /\ sent \in Nat
    BY <1>1 DEF RetroarchInv, StagesFit, Counts, Download, Total, session, TypeOK
  <2> QED BY <1>1, <2>1 DEF Counts
<1>5. Timely' /\ RefusalsNoted' /\ BouncesNoted'
  BY <1>1 DEF RetroarchInv, Timely, RefusalsNoted, BouncesNoted
<1> QED BY <1>2, <1>3, <1>4, <1>5 DEF RetroarchInv

LEMMA FillKeeps ==
  ASSUME RetroarchInv, Fill
  PROVE  RetroarchInv'
<1>1. /\ phase = "fill" /\ recv_buf < Next512
      /\ UNCHANGED <<header, phase, req, plan, taken, asked, inbox, bounced, mishaps>>
  BY DEF Fill
<1>2. PICK size \in FrameSizes :
        LET n == Min({size, Total - sent}) IN
        /\ recv_buf' = recv_buf + n /\ sent' = sent + n /\ listening' = (sent' < Total)
  BY DEF Fill
<1> DEFINE n == Min({size, Total - sent})
<1>3. /\ HeadStands /\ TypeOK /\ Bytes(plan) \in Nat /\ Next512 \in Nat /\ Next512 <= Bytes(plan)
      /\ Total \in Nat /\ sent \in Nat /\ recv_buf \in Nat /\ req.cmd = "PutAddress"
      /\ Bytes(plan) = Total - sent + recv_buf
  <2>1. HeadStands /\ TypeOK /\ req.cmd = "PutAddress"
    BY <1>1 DEF RetroarchInv, StagesFit, Busy
  <2>2. Bytes(plan) \in Nat /\ Next512 \in Nat /\ Next512 <= Bytes(plan) /\ Total \in Nat
    <3>1. /\ Next512 \in Nat \ {0} /\ Next512 <= Head(plan).size /\ Head(plan) \in Pieces
          /\ Bytes(plan) \in Nat /\ Head(plan).size <= Bytes(plan)
      BY <2>1, NextFits
    <3>2. Head(plan).size \in Nat
      BY <3>1 DEF Pieces
    <3> QED BY <2>1, <3>1, <3>2, ReqFacts
  <2>3. Bytes(plan) = Total - sent + recv_buf
    BY <1>1 DEF RetroarchInv, Counts
  <2> QED BY <2>1, <2>2, <2>3 DEF TypeOK
<1>4. n \in Nat /\ n <= Total - sent
  <2>1. size \in Nat /\ Total - sent \in Nat
    BY <1>1, <1>3, ListsAssumption
  <2>2. {size, Total - sent} \in SUBSET Nat /\ {size, Total - sent} # {}
    BY <2>1
  <2> QED BY <2>2, MinChooses
<1>5. recv_buf' = recv_buf + n /\ sent' = sent + n /\ listening' = (sent' < Total)
  BY <1>2
<1> HIDE DEF n
<1>6. recv_buf' \in Nat /\ sent' \in Nat /\ listening' \in BOOLEAN
  BY <1>3, <1>4, <1>5
<1>7. TypeOK'
  BY <1>1, <1>3, <1>6 DEF TypeOK, header
<1>8. StagesFit' /\ Timely' /\ RefusalsNoted' /\ BouncesNoted' /\ GivenUpExplained'
  BY <1>1 DEF RetroarchInv, StagesFit, Busy, HeadStands, Download, Timely, RefusalsNoted,
     BouncesNoted, GivenUpExplained
<1>9. Counts'
  <2>1. Bytes(plan)' = Bytes(plan) /\ Total' = Total /\ phase' = "fill"
    BY <1>1 DEF Total
  <2>2. Bytes(plan) = Total - sent' + recv_buf'
    BY <1>3, <1>4, <1>5
  <2> QED BY <2>1, <2>2 DEF Counts
<1>10. UploadGiven'
  <2>1. ~listening' => sent' >= Total
    <3>1. ~listening' => ~(sent' < Total)
      BY <1>5, Zenon
    <3>2. ~(sent' < Total) => sent' >= Total
      BY <1>3, <1>6
    <3> QED BY <3>1, <3>2
  <2>2. Total' = Total
    BY <1>1 DEF Total
  <2> QED BY <2>1, <2>2 DEF UploadGiven
<1>11. PlanShows'
  BY <1>1, SamePlan DEF RetroarchInv, Busy
<1> QED BY <1>7, <1>8, <1>9, <1>10, <1>11 DEF RetroarchInv

LEMMA GotZeroDataKeeps ==
  ASSUME RetroarchInv, GotZeroData
  PROVE  RetroarchInv'
<1>1. /\ phase = "fill" /\ recv_buf < Next512 /\ ~listening /\ phase' = "ended"
      /\ UNCHANGED <<header, req, plan, recv_buf, session, asked, inbox, bounced, mishaps>>
  BY DEF GotZeroData
<1>2. TypeOK'
  BY <1>1 DEF RetroarchInv, TypeOK, header, session
<1>3. StagesFit' /\ Counts' /\ UploadGiven' /\ PlanShows'
  BY <1>1 DEF StagesFit, Counts, UploadGiven, PlanShows, Busy
<1>4. Timely' /\ RefusalsNoted' /\ BouncesNoted'
  BY <1>1 DEF RetroarchInv, Timely, RefusalsNoted, BouncesNoted
<1>5. "abandoned" \in mishaps
  <2> SUFFICES ASSUME sent >= Total PROVE FALSE
    BY <1>1 DEF RetroarchInv, UploadGiven
  <2>1. HeadStands /\ TypeOK
    BY <1>1 DEF RetroarchInv, StagesFit, Busy
  <2>2. /\ Next512 \in Nat /\ Next512 <= Head(plan).size /\ Head(plan) \in Pieces
        /\ Bytes(plan) \in Nat /\ Head(plan).size <= Bytes(plan) /\ Total \in Nat
    BY <2>1, NextFits, ReqFacts
  <2>3. Head(plan).size \in Nat /\ sent \in Nat /\ recv_buf \in Nat
    BY <2>1, <2>2 DEF Pieces, TypeOK
  <2>4. Bytes(plan) = Total - sent + recv_buf
    BY <1>1 DEF RetroarchInv, Counts
  <2> QED BY <1>1, <2>2, <2>3, <2>4
<1>6. GivenUpExplained'
  BY <1>1, <1>5 DEF GivenUpExplained
<1> QED BY <1>2, <1>3, <1>4, <1>6 DEF RetroarchInv

LEMMA SendWriteKeeps ==
  ASSUME RetroarchInv, SendWrite
  PROVE  RetroarchInv'
<1>1. /\ phase = "fill" /\ recv_buf >= Next512 /\ recv_buf' = recv_buf - Next512
      /\ UNCHANGED <<header, req, session, inbox>>
  BY DEF SendWrite
<1>2. /\ HeadStands /\ TypeOK /\ Busy /\ Bytes(plan) \in Nat /\ Next512 \in Nat /\ Total \in Nat
      /\ sent \in Nat /\ recv_buf \in Nat /\ req.cmd = "PutAddress"
      /\ Bytes(plan) = Total - sent + recv_buf
  <2>1. HeadStands /\ TypeOK /\ Busy /\ req.cmd = "PutAddress"
    BY <1>1 DEF RetroarchInv, StagesFit, Busy
  <2>2. Bytes(plan) \in Nat /\ Next512 \in Nat /\ Total \in Nat
    BY <2>1, NextFits, ReqFacts
  <2>3. Bytes(plan) = Total - sent + recv_buf
    BY <1>1 DEF RetroarchInv, Counts
  <2> QED BY <2>1, <2>2, <2>3 DEF TypeOK
<1>3. /\ Total' = Total /\ sent' = sent /\ recv_buf' \in Nat /\ req'.cmd = "PutAddress"
      /\ ~Download'
  BY <1>1, <1>2 DEF Total, session, Download
<1>7. \/ phase' = "confirm" /\ Sends(<<"write">>) /\ UNCHANGED plan
      \/ GoesOn(Advanced, "fill", "idle") /\ Sends(<<>>)
  BY DEF SendWrite
<1>8. /\ asked' \in Seq({"read", "write"}) /\ bounced' \in BOOLEAN
      /\ mishaps \subseteq mishaps' /\ mishaps' \subseteq Mishaps
      /\ "late" \in mishaps' => "late" \in mishaps
      /\ BouncesNoted'
      /\ asked = <<>> => Len(asked') <= 1
      /\ Sends(<<>>) => asked' = asked
  <2>1. TypeOK /\ BouncesNoted
    BY DEF RetroarchInv
  <2>2. CASE Sends(<<"write">>)
    <3>1. \E m \in {"read", "write"} : <<"write">> = <<m>>
      OBVIOUS
    <3>2. Sends(<<>>) => asked' = asked
      BY <2>1, SendsFacts
    <3> QED BY <2>1, <2>2, <3>1, <3>2, SendsFacts
  <2>3. CASE Sends(<<>>)
    BY <2>1, <2>3, SendsFacts
  <2> QED BY <1>7, <2>2, <2>3
<1>4. RefusalsNoted'
  BY <1>1, <1>8 DEF RetroarchInv, RefusalsNoted
<1>5. CASE phase' = "confirm" /\ UNCHANGED plan
  <2>3. TypeOK'
    BY <1>1, <1>2, <1>3, <1>5, <1>8 DEF TypeOK, header, session, Mishaps
  <2>4. StagesFit'
    BY <1>2, <1>3, <1>5 DEF StagesFit, HeadStands, Busy
  <2>5. Counts'
    <3>1. Next512' = Next512 /\ Bytes(plan)' = Bytes(plan)
      BY <1>5 DEF Next512
    <3>2. Bytes(plan) - Next512 = Total - sent + recv_buf'
      BY <1>1, <1>2
    <3> QED BY <1>3, <1>5, <3>1, <3>2 DEF Counts
  <2>6. Timely'
    <3> SUFFICES ASSUME "late" \notin mishaps PROVE Len(asked') + Len(inbox') <= 1
      BY <1>1, <1>5, <1>8 DEF Timely
    <3>1. asked = <<>> /\ inbox' = <<>>
      BY <1>1 DEF RetroarchInv, Timely
    <3>2. Len(inbox') = 0 /\ Len(asked') \in Nat
      BY <1>8, <3>1, LenProperties
    <3> QED BY <1>8, <3>1, <3>2
  <2>7. PlanShows'
    BY <1>1, <1>2, <1>5, SamePlan DEF RetroarchInv
  <2>8. UploadGiven' /\ GivenUpExplained'
    BY <1>1, <1>3, <1>5, <1>8 DEF RetroarchInv, UploadGiven, GivenUpExplained, session
  <2> QED BY <1>4, <1>8, <2>3, <2>4, <2>5, <2>6, <2>7, <2>8 DEF RetroarchInv
<1>6. CASE GoesOn(Advanced, "fill", "idle") /\ Sends(<<>>)
  <2>1. /\ plan' \in Seq(Pieces) /\ PlanShows'
        /\ \/ phase' = "idle" /\ Bytes(plan) = Next512
           \/ phase' = "ended" /\ ~rom_access
           \/ phase' = "fill" /\ HeadStands' /\ Bytes(plan') = Bytes(plan) - Next512
    BY <1>1, <1>2, <1>6, CommandDone
  <2>2. phase' \in {"idle", "ended", "fill"}
    BY <2>1
  <2>3. TypeOK'
    BY <1>1, <1>2, <1>3, <1>6, <1>8, <2>1, <2>2 DEF TypeOK, header, session, Pieces, Mishaps
  <2>4. StagesFit'
    BY <1>3, <2>1 DEF StagesFit, Busy
  <2>5. Counts'
    BY <1>1, <1>2, <1>3, <2>1 DEF Counts
  <2>6. Timely'
    BY <1>1, <1>6, <1>8, <2>2 DEF RetroarchInv, Timely
  <2>7. UploadGiven' /\ GivenUpExplained'
    BY <1>1, <1>3, <1>8, <2>1 DEF RetroarchInv, UploadGiven, GivenUpExplained, session, header
  <2> QED BY <1>4, <1>8, <2>1, <2>3, <2>4, <2>5, <2>6, <2>7 DEF RetroarchInv
<1> QED BY <1>5, <1>6, <1>7

(* A write to ROM is over, answered or not. *)
LEMMA ConfirmedKeeps ==
  ASSUME RetroarchInv, phase = "confirm", GoesOn(Advanced, "fill", "idle"),
         UNCHANGED <<header, req, recv_buf, session, asked>>,
         inbox' \in Seq({"data", "short", "-1", "done"}), RefusalsNoted',
         bounced' \in BOOLEAN, BouncesNoted',
         mishaps \subseteq mishaps',
         mishaps' \subseteq Mishaps,
         "late" \notin mishaps' => asked = <<>> /\ inbox' = <<>>
  PROVE  RetroarchInv'
<1>1. /\ HeadStands /\ TypeOK /\ Busy /\ Bytes(plan) \in Nat /\ Next512 \in Nat /\ Total \in Nat
      /\ sent \in Nat /\ recv_buf \in Nat /\ req.cmd = "PutAddress"
      /\ Bytes(plan) - Next512 = Total - sent + recv_buf
  <2>1. HeadStands /\ TypeOK /\ Busy /\ req.cmd = "PutAddress"
    BY DEF RetroarchInv, StagesFit, Busy
  <2>2. Bytes(plan) \in Nat /\ Next512 \in Nat /\ Total \in Nat
    BY <2>1, NextFits, ReqFacts
  <2>3. Bytes(plan) - Next512 = Total - sent + recv_buf
    BY DEF RetroarchInv, Counts
  <2> QED BY <2>1, <2>2, <2>3 DEF TypeOK
<1>2. Total' = Total /\ sent' = sent /\ recv_buf' = recv_buf /\ req'.cmd = "PutAddress" /\ ~Download'
  BY <1>1 DEF Total, session, Download
<1>3. /\ plan' \in Seq(Pieces) /\ PlanShows'
      /\ \/ phase' = "idle" /\ Bytes(plan) = Next512
         \/ phase' = "ended" /\ ~rom_access
         \/ phase' = "fill" /\ HeadStands' /\ Bytes(plan') = Bytes(plan) - Next512
  BY <1>1, CommandDone
<1>4. phase' \in {"idle", "ended", "fill"}
  BY <1>3
<1>5. TypeOK'
  BY <1>1, <1>3, <1>4 DEF TypeOK, header, session, Pieces, Mishaps
<1>6. StagesFit'
  BY <1>2, <1>3 DEF StagesFit, Busy
<1>7. Counts'
  BY <1>1, <1>2, <1>3 DEF Counts
<1>8. Timely'
  BY <1>4 DEF Timely
<1>9. UploadGiven'
  BY <1>2, <1>4 DEF RetroarchInv, UploadGiven, session
<1>10. GivenUpExplained'
  BY <1>3 DEF GivenUpExplained, header
<1> QED BY <1>3, <1>5, <1>6, <1>7, <1>8, <1>9, <1>10 DEF RetroarchInv

LEMMA ConfirmKeeps ==
  ASSUME RetroarchInv, Confirm
  PROVE  RetroarchInv'
<1>1. /\ phase = "confirm" /\ inbox # <<>> /\ inbox' = Tail(inbox)
      /\ UNCHANGED <<header, req, recv_buf, session, asked, bounced, mishaps>>
  BY DEF Confirm
<1>2. TypeOK /\ mishaps \subseteq Mishaps
  BY DEF RetroarchInv, TypeOK, Mishaps
<1>3. /\ inbox' \in Seq({"data", "short", "-1", "done"}) /\ RefusalsNoted'
      /\ Head(inbox) = "-1" => "refused" \in mishaps
      /\ Len(inbox) = 1 => inbox' = <<>>
  BY <1>1, <1>2, InboxTaken DEF RetroarchInv
<1>4. "late" \notin mishaps => asked = <<>> /\ inbox' = <<>>
  BY <1>1, <1>2, <1>3, OnlyAnswer DEF RetroarchInv
<1>7. bounced' \in BOOLEAN /\ BouncesNoted'
  BY <1>1 DEF RetroarchInv, TypeOK, BouncesNoted
<1>5. CASE Head(inbox) = "-1"
  <2>1. phase' = "ended" /\ plan' = plan
    BY <1>5 DEF Confirm
  <2>2. TypeOK'
    BY <1>1, <1>2, <1>3, <2>1 DEF TypeOK, header, session
  <2>3. StagesFit' /\ Counts' /\ Timely' /\ UploadGiven' /\ PlanShows'
    BY <2>1 DEF StagesFit, Counts, Timely, UploadGiven, PlanShows, Busy
  <2>4. GivenUpExplained'
    BY <1>1, <1>3, <1>5, <2>1 DEF GivenUpExplained
  <2> QED BY <1>3, <1>7, <2>2, <2>3, <2>4 DEF RetroarchInv
<1>6. CASE Head(inbox) # "-1"
  <2>1. GoesOn(Advanced, "fill", "idle")
    BY <1>6 DEF Confirm
  <2> QED BY <1>1, <1>2, <1>3, <1>4, <1>7, <2>1, ConfirmedKeeps
<1> QED BY <1>5, <1>6

LEMMA ConfirmTimeoutKeeps ==
  ASSUME RetroarchInv, ConfirmTimeout
  PROVE  RetroarchInv'
<1>1. /\ phase = "confirm" /\ GoesOn(Advanced, "fill", "idle")
      /\ bounced' \in {bounced, FALSE}
      /\ mishaps' = IF asked = <<>> /\ inbox = <<>> THEN mishaps ELSE mishaps \cup {"late"}
      /\ UNCHANGED <<header, req, recv_buf, session, asked, inbox>>
  BY DEF ConfirmTimeout
<1>2. /\ mishaps \subseteq Mishaps
      /\ inbox \in Seq({"data", "short", "-1", "done"}) /\ RefusalsNoted
      /\ bounced \in BOOLEAN /\ BouncesNoted
  BY DEF RetroarchInv, TypeOK, Mishaps
<1>3. mishaps \subseteq mishaps' /\ mishaps' \subseteq Mishaps
  BY <1>1, <1>2 DEF Mishaps
<1>6. bounced' \in BOOLEAN /\ BouncesNoted'
  <2>1. CASE bounced' = bounced
    BY <1>2, <1>3, <2>1 DEF BouncesNoted
  <2>2. CASE bounced' = FALSE
    BY <2>2 DEF BouncesNoted
  <2> QED BY <1>1, <2>1, <2>2
<1>4. RefusalsNoted' /\ inbox' \in Seq({"data", "short", "-1", "done"})
  BY <1>1, <1>2, <1>3 DEF RefusalsNoted
<1>5. "late" \notin mishaps' => asked = <<>> /\ inbox' = <<>>
  BY <1>1
<1> QED BY <1>1, <1>3, <1>4, <1>5, <1>6, ConfirmedKeeps

LEMMA SocketFailsKeeps ==
  ASSUME RetroarchInv, SocketFails
  PROVE  RetroarchInv'
<1>1. /\ phase' = "ended"
      /\ mishaps' = IF bounced THEN mishaps ELSE mishaps \cup {"broken"}
      /\ UNCHANGED <<header, req, plan, recv_buf, session, asked, inbox, bounced>>
  BY DEF SocketFails
<1>2. TypeOK'
  BY <1>1 DEF RetroarchInv, TypeOK, header, session
<1>3. StagesFit' /\ Counts' /\ Timely' /\ UploadGiven' /\ PlanShows'
  BY <1>1 DEF StagesFit, Counts, Timely, UploadGiven, PlanShows, Busy
<1>4. RefusalsNoted' /\ BouncesNoted'
  BY <1>1 DEF RetroarchInv, RefusalsNoted, BouncesNoted
<1>5. GivenUpExplained'
  BY <1>1 DEF RetroarchInv, BouncesNoted, GivenUpExplained
<1> QED BY <1>2, <1>3, <1>4, <1>5 DEF RetroarchInv

LEMMA SessionKeeps ==
  ASSUME RetroarchInv, SessionForwards \/ SessionAbandons
  PROVE  RetroarchInv'
<1>1. /\ UNCHANGED <<header, phase, req, plan, recv_buf, sent, asked, inbox, bounced>>
      /\ mishaps' = mishaps \/ mishaps' = mishaps \cup {"abandoned"}
      /\ taken' \in {taken, sent} /\ listening' \in BOOLEAN
      /\ \/ Download
         \/ req.cmd = "PutAddress" /\ "abandoned" \in mishaps'
  BY DEF SessionForwards, SessionAbandons
<1>2. TypeOK'
  <2>1. mishaps' \subseteq Mishaps
    BY <1>1 DEF RetroarchInv, TypeOK, Mishaps
  <2>2. taken' \in Nat
    BY <1>1 DEF RetroarchInv, TypeOK
  <2> QED BY <1>1, <2>1, <2>2 DEF RetroarchInv, TypeOK, header, Mishaps
<1>3. StagesFit' /\ Counts' /\ RefusalsNoted' /\ BouncesNoted'
  BY <1>1 DEF RetroarchInv, StagesFit, HeadStands, Busy, Download, Counts, Total, Next512,
     RefusalsNoted, BouncesNoted
<1>4. Timely'
  BY <1>1 DEF RetroarchInv, Timely
<1>5. UploadGiven'
  <2>1. Download => phase \notin {"fill", "confirm"}
    BY DEF RetroarchInv, StagesFit, Download
  <2> QED BY <1>1, <2>1 DEF UploadGiven
<1>6. PlanShows'
  BY <1>1, SamePlan DEF RetroarchInv, Busy
<1>7. GivenUpExplained'
  BY <1>1 DEF RetroarchInv, GivenUpExplained, header
<1> QED BY <1>2, <1>3, <1>4, <1>5, <1>6, <1>7 DEF RetroarchInv

LEMMA TakeKeeps ==
  ASSUME RetroarchInv, NEW cmd \in {"GetAddress", "PutAddress"}, NEW l \in Lists, Take(cmd, l)
  PROVE  RetroarchInv'
<1> DEFINE busy == IF cmd = "GetAddress" THEN "read" ELSE "fill"
           finished == IF cmd = "GetAddress" THEN "closing" ELSE "idle"
<1>1. /\ phase = "idle" /\ req' = [cmd |-> cmd, list |-> l]
      /\ recv_buf' = 0 /\ sent' = 0 /\ taken' = 0
      /\ listening' = (cmd = "PutAddress" \/ Bytes(l) > 0)
      /\ mishaps' = Lasting /\ UNCHANGED <<header, inbox, asked, bounced>>
  BY DEF Take
<1>2. l \in Seq(AddressInfos) /\ Bytes(l) \in Nat
  <2>1. l \in Seq(AddressInfos)
    BY ListsAssumption DEF AddressInfos
  <2> QED BY <2>1, InfosAreSized, SizesAreNumbers
<1>3. /\ req'.cmd = cmd /\ req'.list = l /\ Total' = Bytes(l)
      /\ rom_mapping' = rom_mapping /\ rom_access' = rom_access
      /\ Download' <=> cmd = "GetAddress"
  BY <1>1 DEF Total, Download, header
<1>4. \/ phase' = "ended" /\ ~Supported(rom_mapping) /\ plan' = <<>>
      \/ Mappable(l) /\ GoesOn(MapAddresses(l), busy, finished)
  BY DEF Take, Mappable
<1>5. \/ /\ phase' = "ended" /\ (~rom_access \/ ~Supported(rom_mapping))
         /\ plan' \in Seq(Pieces)
      \/ phase' = finished /\ plan' \in Seq(Pieces) /\ Bytes(l) = 0
      \/ /\ phase' = busy /\ plan' \in Seq(Pieces) /\ HeadStands' /\ Bytes(plan') = Bytes(l)
         /\ InReach(l) => Shows(rom_mapping, plan', WantedOf(l), 0, Bytes(l))
  <2>1. CASE phase' = "ended" /\ ~Supported(rom_mapping) /\ plan' = <<>>
    <3>1. <<>> \in Seq(Pieces)
      OBVIOUS
    <3> QED BY <2>1, <3>1
  <2>2. CASE Mappable(l) /\ GoesOn(MapAddresses(l), busy, finished)
    <3>1. /\ MapAddresses(l) \in Seq(Pieces) /\ Bytes(MapAddresses(l)) = Bytes(l)
          /\ InReach(l) => Shows(rom_mapping, MapAddresses(l), WantedOf(l), 0, Bytes(l))
      BY <1>2, <2>2, TransferShown
    <3>2. \/ phase' = finished /\ plan' = <<>> /\ Bytes(MapAddresses(l)) = 0
          \/ phase' = "ended" /\ ~rom_access /\ plan' \in Seq(Pieces)
          \/ /\ phase' = busy /\ plan' \in Seq(Pieces) /\ plan' # <<>>
             /\ Head(plan').size > 0 /\ Bytes(plan') = Bytes(MapAddresses(l))
             /\ \A mapping, w, k, n :
                  Shows(mapping, MapAddresses(l), w, k, n) => Shows(mapping, plan', w, k, n)
      BY <2>2, <3>1, GoesOnStands
    <3>3. <<>> \in Seq(Pieces)
      OBVIOUS
    <3> HIDE DEF busy, finished
    <3>4. CASE phase' = finished /\ plan' = <<>> /\ Bytes(MapAddresses(l)) = 0
      BY <3>1, <3>3, <3>4
    <3>5. CASE phase' = "ended" /\ ~rom_access /\ plan' \in Seq(Pieces)
      BY <3>5
    <3>6. CASE /\ phase' = busy /\ plan' \in Seq(Pieces) /\ plan' # <<>>
               /\ Head(plan').size > 0 /\ Bytes(plan') = Bytes(MapAddresses(l))
               /\ \A mapping, w, k, n :
                    Shows(mapping, MapAddresses(l), w, k, n) => Shows(mapping, plan', w, k, n)
      <4>1. HeadStands'
        BY <3>6 DEF HeadStands
      <4>2. InReach(l) => Shows(rom_mapping, plan', WantedOf(l), 0, Bytes(l))
        BY <3>1, <3>6
      <4> QED BY <3>1, <3>6, <4>1, <4>2
    <3> QED BY <3>2, <3>4, <3>5, <3>6
  <2> QED BY <1>4, <2>1, <2>2
<1>6. /\ phase' \in {"ended", "closing", "idle", "read", "fill"}
      /\ phase' \in {"read", "closing"} => cmd = "GetAddress"
      /\ phase' \in {"fill", "idle"} => cmd = "PutAddress"
  BY <1>5
<1>7. TypeOK'
  <2>1. req' \in [cmd : {"Info", "GetAddress", "PutAddress"}, list : Lists \cup {<<>>}]
    BY <1>1
  <2>2. plan' \in Seq(Pieces) /\ mishaps' \subseteq Mishaps
    BY <1>1, <1>5 DEF Lasting, Mishaps
  <2>3. listening' \in BOOLEAN
    BY <1>1
  <2> QED BY <1>1, <1>6, <2>1, <2>2, <2>3 DEF RetroarchInv, TypeOK, header, Pieces, Mishaps
<1>8. StagesFit'
  BY <1>3, <1>5, <1>6 DEF StagesFit, Busy
<1>9. Counts'
  BY <1>1, <1>2, <1>3, <1>5, <1>6 DEF Counts
<1>10. Timely'
  BY <1>1, <1>6 DEF RetroarchInv, Timely, Lasting
<1>11. RefusalsNoted' /\ BouncesNoted'
  BY <1>1 DEF RetroarchInv, RefusalsNoted, BouncesNoted, Lasting
<1>12. UploadGiven'
  BY <1>1, <1>6 DEF UploadGiven
<1>13. PlanShows'
  <2>1. InReach(req.list)' <=> InReach(l)
    BY <1>3 DEF InReach
  <2> SUFFICES ASSUME Busy', InReach(l)
               PROVE  Shows(rom_mapping', plan', WantedOf(l), Bytes(l) - Bytes(plan'), Bytes(plan'))
    BY <1>3, <2>1 DEF PlanShows
  <2>2. Bytes(plan') = Bytes(l) /\ Shows(rom_mapping, plan', WantedOf(l), 0, Bytes(l))
    <3>1. phase' \in {"read", "fill"}
      BY <1>6 DEF Busy
    <3> QED BY <1>5, <3>1
  <2>3. Bytes(l) - Bytes(plan') = 0
    BY <1>2, <2>2
  <2> QED BY <1>3, <2>2, <2>3
<1>14. GivenUpExplained'
  BY <1>3, <1>5, <1>6 DEF GivenUpExplained
<1> QED BY <1>7, <1>8, <1>9, <1>10, <1>11, <1>12, <1>13, <1>14 DEF RetroarchInv

(* RetroArch has dealt with its oldest command: it answered, with what the *)
(* command asks for or a refusal, or it did not.                           *)
LEMMA AnswersKeeps ==
  ASSUME RetroarchInv, Answers \/ Lost
  PROVE  RetroarchInv'
<1>1. /\ asked # <<>> /\ asked' = Tail(asked)
      /\ UNCHANGED <<header, phase, req, plan, recv_buf, session, bounced>>
  BY DEF Answers, Lost
<1>2. \/ inbox' = inbox /\ mishaps' = mishaps
      \/ \E m \in {"data", "short", "-1", "done"} :
           /\ inbox' = Append(inbox, m) /\ (m = "done" => Head(asked) # "read")
           /\ mishaps' = IF m = "-1" THEN mishaps \cup {"refused"} ELSE mishaps
  <2>1. CASE Answers
    <3>1. PICK m \in {"-1"} \cup IF Head(asked) = "read" THEN {"data", "short"} ELSE {"done"} :
            /\ inbox' = Append(inbox, m)
            /\ mishaps' = IF m = "-1" THEN mishaps \cup {"refused"} ELSE mishaps
      BY <2>1 DEF Answers
    <3>2. m \in {"data", "short", "-1", "done"} /\ (m = "done" => Head(asked) # "read")
      OBVIOUS
    <3> QED BY <3>1, <3>2
  <2>2. CASE Lost
    BY <2>2 DEF Lost
  <2> QED BY <2>1, <2>2
<1>3. /\ asked \in Seq({"read", "write"}) /\ inbox \in Seq({"data", "short", "-1", "done"})
      /\ mishaps \subseteq Mishaps
  BY DEF RetroarchInv, TypeOK, Mishaps
<1>4. /\ Head(asked) = asked[1] /\ 1 \in 1..Len(asked) /\ Len(asked) \in Nat \ {0}
      /\ asked' \in Seq({"read", "write"}) /\ Len(asked') = Len(asked) - 1
      /\ \A i \in 1..Len(asked') : i + 1 \in 1..Len(asked) /\ asked'[i] = asked[i + 1]
  BY <1>1, <1>3, TailFacts
<1>5. /\ inbox' \in Seq({"data", "short", "-1", "done"})
      /\ Len(inbox) \in Nat /\ Len(inbox') \in {Len(inbox), Len(inbox) + 1}
      /\ mishaps' \subseteq Mishaps
      /\ mishaps \subseteq mishaps' /\ ("late" \in mishaps' => "late" \in mishaps)
      /\ \A i \in 1..Len(inbox') :
           \/ i \in 1..Len(inbox) /\ inbox'[i] = inbox[i]
           \/ /\ inbox'[i] = "-1" => "refused" \in mishaps'
              /\ inbox'[i] = "done" => Head(asked) # "read"
  <2>1. CASE inbox' = inbox /\ mishaps' = mishaps
    BY <1>3, <2>1, LenProperties
  <2>2. CASE \E m \in {"data", "short", "-1", "done"} :
               /\ inbox' = Append(inbox, m) /\ (m = "done" => Head(asked) # "read")
               /\ mishaps' = IF m = "-1" THEN mishaps \cup {"refused"} ELSE mishaps
    <3>1. PICK m \in {"data", "short", "-1", "done"} :
            /\ inbox' = Append(inbox, m) /\ (m = "done" => Head(asked) # "read")
            /\ mishaps' = IF m = "-1" THEN mishaps \cup {"refused"} ELSE mishaps
      BY <2>2
    <3>2. /\ inbox' \in Seq({"data", "short", "-1", "done"}) /\ Len(inbox') = Len(inbox) + 1
          /\ \A i \in 1..Len(inbox) : inbox'[i] = inbox[i]
          /\ inbox'[Len(inbox) + 1] = m
      BY <1>3, <3>1, AppendProperties
    <3>3. Len(inbox) \in Nat /\ \A i \in 1..(Len(inbox) + 1) : i \in 1..Len(inbox) \/ i = Len(inbox) + 1
      BY <1>3, LenProperties
    <3>4. /\ mishaps' \subseteq Mishaps
          /\ mishaps \subseteq mishaps' /\ ("late" \in mishaps' => "late" \in mishaps)
          /\ m = "-1" => "refused" \in mishaps'
      BY <1>3, <3>1 DEF Mishaps
    <3>5. ASSUME NEW i \in 1..Len(inbox')
          PROVE  \/ i \in 1..Len(inbox) /\ inbox'[i] = inbox[i]
                 \/ /\ inbox'[i] = "-1" => "refused" \in mishaps'
                    /\ inbox'[i] = "done" => Head(asked) # "read"
      BY <3>1, <3>2, <3>3, <3>4
    <3> QED BY <3>2, <3>3, <3>4, <3>5
  <2> QED BY <1>2, <2>1, <2>2
<1>6. TypeOK'
  BY <1>1, <1>4, <1>5 DEF RetroarchInv, TypeOK, header, session, Mishaps
<1>7. StagesFit' /\ Counts'
  BY <1>1 DEF RetroarchInv, StagesFit, HeadStands, Busy, Download, Counts, Total, Next512, session
<1>8. Timely'
  <2> SUFFICES ASSUME "late" \notin mishaps
               PROVE  /\ phase \notin {"spoilt", "panicked", "idle", "read", "closing", "fill"}
                      /\ phase \in {"await", "confirm"} => Len(asked') + Len(inbox') <= 1
                      /\ phase = "await" => /\ \A i \in 1..Len(asked') : asked'[i] = "read"
                                            /\ \A i \in 1..Len(inbox') : inbox'[i] # "done"
    BY <1>1, <1>5 DEF Timely
  <2>1. phase \notin {"spoilt", "panicked", "idle", "read", "closing", "fill"}
    BY <1>1 DEF RetroarchInv, Timely
  <2>2. phase \in {"await", "confirm"} => Len(asked') + Len(inbox') <= 1
    <3>1. phase \in {"await", "confirm"} => Len(asked) + Len(inbox) <= 1
      BY DEF RetroarchInv, Timely
    <3> DEFINE a == Len(asked)
               b == Len(inbox)
               c == Len(inbox')
    <3>2. a \in Nat \ {0} /\ b \in Nat /\ c \in {b, b + 1} /\ Len(asked') = a - 1
      BY <1>4, <1>5
    <3> HIDE DEF a, b, c
    <3>3. a + b <= 1 => (a - 1) + c <= 1
      BY <3>2
    <3> QED BY <3>1, <3>2, <3>3 DEF a, b, c
  <2>3. ASSUME phase = "await"
        PROVE  /\ \A i \in 1..Len(asked') : asked'[i] = "read"
               /\ \A i \in 1..Len(inbox') : inbox'[i] # "done"
    <3>1. /\ \A i \in 1..Len(asked) : asked[i] = "read"
          /\ \A i \in 1..Len(inbox) : inbox[i] # "done"
      BY <2>3 DEF RetroarchInv, Timely
    <3>2. Head(asked) = "read"
      BY <1>4, <3>1
    <3> QED BY <1>4, <1>5, <3>1, <3>2
  <2> QED BY <2>1, <2>2, <2>3
<1>9. RefusalsNoted'
  <2>1. \A i \in 1..Len(inbox) : inbox[i] = "-1" => "refused" \in mishaps
    BY DEF RetroarchInv, RefusalsNoted
  <2> QED BY <1>5, <2>1 DEF RefusalsNoted
<1>10. UploadGiven' /\ BouncesNoted' /\ GivenUpExplained'
  BY <1>1, <1>5 DEF RetroarchInv, UploadGiven, BouncesNoted, GivenUpExplained, Total, header, session
<1>11. PlanShows'
  BY <1>1, SamePlan DEF RetroarchInv, Busy
<1> QED BY <1>5, <1>6, <1>7, <1>8, <1>9, <1>10, <1>11 DEF RetroarchInv

LEMMA StutterKeepsRetroarch ==
  ASSUME RetroarchInv, UNCHANGED vars
  PROVE  RetroarchInv'
<1>1. /\ UNCHANGED <<header, req, plan>> /\ UNCHANGED <<session, phase, recv_buf>>
      /\ UNCHANGED <<asked, inbox, bounced, mishaps>>
  BY DEF vars
<1>2. TypeOK'
  BY <1>1 DEF RetroarchInv, TypeOK, header, session
<1>3. StagesFit' /\ Counts'
  BY <1>1 DEF RetroarchInv, StagesFit, HeadStands, Busy, Download, Counts, Total, Next512, session
<1>4. Timely' /\ RefusalsNoted' /\ BouncesNoted'
  BY <1>1 DEF RetroarchInv, Timely, RefusalsNoted, BouncesNoted
<1>5. UploadGiven' /\ GivenUpExplained'
  BY <1>1 DEF RetroarchInv, UploadGiven, GivenUpExplained, Total, header, session
<1>6. PlanShows'
  BY <1>1, SamePlan DEF RetroarchInv, Busy
<1> QED BY <1>2, <1>3, <1>4, <1>5, <1>6 DEF RetroarchInv

(* One step for each of the actions. *)
LEMMA RetroarchStep == RetroarchInv /\ [Next]_vars => RetroarchInv'
<1> SUFFICES ASSUME RetroarchInv, [Next]_vars PROVE RetroarchInv'
  OBVIOUS
<1>1. ASSUME NEW cmd \in {"GetAddress", "PutAddress"}, NEW l \in Lists, Take(cmd, l)
      PROVE  RetroarchInv'
  BY <1>1, TakeKeeps
<1>2. CASE SendRead
  BY <1>2, SendReadKeeps
<1>3. CASE ReadAnswer
  BY <1>3, ReadAnswerKeeps
<1>4. CASE ReadTimeout
  BY <1>4, ReadTimeoutKeeps
<1>5. CASE DownloadEnds
  BY <1>5, DownloadEndsKeeps
<1>6. CASE GotZeroData
  BY <1>6, GotZeroDataKeeps
<1>7. CASE SendWrite
  BY <1>7, SendWriteKeeps
<1>8. CASE Confirm
  BY <1>8, ConfirmKeeps
<1>9. CASE ConfirmTimeout
  BY <1>9, ConfirmTimeoutKeeps
<1>10. CASE Fill
  BY <1>10, FillKeeps
<1>11. CASE SessionForwards \/ SessionAbandons
  BY <1>11, SessionKeeps
<1>12. CASE Answers \/ Lost
  BY <1>12, AnswersKeeps
<1>14. CASE SocketFails
  BY <1>14, SocketFailsKeeps
<1>13. CASE Stays \/ UNCHANGED vars
  BY <1>13, StutterKeepsRetroarch DEF Stays
<1> QED
  BY <1>1, <1>2, <1>3, <1>4, <1>5, <1>6, <1>7, <1>8, <1>9, <1>10, <1>11, <1>12, <1>13, <1>14
  DEF Next, DeviceTask

(* Whatever RetroArch answers, refuses, answers late or not at all, and    *)
(* however frames and commands are cut, the task's plan shows the rest of  *)
(* the request in hand, and only a late answer to a write spoils a read.   *)
THEOREM RetroarchInvariant == Spec => []RetroarchInv
<1>1. Init => RetroarchInv
  BY InitialRetroarch
<1>2. RetroarchInv /\ [Next]_vars => RetroarchInv'
  BY RetroarchStep
<1> QED BY <1>1, <1>2, PTL DEF Spec

(* The state of a Retroarch task and of what is under way to and from its  *)
(* emulator stays of its type.                                             *)
THEOREM RetroarchTypeCorrect == Spec => []TypeOK
<1>1. RetroarchInv => TypeOK
  BY DEF RetroarchInv
<1> QED BY <1>1, RetroarchInvariant, PTL

(* No byte of a transfer is lost or made up between the session, the       *)
(* task's buffer and the commands, and a request that is done has moved    *)
(* all that was asked for.                                                 *)
THEOREM AddsUpCorrect == Spec => []AddsUp
<1>1. RetroarchInv => AddsUp
  <2> SUFFICES ASSUME RetroarchInv PROVE AddsUp
    OBVIOUS
  <2>1. TypeOK /\ StagesFit /\ Counts
    BY DEF RetroarchInv
  <2>2. Total \in Nat /\ sent \in Nat /\ recv_buf \in Nat /\ Bytes(plan) \in Nat
    BY <2>1, ReqFacts DEF TypeOK
  <2>3. Download => req.cmd # "PutAddress"
    BY DEF Download
  <2>4. CASE phase \in {"read", "await", "spoilt"}
    BY <2>1, <2>2, <2>4 DEF AddsUp, Busy, StagesFit, Counts
  <2>5. CASE phase = "closing"
    BY <2>1, <2>2, <2>5 DEF AddsUp, Busy, StagesFit, Counts
  <2>6. CASE phase = "fill"
    BY <2>1, <2>2, <2>3, <2>6 DEF AddsUp, Busy, StagesFit, Counts
  <2>7. CASE phase = "confirm"
    BY <2>1, <2>2, <2>3, <2>7 DEF AddsUp, Busy, StagesFit, Counts
  <2>8. CASE phase = "idle"
    BY <2>1, <2>2, <2>8 DEF AddsUp, Busy, Counts
  <2>9. CASE phase \notin {"read", "await", "spoilt", "closing", "fill", "confirm", "idle"}
    BY <2>9 DEF AddsUp, Busy
  <2> QED BY <2>4, <2>5, <2>6, <2>7, <2>8, <2>9
<1> QED BY <1>1, RetroarchInvariant, PTL

(* Each command, of a download or an upload, is about the bytes of the     *)
(* request whose turn it is, wherever the addresses and the mapping of the *)
(* ROM put them, and stays in one bank.                                    *)
THEOREM RightPlaceCorrect == Spec => []RightPlace
<1>1. RetroarchInv => RightPlace
  <2> SUFFICES ASSUME RetroarchInv, Busy, InReach(req.list)
               PROVE  LET k == Total - Bytes(plan)
                          at(j) == Shown(rom_mapping, Head(plan).domain, Target + j) IN
                      /\ at(0) = Wanted(req.list, k)
                      /\ at(Next512 - 1) = Wanted(req.list, k + Next512 - 1)
                      /\ Head(plan).domain = "CARTROM" =>
                           Target \div Bank = (Target + Next512 - 1) \div Bank
    BY DEF RightPlace
  <2> DEFINE k == Total - Bytes(plan)
             e == Head(plan)
             w == WantedOf(req.list)
             N == Next512
  <2>1. HeadStands /\ Shows(rom_mapping, plan, w, k, Bytes(plan))
    BY DEF RetroarchInv, StagesFit, PlanShows
  <2>2. /\ e \in Pieces /\ e = plan[1] /\ Len(plan) \in Nat \ {0}
        /\ N \in Nat \ {0} /\ N <= e.size
    BY <2>1, NextFits
  <2>3. Target = Place(e)
    BY DEF Target
  <2>4. \A j \in Nat : w[j] = Wanted(req.list, j)
    BY DEF WantedOf
  <2> HIDE DEF k, e, w, N
  <2>5. k \in Nat /\ PieceShows(rom_mapping, e, w, k, k + e.size)
    <3>1. PICK f \in [1..(Len(plan) + 1) -> Nat] :
            /\ f[1] = k
            /\ \A i \in 1..Len(plan) : PieceShows(rom_mapping, plan[i], w, f[i], f[i + 1])
      BY <2>1 DEF Shows
    <3>2. 1 \in 1..Len(plan) /\ 1 \in 1..(Len(plan) + 1)
      BY <2>2
    <3>3. k \in Nat /\ PieceShows(rom_mapping, e, w, k, f[1 + 1])
      BY <2>2, <3>1, <3>2
    <3>4. f[1 + 1] = k + e.size
      BY <3>3 DEF PieceShows
    <3> QED BY <3>3, <3>4
  <2>6. e.size \in Nat /\ e.address \in Nat
    BY <2>2 DEF Pieces
  <2>7. 0 \in 0..(e.size - 1) /\ N - 1 \in 0..(e.size - 1)
    BY <2>2, <2>6
  <2>8. \A j \in 0..(e.size - 1) :
          /\ Shown(rom_mapping, e.domain, Target + j) = w[k + j]
          /\ e.domain = "CARTROM" => (e.address + j) \div Bank = e.address \div Bank
    BY <2>3, <2>5 DEF PieceShows
  <2>9. k + 0 = k /\ k + (N - 1) = k + N - 1 /\ k + N - 1 \in Nat
    BY <2>2, <2>5
  <2>10. Shown(rom_mapping, e.domain, Target + 0) = Wanted(req.list, k)
    BY <2>4, <2>5, <2>7, <2>8, <2>9
  <2>11. Shown(rom_mapping, e.domain, Target + (N - 1)) = Wanted(req.list, k + N - 1)
    BY <2>4, <2>7, <2>8, <2>9
  <2>12. ASSUME e.domain = "CARTROM" PROVE Target \div Bank = (Target + N - 1) \div Bank
    <3>1. Target = e.address
      BY <2>3, <2>12 DEF Place
    <3>2. (e.address + (N - 1)) \div Bank = e.address \div Bank
      BY <2>7, <2>8, <2>12
    <3>3. e.address + (N - 1) = e.address + N - 1
      BY <2>2, <2>6
    <3> QED BY <3>1, <3>2, <3>3
  <2> QED BY <2>10, <2>11, <2>12 DEF k, e, N
<1> QED BY <1>1, RetroarchInvariant, PTL

(* The task gives its device up only where RetroArch refused, did not      *)
(* answer or was not there, the socket broke, a session left its upload, or ROM was asked for that cannot be  *)
(* reached, and is lost by a panic only after a write answered too late.   *)
THEOREM GivenUpExplainedCorrect == Spec => []GivenUpExplained
<1>1. RetroarchInv => GivenUpExplained
  BY DEF RetroarchInv
<1> QED BY <1>1, RetroarchInvariant, PTL
=============================================================================
