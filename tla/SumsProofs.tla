----------------------------- MODULE SumsProofs -----------------------------
(* What SumOf does, proved by taking the least number at which it would    *)
(* not: an induction that quantifies over sets instead of predicates.      *)
EXTENDS Sums, WellFoundedInduction, SequenceTheorems, TLAPS

(* Every set of numbers that is not empty has a least one.                 *)
LEMMA LeastNumber ==
  ASSUME NEW T \in SUBSET Nat, T # {}
  PROVE  \E x \in T : \A y \in T : x <= y
  <1>1. PICK x \in T : \A y \in T : ~(<<y, x>> \in OpToRel(<, Nat))
    BY WFMin, NatLessThanWellFounded
  <1>2. \A y \in T : ~(y < x)
    BY <1>1 DEF OpToRel
  <1> QED BY <1>2

(* What Max chooses from some of the first n numbers.                      *)
LEMMA MaxChooses ==
  ASSUME NEW n \in Nat, NEW S \in SUBSET (1..n), S # {}
  PROVE  Max(S) \in S /\ \A x \in S : x <= Max(S)
  <1> DEFINE Bounds == {m \in Nat : \A x \in S : x <= m}
  <1>1. n \in Bounds
    OBVIOUS
  <1>2. PICK m \in Bounds : \A k \in Bounds : m <= k
    BY <1>1, LeastNumber
  <1>3. m \in S
    <2> SUFFICES ASSUME m \notin S PROVE FALSE
      OBVIOUS
    <2>1. \A x \in S : x \in Nat /\ 1 <= x /\ x <= m /\ x # m
      OBVIOUS
    <2>2. m # 0
      <3>1. PICK x \in S : TRUE
        OBVIOUS
      <3>2. x \in Nat /\ 1 <= x /\ x <= m
        BY <2>1
      <3> QED BY <3>2
    <2>3. m - 1 \in Nat /\ \A x \in S : x <= m - 1
      BY <2>1, <2>2
    <2>4. m <= m - 1
      BY <1>2, <2>3
    <2> QED BY <2>4
  <1>4. \E x \in S : \A y \in S : x >= y
    BY <1>3
  <1> HIDE DEF Bounds
  <1> QED BY <1>4 DEF Max

(* What the fold of SumOf leaves when it has taken the greatest away.      *)
LEMMA MaxTaken ==
  ASSUME NEW n \in Nat, NEW S \in SUBSET (1..n), S # {}
  PROVE  Max(S) \in 1..n /\ S \ {Max(S)} \in SUBSET (1..(n - 1))
  <1>1. Max(S) \in S /\ \A x \in S : x <= Max(S)
    BY MaxChooses
  <1>2. Max(S) \in 1..n
    BY <1>1
  <1> DEFINE m == Max(S)
  <1> HIDE DEF m
  <1>3. m \in 1..n /\ \A x \in S : x <= m
    BY <1>1, <1>2 DEF m
  <1>4. \A x \in S : x # m => x \in 1..(n - 1)
    BY <1>3
  <1> QED BY <1>2, <1>4 DEF m

(* it is a fold of the sum of s over sets of its first n places.           *)
IsFold(it, s, n) ==
  it = [S \in SUBSET (1..n) |-> IF S = {} THEN 0 ELSE it[S \ {Max(S)}] + s[Max(S)]]

(* There is such a fold.                                                   *)
LEMMA FoldExists ==
  ASSUME NEW s \in Seq(Nat)
  PROVE  \E it : IsFold(it, s, Len(s))
  <1> DEFINE None == {n \in 0..Len(s) : ~ \E it : IsFold(it, s, n)}
  <1> SUFFICES ASSUME None # {} PROVE FALSE
    <2>1. Len(s) \in 0..Len(s)
      OBVIOUS
    <2> QED BY <2>1
  <1>0. None \in SUBSET Nat
    OBVIOUS
  <1>1. PICK n \in None : \A k \in None : n <= k
    BY <1>0, LeastNumber
  <1>2. n # 0
    <2> SUFFICES ASSUME n = 0 PROVE \E it : IsFold(it, s, n)
      OBVIOUS
    <2> DEFINE it == [S \in SUBSET (1..n) |-> 0]
    <2>1. SUBSET (1..n) = {{}}
      OBVIOUS
    <2>2. it = [S \in SUBSET (1..n) |-> IF S = {} THEN 0 ELSE it[S \ {Max(S)}] + s[Max(S)]]
      BY <2>1
    <2> HIDE DEF it
    <2> QED BY <2>2 DEF IsFold
  <1>3. PICK g : IsFold(g, s, n - 1)
    <2>1. n - 1 \in 0..Len(s) /\ ~(n <= n - 1)
      BY <1>2
    <2>2. n - 1 \notin None
      BY <1>1, <2>1
    <2> QED BY <2>1, <2>2
  <1> DEFINE it == [S \in SUBSET (1..n) |->
                      IF S = {} THEN 0 ELSE g[S \ {Max(S)}] + s[Max(S)]]
  <1>4. \A S \in SUBSET (1..(n - 1)) : it[S] = g[S]
    <2>1. \A S \in SUBSET (1..(n - 1)) : S \in SUBSET (1..n)
      OBVIOUS
    <2> QED BY <1>3, <2>1 DEF IsFold
  <1>5. \A S \in SUBSET (1..n) : S # {} => S \ {Max(S)} \in SUBSET (1..(n - 1))
    BY MaxTaken
  <1>6. it = [S \in SUBSET (1..n) |-> IF S = {} THEN 0 ELSE it[S \ {Max(S)}] + s[Max(S)]]
    BY <1>4, <1>5
  <1> HIDE DEF it
  <1>7. \E f : IsFold(f, s, n)
    BY <1>6 DEF IsFold
  <1> QED BY <1>7

(* SumOf takes its value from one.                                         *)
LEMMA SumByFold ==
  ASSUME NEW s \in Seq(Nat)
  PROVE  \E it : IsFold(it, s, Len(s)) /\ SumOf(s) = it[1..Len(s)]
  <1> DEFINE it == CHOOSE it : IsFold(it, s, Len(s))
  <1>1. IsFold(it, s, Len(s))
    BY FoldExists
  <1>2. SumOf(s) = it[1..Len(s)]
    <2>1. DOMAIN s = 1..Len(s)
      OBVIOUS
    <2> QED BY <2>1 DEF SumOf, FoldLeft, MapThenFoldSet, IsFold
  <1> HIDE DEF it
  <1> QED BY <1>1, <1>2

(* SumOf is a number.                                                      *)
LEMMA SumIsNumber ==
  ASSUME NEW s \in Seq(Nat)
  PROVE  SumOf(s) \in Nat
  <1>1. PICK it : IsFold(it, s, Len(s)) /\ SumOf(s) = it[1..Len(s)]
    BY SumByFold
  <1> DEFINE Odd == {n \in 0..Len(s) : \E S \in SUBSET (1..n) : it[S] \notin Nat}
  <1>3. Odd = {}
    <2> SUFFICES ASSUME Odd # {} PROVE FALSE
      OBVIOUS
    <2>0. Odd \in SUBSET Nat
      OBVIOUS
    <2>1. PICK n \in Odd : \A k \in Odd : n <= k
      BY <2>0, LeastNumber
    <2>2. PICK S \in SUBSET (1..n) : it[S] \notin Nat
      OBVIOUS
    <2>3. it[S] = IF S = {} THEN 0 ELSE it[S \ {Max(S)}] + s[Max(S)]
      <3>1. S \in SUBSET (1..Len(s))
        OBVIOUS
      <3> QED BY <1>1, <3>1 DEF IsFold
    <2>4. S # {}
      BY <2>2, <2>3
    <2>5. Max(S) \in 1..n /\ S \ {Max(S)} \in SUBSET (1..(n - 1))
      BY <2>4, MaxTaken
    <2>6. it[S \ {Max(S)}] \in Nat
      <3>1. n - 1 \in 0..Len(s) /\ ~(n <= n - 1)
        BY <2>5
      <3>2. n - 1 \notin Odd
        BY <2>1, <3>1
      <3> QED BY <3>1, <3>2, <2>5
    <2>7. s[Max(S)] \in Nat
      BY <2>5
    <2> QED BY <2>2, <2>3, <2>4, <2>6, <2>7
  <1>4. it[1..Len(s)] \in Nat
    <2>1. Len(s) \in 0..Len(s) /\ 1..Len(s) \in SUBSET (1..Len(s))
      OBVIOUS
    <2> QED BY <1>3, <2>1
  <1> QED BY <1>1, <1>4

(* The sum of nothing. *)
LEMMA SumOfNone == SumOf(<<>>) = 0
  <1>1. <<>> \in Seq(Nat) /\ Len(<<>>) = 0
    OBVIOUS
  <1>2. PICK it : IsFold(it, <<>>, 0) /\ SumOf(<<>>) = it[1..0]
    BY <1>1, SumByFold
  <1>3. 1..0 = {} /\ {} \in SUBSET (1..0)
    OBVIOUS
  <1> QED BY <1>2, <1>3 DEF IsFold

(* One more number.                                                        *)
LEMMA SumOfMore ==
  ASSUME NEW s \in Seq(Nat), NEW x \in Nat
  PROVE  SumOf(Append(s, x)) = SumOf(s) + x
  <1> DEFINE t == Append(s, x)
             n == Len(s)
  <1>1. t \in Seq(Nat) /\ Len(t) = n + 1 /\ n \in Nat
    OBVIOUS
  <1>2. t[n + 1] = x /\ \A i \in 1..n : t[i] = s[i]
    OBVIOUS
  <1> HIDE DEF t
  <1>3. PICK f : IsFold(f, s, n) /\ SumOf(s) = f[1..n]
    BY SumByFold
  <1>4. PICK g : IsFold(g, t, n + 1) /\ SumOf(t) = g[1..(n + 1)]
    BY <1>1, SumByFold
  <1> HIDE DEF n
  <1> DEFINE Odd == {k \in 0..n : \E S \in SUBSET (1..k) : f[S] # g[S]}
  <1>5. Odd = {}
    <2> SUFFICES ASSUME Odd # {} PROVE FALSE
      OBVIOUS
    <2>1. Odd \in SUBSET Nat
      OBVIOUS
    <2>2. PICK k \in Odd : \A j \in Odd : k <= j
      BY <2>1, LeastNumber
    <2>3. PICK S \in SUBSET (1..k) : f[S] # g[S]
      OBVIOUS
    <2>4. S \in SUBSET (1..n) /\ S \in SUBSET (1..(n + 1))
      BY <1>1
    <2>5. /\ f[S] = IF S = {} THEN 0 ELSE f[S \ {Max(S)}] + s[Max(S)]
          /\ g[S] = IF S = {} THEN 0 ELSE g[S \ {Max(S)}] + t[Max(S)]
      BY <1>3, <1>4, <2>4 DEF IsFold
    <2>6. S # {}
      BY <2>3, <2>5
    <2>7. k \in Nat
      BY <1>1
    <2>8. Max(S) \in 1..k /\ S \ {Max(S)} \in SUBSET (1..(k - 1))
      BY <2>6, <2>7, MaxTaken
    <2>9. k - 1 \in 0..n /\ ~(k <= k - 1)
      BY <1>1, <2>7, <2>8
    <2>10. k - 1 \notin Odd
      BY <2>2, <2>9
    <2>11. f[S \ {Max(S)}] = g[S \ {Max(S)}]
      BY <2>8, <2>9, <2>10
    <2>12. s[Max(S)] = t[Max(S)]
      BY <1>1, <1>2, <2>7, <2>8
    <2> QED BY <2>3, <2>5, <2>6, <2>11, <2>12
  <1>6. f[1..n] = g[1..n]
    <2>1. n \in 0..n /\ 1..n \in SUBSET (1..n)
      BY <1>1
    <2> QED BY <1>5, <2>1
  <1>7. g[1..(n + 1)] = g[1..n] + x
    <2> DEFINE S == 1..(n + 1)
    <2>1. n + 1 \in S /\ S \in SUBSET (1..(n + 1)) /\ n + 1 \in Nat
      BY <1>1
    <2>2. Max(S) \in S /\ \A i \in S : i <= Max(S)
      BY <2>1, MaxChooses
    <2>3. Max(S) = n + 1
      <3> DEFINE m == Max(S)
      <3>1. m \in S /\ n + 1 <= m
        BY <2>1, <2>2
      <3> HIDE DEF m
      <3>2. m = n + 1
        BY <1>1, <3>1
      <3> QED BY <3>2 DEF m
    <2>4. S \ {n + 1} = 1..n
      BY <1>1
    <2>5. g[S] = g[S \ {Max(S)}] + t[Max(S)]
      BY <1>4, <2>1 DEF IsFold
    <2> QED BY <1>2, <2>3, <2>4, <2>5
  <1> QED BY <1>3, <1>4, <1>6, <1>7 DEF t

LEMMA AppendedLater ==
  ASSUME NEW s \in Seq(Nat), NEW t \in Seq(Nat), NEW x \in Nat
  PROVE  s \o Append(t, x) = Append(s \o t, x)
  OBVIOUS

(* The numbers of two sequences.                                           *)
LEMMA SumOfConcat ==
  ASSUME NEW s \in Seq(Nat), NEW t \in Seq(Nat)
  PROVE  SumOf(s \o t) = SumOf(s) + SumOf(t)
  <1> DEFINE u(n) == SubSeq(t, 1, n)
             Odd == {n \in 0..Len(t) : SumOf(s \o u(n)) # SumOf(s) + SumOf(u(n))}
  <1>1. Odd = {}
    <2> SUFFICES ASSUME Odd # {} PROVE FALSE
      OBVIOUS
    <2>1. Odd \in SUBSET Nat
      OBVIOUS
    <2>2. PICK n \in Odd : \A j \in Odd : n <= j
      BY <2>1, LeastNumber
    <2>3. n \in 0..Len(t) /\ Len(t) \in Nat
      OBVIOUS
    <2>4. CASE n = 0
      <3>1. u(0) = <<>> /\ s \o <<>> = s
        BY SubSeqEmpty, ConcatEmptySeq
      <3>2. SumOf(s) + 0 = SumOf(s)
        BY SumIsNumber
      <3> QED BY <2>2, <2>4, <3>1, <3>2, SumOfNone
    <2>5. CASE n # 0
      <3>1. n \in 1..Len(t) /\ 1 \in 1..Len(t) /\ n - 1 \in 0..Len(t) /\ ~(n <= n - 1)
        BY <2>3, <2>5
      <3>2. u(n) = u(n - 1) \o <<t[n]>>
        BY <3>1, SubSeqRecursiveSecond
      <3>3. SumOf(s \o u(n - 1)) = SumOf(s) + SumOf(u(n - 1))
        BY <2>2, <3>1
      <3>4. t[n] \in Nat /\ u(n - 1) \in Seq(Nat)
        <4>1. \A i \in 1..Len(t) : t[i] \in Nat
          BY ElementOfSeq
        <4>2. \A i \in 1..(n - 1) : t[i] \in Nat
          BY <4>1, <2>3
        <4> QED BY <2>3, <3>1, <4>1, <4>2, SubSeqProperties
      <3> DEFINE v == u(n - 1)
                 x == t[n]
      <3>5. u(n) # u(n) \/ SumOf(s \o u(n)) # SumOf(s) + SumOf(u(n))
        BY <2>2
      <3>6. v \in Seq(Nat) /\ x \in Nat /\ u(n) = v \o <<x>>
            /\ SumOf(s \o v) = SumOf(s) + SumOf(v)
        BY <3>2, <3>3, <3>4
      <3> HIDE DEF v, x, u
      <3>7. <<x>> \in Seq(Nat) /\ u(n) = Append(v, x) /\ s \o v \in Seq(Nat)
        BY <3>6, AppendIsConcat, ConcatProperties
      <3>8. s \o u(n) = Append(s \o v, x)
        <4> HIDE DEF Odd
        <4>1. s \o Append(v, x) = Append(s \o v, x)
          BY <3>6, AppendedLater
        <4> QED BY <3>7, <4>1
      <3>9. SumOf(s \o u(n)) = SumOf(s) + SumOf(v) + x /\ SumOf(u(n)) = SumOf(v) + x
        BY <3>6, <3>7, <3>8, SumOfMore
      <3>10. SumOf(s) \in Nat /\ SumOf(v) \in Nat
        BY <3>6, SumIsNumber
      <3> QED BY <3>5, <3>6, <3>9, <3>10
    <2> QED BY <2>4, <2>5
  <1>2. u(Len(t)) = t /\ Len(t) \in 0..Len(t)
    BY SubSeqFull
  <1> QED BY <1>1, <1>2
=============================================================================
