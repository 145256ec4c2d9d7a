--------------------------- MODULE SnapshotsProofs ---------------------------
(***************************************************************************)
(* Proofs about the snapshots of the validator set: a node that starts     *)
(* from the files it finds accepts its own chain, and the snapshot at the  *)
(* head has the validators of the epoch, for any epoch size, any sets and  *)
(* any number of crashes, restarts, failed writes and failed hooks.        *)
(***************************************************************************)
EXTENDS Snapshots, WellFoundedInduction, TLAPS

-----------------------------------------------------------------------------
(* Numbers *)

\* The smallest of a set of naturals.
LEMMA MinNatural ==
  ASSUME NEW T \in SUBSET Nat, T # {}
  PROVE  Min(T) \in T /\ \A y \in T : Min(T) <= y
<1>1. \E x \in T : \A y \in T : ~(<<y, x>> \in OpToRel(<, Nat))
  BY Zenon, NatLessThanWellFounded, WFMin
<1>2. PICK x \in T : \A y \in T : ~(<<y, x>> \in OpToRel(<, Nat))
  BY Zenon, <1>1
<1>3. ASSUME NEW y \in T, ~(x <= y) PROVE FALSE
  <2>1. x \in Nat /\ y \in Nat /\ y < x
    BY <1>3
  <2>2. <<y, x>> \in {ss \in Nat \X Nat : ss[1] < ss[2]}
    BY <2>1
  <2>3. QED
    BY <1>2, <2>2, Zenon DEF OpToRel
<1>4. \E z \in T : \A y \in T : z <= y
  BY Zenon, <1>3
<1>5. QED
  BY Zenon, <1>4 DEF Min

LEMMA DivMod == \A n, k \in Int : k > 0 => k * (n \div k) + (n % k) = n
OBVIOUS

LEMMA DivModUnique ==
  ASSUME NEW n \in Nat, NEW k \in Nat, k > 0, NEW q \in Int, NEW r \in 0 .. k - 1, n = k * q + r
  PROVE  n % k = r /\ n \div k = q
OBVIOUS

LEMMA Multiples ==
  ASSUME NEW k \in Nat, k > 0, NEW p \in Nat, NEW q \in Nat
  PROVE  /\ k * p \in Nat
         /\ p < q => k * p + k <= k * q
         /\ p >= q => k * p >= k * q
OBVIOUS

\* A block is so many blocks after the one its epoch begins with.
LEMMA EpochParts ==
  ASSUME NEW n \in Nat
  PROVE  \E q \in Nat, r \in 0 .. EpochSize - 1 :
           /\ n = EpochSize * q + r
           /\ EpochStart(n) = EpochSize * q
           /\ n \div EpochSize = q /\ n % EpochSize = r
<1> DEFINE q == n \div EpochSize
           r == n % EpochSize
<1>1. EpochSize \in Nat /\ EpochSize > 0 /\ EpochSize \in Int /\ n \in Int
  BY EpochAssumption
<1>2. q \in Int /\ q >= 0 /\ r \in 0 .. EpochSize - 1
  BY <1>1
<1>3. EpochSize * q + r = n
  BY Zenon, <1>1, DivMod
<1> HIDE DEF q, r
<1>4. q * EpochSize = EpochSize * q
  BY <1>1, <1>2
<1>5. EpochStart(n) = EpochSize * q
  BY Zenon, <1>4 DEF EpochStart, q
<1>6. q \in Nat /\ n = EpochSize * q + r
  BY <1>2, <1>3
<1>7. QED
  BY Zenon, <1>2, <1>5, <1>6 DEF q, r

LEMMA EpochStartBelow ==
  ASSUME NEW n \in Nat
  PROVE  EpochStart(n) \in Nat /\ EpochStart(n) <= n
<1>1. PICK q \in Nat, r \in 0 .. EpochSize - 1 : n = EpochSize * q + r /\ EpochStart(n) = EpochSize * q
  BY EpochParts
<1>2. EpochSize * q \in Nat
  BY EpochAssumption, Multiples
<1>3. QED
  BY <1>1, <1>2, EpochAssumption

\* The blocks from the one an epoch begins with are of that epoch.
LEMMA SameEpoch ==
  ASSUME NEW n \in Nat, NEW m \in Nat, EpochStart(n) <= m, m <= n
  PROVE  EpochStart(m) = EpochStart(n)
<1>1. PICK q \in Nat, r \in 0 .. EpochSize - 1 : n = EpochSize * q + r /\ EpochStart(n) = EpochSize * q
  BY EpochParts
<1>2. EpochSize \in Nat /\ EpochSize > 0 /\ EpochSize * q \in Nat
  BY EpochAssumption, Multiples
<1> DEFINE b == EpochSize * q
           s == m - b
<1>3. s \in 0 .. EpochSize - 1 /\ m = b + s
  BY <1>1, <1>2
<1> HIDE DEF s
<1>4. m \div EpochSize = q
  BY <1>2, <1>3, DivModUnique
<1>5. EpochStart(m) = q * EpochSize
  BY Zenon, <1>4 DEF EpochStart
<1>6. QED
  BY <1>1, <1>2, <1>5

\* The block after n begins an epoch, or is of the epoch of n.
LEMMA NextEpoch ==
  ASSUME NEW n \in Nat
  PROVE  EpochStart(n + 1) = IF IsLastOfEpoch(n + 1) THEN n + 1 ELSE EpochStart(n)
<1>1. PICK q \in Nat, r \in 0 .. EpochSize - 1 : n = EpochSize * q + r /\ EpochStart(n) = EpochSize * q
  BY EpochParts
<1>2. EpochSize \in Nat /\ EpochSize > 0 /\ EpochSize * q \in Nat
  BY EpochAssumption, Multiples
<1>3. CASE r = EpochSize - 1
  <2> DEFINE m == n + 1
             p == q + 1
  <2>1. m \in Nat /\ p \in Nat /\ m = EpochSize * p + 0 /\ 0 \in 0 .. EpochSize - 1 /\ m > 0
    BY <1>1, <1>2, <1>3
  <2> HIDE DEF m, p
  <2>2. m % EpochSize = 0 /\ m \div EpochSize = p
    BY <1>2, <2>1, DivModUnique
  <2>3. EpochStart(m) = p * EpochSize
    BY Zenon, <2>2 DEF EpochStart
  <2>4. p * EpochSize = m
    BY <1>2, <2>1
  <2>5. IsLastOfEpoch(m)
    BY <2>1, <2>2 DEF IsLastOfEpoch
  <2>6. QED
    BY Zenon, <2>3, <2>4, <2>5 DEF m
<1>4. CASE r # EpochSize - 1
  <2> DEFINE m == n + 1
             s == r + 1
  <2>1. m \in Nat /\ s \in 0 .. EpochSize - 1 /\ m = EpochSize * q + s /\ s # 0
    BY <1>1, <1>2, <1>4
  <2> HIDE DEF m, s
  <2>2. m % EpochSize = s /\ m \div EpochSize = q
    BY <1>2, <2>1, DivModUnique
  <2>3. EpochStart(m) = q * EpochSize
    BY Zenon, <2>2 DEF EpochStart
  <2>4. q * EpochSize = EpochStart(n)
    BY <1>1, <1>2
  <2>5. ~IsLastOfEpoch(m)
    BY <2>1, <2>2 DEF IsLastOfEpoch
  <2>6. QED
    BY Zenon, <2>3, <2>4, <2>5 DEF m
<1>5. QED
  BY <1>3, <1>4

\* The head is the block its epoch begins with.
LEMMA EpochBlock ==
  ASSUME NEW n \in Nat, n > 0
  PROVE  EpochStart(n) = n <=> IsLastOfEpoch(n)
<1>1. PICK q \in Nat, r \in 0 .. EpochSize - 1 :
        n = EpochSize * q + r /\ EpochStart(n) = EpochSize * q /\ n % EpochSize = r
  BY EpochParts
<1>2. EpochSize * q \in Nat
  BY EpochAssumption, Multiples
<1>3. QED
  BY <1>1, <1>2, EpochAssumption DEF IsLastOfEpoch

\* Metadata are of an older epoch if they are of a block before it.
LEMMA OlderEpoch ==
  ASSUME NEW n \in Nat, NEW m \in Nat
  PROVE  m \div EpochSize < n \div EpochSize <=> m < EpochStart(n)
<1>1. PICK q \in Nat, r \in 0 .. EpochSize - 1 :
        n = EpochSize * q + r /\ EpochStart(n) = EpochSize * q /\ n \div EpochSize = q
  BY EpochParts
<1>2. PICK p \in Nat, s \in 0 .. EpochSize - 1 : m = EpochSize * p + s /\ m \div EpochSize = p
  BY EpochParts
<1>3. EpochSize \in Nat /\ EpochSize > 0
  BY EpochAssumption
<1>4. /\ EpochSize * p \in Nat /\ EpochSize * q \in Nat
      /\ p < q => EpochSize * p + EpochSize <= EpochSize * q
      /\ p >= q => EpochSize * p >= EpochSize * q
  BY <1>3, Multiples
<1>5. QED
  BY <1>1, <1>2, <1>3, <1>4
-----------------------------------------------------------------------------
(* Sorted lists: what find sees is the first snapshot of a number *)

ValidatorSets == Sets \cup {GenesisSet}
Entry == [number : Nat, set : ValidatorSets]
Sorted == {L \in Seq(Entry) : \A i, j \in 1 .. Len(L) : i < j => L[i].number <= L[j].number}

\* Place i has the first snapshot of block k.
IsFirst(L, k, i) ==
  /\ i \in 1 .. Len(L) /\ L[i].number = k
  /\ \A j \in 1 .. Len(L) : L[j].number = k => i <= j

Has(L, k) == \E i \in 1 .. Len(L) : L[i].number = k
SetOf(L, k) == L[CHOOSE i \in 1 .. Len(L) : IsFirst(L, k, i)].set

\* The numbers of the list are at most n.
UpTo(L, n) == \A i \in 1 .. Len(L) : L[i].number <= n

LEMMA ListTyped ==
  ASSUME NEW L \in Seq(Entry)
  PROVE  /\ Len(L) \in Nat /\ DOMAIN L = 1 .. Len(L)
         /\ \A i \in 1 .. Len(L) : L[i] \in Entry /\ L[i].number \in Nat /\ L[i].set \in ValidatorSets
<1>1. Len(L) \in Nat /\ DOMAIN L = 1 .. Len(L) /\ \A i \in 1 .. Len(L) : L[i] \in Entry
  OBVIOUS
<1>2. \A x \in Entry : x.number \in Nat /\ x.set \in ValidatorSets
  BY DEF Entry
<1>3. QED
  BY Zenon, <1>1, <1>2

LEMMA FirstExists ==
  ASSUME NEW L \in Seq(Entry), NEW k, Has(L, k)
  PROVE  \E i \in 1 .. Len(L) : IsFirst(L, k, i)
<1> DEFINE T == {i \in 1 .. Len(L) : L[i].number = k}
<1>1. T \in SUBSET Nat /\ T # {}
  BY ListTyped DEF Has
<1>2. Min(T) \in T /\ \A y \in T : Min(T) <= y
  BY Zenon, <1>1, MinNatural
<1>3. IsFirst(L, k, Min(T))
  BY Zenon, <1>2 DEF IsFirst
<1>4. QED
  BY Zenon, <1>2, <1>3

LEMMA FirstUnique ==
  ASSUME NEW L \in Seq(Entry), NEW k, NEW i, NEW j, IsFirst(L, k, i), IsFirst(L, k, j)
  PROVE  i = j
BY ListTyped DEF IsFirst

LEMMA FirstIsSetOf ==
  ASSUME NEW L \in Seq(Entry), NEW k, NEW i, IsFirst(L, k, i)
  PROVE  Has(L, k) /\ SetOf(L, k) = L[i].set
<1> DEFINE c == CHOOSE j \in 1 .. Len(L) : IsFirst(L, k, j)
<1>1. i \in 1 .. Len(L) /\ L[i].number = k
  BY Zenon DEF IsFirst
<1>2. IsFirst(L, k, c)
  BY Zenon, <1>1
<1>3. c = i
  BY Zenon, <1>2, FirstUnique
<1>4. QED
  BY Zenon, <1>1, <1>3 DEF Has, SetOf

LEMMA SetOfTyped ==
  ASSUME NEW L \in Seq(Entry), NEW k, Has(L, k)
  PROVE  SetOf(L, k) \in ValidatorSets
<1>1. PICK i \in 1 .. Len(L) : IsFirst(L, k, i)
  BY Zenon, FirstExists
<1>2. SetOf(L, k) = L[i].set
  BY Zenon, <1>1, FirstIsSetOf
<1>3. QED
  BY Zenon, <1>1, <1>2, ListTyped

\* find of a number that is in the list.
LEMMA FindFirst ==
  ASSUME NEW L \in Sorted, NEW k \in Nat, Has(L, k)
  PROVE  find(L, k).set = SetOf(L, k) /\ find(L, k).number = k
<1>1. L \in Seq(Entry)
  BY Zenon DEF Sorted
<1>2. PICK f \in 1 .. Len(L) : IsFirst(L, k, f)
  BY Zenon, <1>1, FirstExists
<1>3. /\ Len(L) \in Nat /\ DOMAIN L = 1 .. Len(L)
      /\ \A i \in 1 .. Len(L) : L[i].number \in Nat
  BY Zenon, <1>1, ListTyped
<1>4. L[f].number = k /\ \A j \in 1 .. Len(L) : L[j].number = k => f <= j
  BY Zenon, <1>2 DEF IsFirst
<1>5. \A i, j \in 1 .. Len(L) : i < j => L[i].number <= L[j].number
  BY Zenon DEF Sorted
<1>6. ~(L[Len(L)].number < k)
  <2>0. Len(L) \in Nat
    BY Zenon, <1>3
  <2>1. Len(L) \in 1 .. Len(L) /\ (f = Len(L) \/ f < Len(L))
    BY <2>0
  <2>2. k <= L[Len(L)].number
    <3>1. CASE f = Len(L)
      BY <1>4, <3>1
    <3>2. CASE f < Len(L)
      BY Zenon, <1>4, <1>5, <2>1, <3>2
    <3>3. QED
      BY Zenon, <2>1, <3>1, <3>2
  <2>3. L[Len(L)].number \in Nat
    BY Zenon, <1>3, <2>1
  <2>4. QED
    BY <2>2, <2>3
<1> DEFINE T == {j \in DOMAIN L : L[j].number >= k}
           m == Min(T)
<1>7. T \in SUBSET Nat /\ f \in T
  BY <1>3, <1>4
<1>8. m \in T /\ \A y \in T : m <= y
  BY Zenon, <1>7, MinNatural
<1> HIDE DEF m
<1>9. m = f
  <2>1. m \in 1 .. Len(L) /\ L[m].number >= k /\ m <= f
    BY Zenon, <1>3, <1>7, <1>8
  <2>2. L[m].number <= k
    BY <1>3, <1>4, <1>5, <2>1
  <2>3. L[m].number = k
    BY <1>3, <2>1, <2>2
  <2>4. QED
    BY <1>3, <1>4, <2>1, <2>3
<1>10. find(L, k) = L[f]
  BY Zenon, <1>4, <1>6, <1>9 DEF find, m
<1>11. QED
  BY Zenon, <1>1, <1>2, <1>4, <1>10, FirstIsSetOf

\* What add makes of a sorted list: the new snapshot is behind those of its
\* number and before the others.
LEMMA AddPlaces ==
  ASSUME NEW L \in Sorted, NEW s \in Entry
  PROVE  \E p \in 1 .. Len(L) + 1 :
           /\ add(L, s) \in Seq(Entry) /\ Len(add(L, s)) = Len(L) + 1
           /\ \A j \in 1 .. Len(L) + 1 :
                add(L, s)[j] = IF j < p THEN L[j] ELSE IF j = p THEN s ELSE L[j - 1]
           /\ \A j \in 1 .. p - 1 : L[j].number <= s.number
           /\ \A j \in p .. Len(L) : L[j].number > s.number
<1>1. L \in Seq(Entry)
  BY Zenon DEF Sorted
<1>2. /\ Len(L) \in Nat /\ DOMAIN L = 1 .. Len(L)
      /\ \A i \in 1 .. Len(L) : L[i] \in Entry /\ L[i].number \in Nat
  BY Zenon, <1>1, ListTyped
<1>3. s.number \in Nat
  BY DEF Entry
<1> DEFINE T == {Len(L) + 1} \cup {j \in DOMAIN L : L[j].number > s.number}
           p == Min(T)
<1>4. T \in SUBSET (1 .. Len(L) + 1) /\ T \in SUBSET Nat /\ T # {}
  BY <1>2
<1>5. p \in T /\ \A y \in T : p <= y
  BY Zenon, <1>4, MinNatural
<1>6. p \in 1 .. Len(L) + 1
  BY Zenon, <1>4, <1>5
<1>7. add(L, s) = SubSeq(L, 1, p - 1) \o <<s>> \o SubSeq(L, p, Len(L))
  BY Zenon DEF add
<1>8. ASSUME NEW j \in 1 .. p - 1 PROVE L[j].number <= s.number
  <2>1. j \in 1 .. Len(L) /\ ~(p <= j)
    BY <1>2, <1>6
  <2>2. j \notin T
    BY Zenon, <1>5, <2>1
  <2>3. ~(L[j].number > s.number) /\ L[j].number \in Nat
    BY Zenon, <1>2, <2>1, <2>2
  <2>4. QED
    BY <1>3, <2>3
<1>9. ASSUME NEW j \in p .. Len(L) PROVE L[j].number > s.number
  <2>1. p \in 1 .. Len(L) /\ j \in 1 .. Len(L) /\ (p = j \/ p < j) /\ p # Len(L) + 1
    BY <1>2, <1>6
  <2>2. L[p].number > s.number
    BY Zenon, <1>5, <2>1
  <2>3. L[p].number \in Nat /\ L[j].number \in Nat
    BY Zenon, <1>2, <2>1
  <2>4. p < j => L[p].number <= L[j].number
    BY Zenon, <2>1 DEF Sorted
  <2>5. QED
    BY <1>3, <2>1, <2>2, <2>3, <2>4
<1> HIDE DEF p
<1> DEFINE A == SubSeq(L, 1, p - 1)
           B == SubSeq(L, p, Len(L))
<1>10. /\ A \in Seq(Entry) /\ Len(A) = p - 1 /\ \A j \in 1 .. p - 1 : A[j] = L[j]
  BY <1>1, <1>2, <1>6
<1>11. /\ B \in Seq(Entry) /\ Len(B) = Len(L) - p + 1
       /\ \A j \in 1 .. Len(L) - p + 1 : B[j] = L[p + j - 1]
  BY <1>1, <1>2, <1>6
<1> HIDE DEF A, B
<1> DEFINE C == A \o <<s>>
<1>12. C \in Seq(Entry) /\ Len(C) = p /\ C[p] = s /\ \A j \in 1 .. p - 1 : C[j] = L[j]
  BY <1>6, <1>10
<1> HIDE DEF C
<1> DEFINE D == C \o B
<1>13. /\ D \in Seq(Entry) /\ Len(D) = Len(L) + 1
       /\ \A j \in 1 .. p : D[j] = C[j]
       /\ \A j \in p + 1 .. Len(L) + 1 : D[j] = B[j - p]
  BY <1>2, <1>6, <1>11, <1>12
<1> HIDE DEF D
<1>14. ASSUME NEW j \in 1 .. Len(L) + 1
       PROVE  D[j] = IF j < p THEN L[j] ELSE IF j = p THEN s ELSE L[j - 1]
  <2>1. CASE j < p
    BY <1>6, <1>12, <1>13, <2>1
  <2>2. CASE j = p
    BY <1>6, <1>12, <1>13, <2>2
  <2>3. CASE j > p
    <3>1. D[j] = B[j - p] /\ j - p \in 1 .. Len(L) - p + 1 /\ p + (j - p) - 1 = j - 1
      BY <1>2, <1>6, <1>13, <2>3
    <3>2. B[j - p] = L[j - 1]
      BY <1>11, <3>1
    <3>3. QED
      BY <1>6, <2>3, <3>1, <3>2
  <2>4. QED
    BY <1>6, <2>1, <2>2, <2>3
<1>15. add(L, s) = D
  BY Zenon, <1>7 DEF A, B, C, D
<1>16. QED
  BY Zenon, <1>6, <1>8, <1>9, <1>13, <1>14, <1>15

LEMMA AddView ==
  ASSUME NEW L \in Sorted, NEW s \in Entry
  PROVE  /\ add(L, s) \in Sorted
         /\ \A k : Has(L, k) => Has(add(L, s), k) /\ SetOf(add(L, s), k) = SetOf(L, k)
         /\ \A k : Has(add(L, s), k) => Has(L, k) \/ k = s.number
         /\ Has(add(L, s), s.number)
         /\ ~Has(L, s.number) => SetOf(add(L, s), s.number) = s.set
<1> DEFINE A == add(L, s)
           n == Len(L) + 1
<1>1. PICK p \in 1 .. n :
        /\ A \in Seq(Entry) /\ Len(A) = n
        /\ \A j \in 1 .. n : A[j] = IF j < p THEN L[j] ELSE IF j = p THEN s ELSE L[j - 1]
        /\ \A j \in 1 .. p - 1 : L[j].number <= s.number
        /\ \A j \in p .. Len(L) : L[j].number > s.number
  BY Zenon, AddPlaces
<1>1a. A \in Seq(Entry)
  BY Zenon, <1>1
<1>2. L \in Seq(Entry)
  BY Zenon DEF Sorted
<1>3. Len(L) \in Nat /\ \A i \in 1 .. Len(L) : L[i].number \in Nat
  BY Zenon, <1>2, ListTyped
<1>4. s.number \in Nat
  BY DEF Entry
<1>5. \A i, j \in 1 .. Len(L) : i < j => L[i].number <= L[j].number
  BY Zenon DEF Sorted
<1> HIDE DEF A
<1>6. A \in Sorted
  <2> SUFFICES ASSUME NEW i \in 1 .. n, NEW j \in 1 .. n, i < j PROVE A[i].number <= A[j].number
    BY Zenon, <1>1 DEF Sorted
  <2>1. CASE j < p
    <3>1. A[i] = L[i] /\ A[j] = L[j] /\ i \in 1 .. Len(L) /\ j \in 1 .. Len(L)
      BY <1>1, <1>3, <2>1
    <3>2. QED
      BY Zenon, <1>5, <3>1
  <2>2. CASE j = p
    <3>1. A[i] = L[i] /\ A[j] = s /\ i \in 1 .. p - 1
      BY <1>1, <1>3, <2>2
    <3>2. QED
      BY Zenon, <1>1, <3>1
  <2>3. CASE j > p
    <3>1. A[j] = L[j - 1] /\ j - 1 \in p .. Len(L) /\ j - 1 \in 1 .. Len(L)
      BY <1>1, <1>3, <2>3
    <3>2. L[j - 1].number > s.number /\ L[j - 1].number \in Nat
      BY Zenon, <1>1, <1>3, <3>1
    <3>3. CASE i < p
      <4>1. A[i] = L[i] /\ i \in 1 .. p - 1 /\ i \in 1 .. Len(L)
        BY <1>1, <1>3, <3>3
      <4>2. L[i].number <= s.number /\ L[i].number \in Nat
        BY Zenon, <1>1, <1>3, <4>1
      <4>3. QED
        BY <1>4, <3>1, <3>2, <4>1, <4>2
    <3>4. CASE i = p
      <4>1. A[i] = s
        BY <1>1, <3>4
      <4>2. QED
        BY <1>4, <3>1, <3>2, <4>1
    <3>5. CASE i > p
      <4>1. A[i] = L[i - 1] /\ i - 1 \in 1 .. Len(L) /\ i - 1 < j - 1
        BY <1>1, <1>3, <3>5
      <4>2. QED
        BY Zenon, <1>5, <3>1, <4>1
    <3>6. QED
      BY <3>3, <3>4, <3>5
  <2>4. QED
    BY <2>1, <2>2, <2>3
<1>7. A[p] = s
  BY <1>1
<1>8. ASSUME NEW k, Has(L, k) PROVE Has(A, k) /\ SetOf(A, k) = SetOf(L, k)
  <2>1. PICK f \in 1 .. Len(L) : IsFirst(L, k, f)
    BY Zenon, <1>2, <1>8, FirstExists
  <2>2. L[f].number = k /\ (\A j \in 1 .. Len(L) : L[j].number = k => f <= j) /\ k \in Nat
    BY Zenon, <1>3, <2>1 DEF IsFirst
  <2>3. SetOf(L, k) = L[f].set
    BY Zenon, <1>2, <2>1, FirstIsSetOf
  <2>4. CASE f < p
    <3>1. f \in 1 .. n /\ A[f] = L[f]
      BY <1>1, <1>3, <2>4
    <3>2. ASSUME NEW j \in 1 .. n, j < f PROVE A[j].number # k
      <4>1. A[j] = L[j] /\ j \in 1 .. Len(L) /\ ~(f <= j)
        BY <1>1, <1>3, <2>4, <3>2
      <4>2. QED
        BY Zenon, <2>2, <4>1
    <3>3. \A j \in 1 .. n : A[j].number = k => f <= j
      BY <1>3, <3>2
    <3>4. IsFirst(A, k, f)
      BY Zenon, <1>1, <2>2, <3>1, <3>3 DEF IsFirst
    <3>5. Has(A, k) /\ SetOf(A, k) = A[f].set
      BY Zenon, <1>1a, <3>4, FirstIsSetOf
    <3>6. QED
      BY Zenon, <2>3, <3>1, <3>5
  <2>5. CASE f >= p
    <3> DEFINE g == f + 1
    <3>1. g \in 1 .. n /\ A[g] = L[f] /\ f \in p .. Len(L)
      BY <1>1, <1>3, <2>5
    <3>2. k > s.number
      BY Zenon, <1>1, <2>2, <3>1
    <3>3. ASSUME NEW j \in 1 .. n, j < g PROVE A[j].number # k
      <4>1. CASE j < p
        <5>1. A[j] = L[j] /\ j \in 1 .. p - 1 /\ j \in 1 .. Len(L)
          BY <1>1, <1>3, <4>1
        <5>2. L[j].number <= s.number /\ L[j].number \in Nat
          BY Zenon, <1>1, <1>3, <5>1
        <5>3. QED
          BY <1>4, <2>2, <3>2, <5>1, <5>2
      <4>2. CASE j = p
        BY <1>4, <1>7, <2>2, <3>2, <4>2
      <4>3. CASE j > p
        <5>1. A[j] = L[j - 1] /\ j - 1 \in 1 .. Len(L) /\ ~(f <= j - 1)
          BY <1>1, <1>3, <3>3, <4>3
        <5>2. QED
          BY Zenon, <2>2, <5>1
      <4>4. QED
        BY <4>1, <4>2, <4>3
    <3>4. \A j \in 1 .. n : A[j].number = k => g <= j
      BY <1>3, <3>3
    <3> HIDE DEF g
    <3>5. IsFirst(A, k, g)
      BY Zenon, <1>1, <2>2, <3>1, <3>4 DEF IsFirst
    <3>6. Has(A, k) /\ SetOf(A, k) = A[g].set
      BY Zenon, <1>1a, <3>5, FirstIsSetOf
    <3>7. QED
      BY Zenon, <2>3, <3>1, <3>6
  <2>6. QED
    BY <1>3, <2>4, <2>5
<1>9. ASSUME NEW k, Has(A, k) PROVE Has(L, k) \/ k = s.number
  <2>1. PICK j \in 1 .. n : A[j].number = k
    BY Zenon, <1>1, <1>9 DEF Has
  <2>2. CASE j < p
    <3>1. A[j] = L[j] /\ j \in 1 .. Len(L)
      BY <1>1, <1>3, <2>2
    <3>2. QED
      BY Zenon, <2>1, <3>1 DEF Has
  <2>3. CASE j = p
    BY Zenon, <1>7, <2>1, <2>3
  <2>4. CASE j > p
    <3>1. A[j] = L[j - 1] /\ j - 1 \in 1 .. Len(L)
      BY <1>1, <1>3, <2>4
    <3>2. QED
      BY Zenon, <2>1, <3>1 DEF Has
  <2>5. QED
    BY <2>2, <2>3, <2>4
<1>10. Has(A, s.number)
  BY Zenon, <1>1, <1>7 DEF Has
<1>11. ASSUME ~Has(L, s.number) PROVE SetOf(A, s.number) = s.set
  <2>1. ASSUME NEW j \in 1 .. n, A[j].number = s.number PROVE p <= j
    <3> SUFFICES ASSUME j < p PROVE FALSE
      OBVIOUS
    <3>1. A[j] = L[j] /\ j \in 1 .. Len(L)
      BY <1>1, <1>3
    <3>2. QED
      BY Zenon, <1>11, <2>1, <3>1 DEF Has
  <2>2. IsFirst(A, s.number, p)
    BY Zenon, <1>1, <1>7, <2>1 DEF IsFirst
  <2>3. QED
    BY Zenon, <1>1, <1>7, <2>2, FirstIsSetOf
<1>12. QED
  BY Zenon, <1>6, <1>8, <1>9, <1>10, <1>11 DEF A

\* replace of a number that is in the list.
LEMMA ReplaceView ==
  ASSUME NEW L \in Sorted, NEW s \in Entry, Has(L, s.number)
  PROVE  /\ replace(L, s) \in Sorted
         /\ \A k : Has(replace(L, s), k) <=> Has(L, k)
         /\ SetOf(replace(L, s), s.number) = s.set
<1>1. L \in Seq(Entry)
  BY Zenon DEF Sorted
<1>2. Len(L) \in Nat /\ DOMAIN L = 1 .. Len(L)
  BY Zenon, <1>1, ListTyped
<1> DEFINE same == {i \in DOMAIN L : L[i].number = s.number}
           f == Min(same)
           A == [L EXCEPT ![f] = s]
<1>3. same \in SUBSET Nat /\ same # {}
  BY <1>2 DEF Has
<1>4. f \in same /\ \A j \in same : f <= j
  BY Zenon, <1>3, MinNatural
<1>5. replace(L, s) = A
  BY Zenon, <1>3 DEF replace
<1> HIDE DEF f
<1>6. f \in 1 .. Len(L) /\ L[f].number = s.number /\ \A j \in 1 .. Len(L) : L[j].number = s.number => f <= j
  BY Zenon, <1>2, <1>4
<1>7. A \in Seq(Entry) /\ Len(A) = Len(L) /\ \A j \in 1 .. Len(L) : A[j] = IF j = f THEN s ELSE L[j]
  BY <1>1, <1>2, <1>6
<1> HIDE DEF A
<1>8. \A j \in 1 .. Len(L) : A[j].number = L[j].number
  BY Zenon, <1>6, <1>7
<1>9. A \in Sorted
  BY Zenon, <1>7, <1>8 DEF Sorted
<1>10. \A k : Has(A, k) <=> Has(L, k)
  BY Zenon, <1>7, <1>8 DEF Has
<1>11. IsFirst(A, s.number, f)
  BY Zenon, <1>6, <1>7, <1>8 DEF IsFirst
<1>11a. A \in Seq(Entry) /\ A[f] = s
  BY Zenon, <1>6, <1>7
<1>12. SetOf(A, s.number) = s.set
  <2>1. SetOf(A, s.number) = A[f].set
    BY Zenon, <1>11, <1>11a, FirstIsSetOf
  <2>2. QED
    BY Zenon, <1>11a, <2>1
<1>13. QED
  BY Zenon, <1>5, <1>9, <1>10, <1>12

-----------------------------------------------------------------------------
(* Lists that serve an epoch *)

\* The list has a snapshot of block e, every later one has the same set, and
\* that set is one of V and has the proposers P.
Serves(L, e, P, V) ==
  /\ Has(L, e)
  /\ \A k : Has(L, k) /\ k >= e => SetOf(L, k) = SetOf(L, e)
  /\ P \subseteq Range(SetOf(L, e))
  /\ SetOf(L, e) \in V

\* A snapshot of another number changes nothing if it has the set of the
\* epoch, one of a number that is there is never seen.
LEMMA AddServes ==
  ASSUME NEW L \in Sorted, NEW s \in Entry, NEW e \in Nat, NEW P, NEW V, Serves(L, e, P, V),
         Has(L, s.number) \/ s.set = SetOf(L, e)
  PROVE  Serves(add(L, s), e, P, V) /\ SetOf(add(L, s), e) = SetOf(L, e)
<1>1. /\ \A k : Has(L, k) => Has(add(L, s), k) /\ SetOf(add(L, s), k) = SetOf(L, k)
      /\ \A k : Has(add(L, s), k) => Has(L, k) \/ k = s.number
      /\ ~Has(L, s.number) => SetOf(add(L, s), s.number) = s.set
  BY Zenon, AddView
<1>2. Has(add(L, s), e) /\ SetOf(add(L, s), e) = SetOf(L, e)
  BY Zenon, <1>1 DEF Serves
<1>3. ASSUME NEW k, Has(add(L, s), k), k >= e PROVE SetOf(add(L, s), k) = SetOf(L, e)
  <2>1. CASE Has(L, k)
    BY Zenon, <1>1, <1>3, <2>1 DEF Serves
  <2>2. CASE ~Has(L, k)
    BY Zenon, <1>1, <1>3, <2>2
  <2>3. QED
    BY Zenon, <2>1, <2>2
<1>4. QED
  BY Zenon, <1>2, <1>3 DEF Serves

\* The numbers of a list, said with Has.
LEMMA UpToHas ==
  ASSUME NEW L, NEW n
  PROVE  UpTo(L, n) <=> \A k : Has(L, k) => k <= n
BY Zenon DEF UpTo, Has

LEMMA HasNatural ==
  ASSUME NEW L \in Sorted, NEW k, Has(L, k)
  PROVE  k \in Nat
BY Zenon, ListTyped DEF Sorted, Has

\* processHeaders for the block after one of the epoch.
LEMMA Processed ==
  ASSUME NEW st, st.list \in Sorted, NEW e \in Nat, NEW P, NEW V, Serves(st.list, e, P, V),
         NEW n \in Nat, n >= e, Has(st.list, n),
         \A k \in e .. n : Has(st.list, k)
  PROVE  /\ processHeaders(st, n + 1).last = n + 1
         /\ processHeaders(st, n + 1).list \in Sorted
         /\ Serves(processHeaders(st, n + 1).list, e, P, V)
         /\ SetOf(processHeaders(st, n + 1).list, e) = SetOf(st.list, e)
         /\ \A k \in e .. n + 1 : Has(processHeaders(st, n + 1).list, k)
         /\ \A m \in Nat : m >= n + 1 /\ UpTo(st.list, m) => UpTo(processHeaders(st, n + 1).list, m)
<1>0. PICK L : L = st.list
  OBVIOUS
<1>a. L \in Sorted /\ Serves(L, e, P, V) /\ Has(L, n) /\ \A k \in e .. n : Has(L, k)
  BY Zenon, <1>0
<1> DEFINE m == n + 1
           s == Snapshot(m, SetOf(L, e))
           A == add(L, s)
<1>1. find(L, n).set = SetOf(L, e)
  BY Zenon, <1>a, FindFirst DEF Serves
<1>2. SetOf(L, e) \in ValidatorSets
  BY Zenon, <1>a, SetOfTyped DEF Sorted, Serves
<1>3. s \in Entry /\ s.number = m /\ s.set = SetOf(L, e) /\ m \in Nat
  BY <1>2 DEF Entry, Snapshot
<1>4. (n + 1) - 1 = n
  OBVIOUS
<1>5. processHeaders(st, n + 1) = [list |-> A, last |-> m]
  BY Zenon, <1>0, <1>1, <1>4 DEF processHeaders
<1> HIDE DEF s
<1>6. /\ A \in Sorted
      /\ \A k : Has(L, k) => Has(A, k)
      /\ \A k : Has(A, k) => Has(L, k) \/ k = m
      /\ Has(A, m)
  <2>1. /\ A \in Sorted
        /\ \A k : Has(L, k) => Has(A, k)
        /\ \A k : Has(A, k) => Has(L, k) \/ k = s.number
        /\ Has(A, s.number)
    BY Zenon, <1>a, <1>3, AddView
  <2>2. QED
    BY Zenon, <1>3, <2>1
<1>7. Serves(A, e, P, V) /\ SetOf(A, e) = SetOf(L, e)
  BY Zenon, <1>a, <1>3, AddServes
<1> HIDE DEF A
<1>8. \A k \in e .. m : Has(A, k)
  <2> SUFFICES ASSUME NEW k \in e .. m PROVE Has(A, k)
    OBVIOUS
  <2>1. k \in e .. n \/ k = m
    OBVIOUS
  <2>2. QED
    BY Zenon, <1>a, <1>6, <2>1
<1>9. ASSUME NEW b \in Nat, b >= m, UpTo(L, b) PROVE UpTo(A, b)
  <2> SUFFICES ASSUME NEW k, Has(A, k) PROVE k <= b
    BY Zenon, UpToHas
  <2>1. CASE Has(L, k)
    BY Zenon, <1>9, <2>1, UpToHas
  <2>2. CASE k = m
    BY <1>3, <1>9, <2>2
  <2>3. QED
    BY Zenon, <1>6, <2>1, <2>2
<1>10. processHeaders(st, n + 1).list = A /\ processHeaders(st, n + 1).last = m
  BY <1>5
<1>11. QED
  BY Zenon, <1>0, <1>6, <1>7, <1>8, <1>9, <1>10

-----------------------------------------------------------------------------
(* The chain *)

Header ==
  [validators : ValidatorSets, proposer : UNION {Range(v) : v \in ValidatorSets}, staked : ValidatorSets]

\* The blocks were sealed by the validators of their epochs.
ChainInv ==
  /\ chain \in Seq(Header)
  /\ \A n \in 1 .. Height :
       chain[n].validators = SetAt(n - 1) /\ chain[n].proposer \in Range(SetAt(n - 1))

LEMMA ChainFacts ==
  ASSUME ChainInv
  PROVE  /\ Height \in Nat /\ EpochStart(Height) \in Nat /\ EpochStart(Height) <= Height
         /\ \A n \in 0 .. Height : /\ Staked(n) \in ValidatorSets /\ SetAt(n) \in ValidatorSets
                                   /\ ExtraValidators(n) \in ValidatorSets
<1>1. Height \in Nat /\ \A n \in 1 .. Height : chain[n] \in Header
  BY DEF ChainInv, Height
<1>2. \A x \in Header : x.validators \in ValidatorSets /\ x.staked \in ValidatorSets
  BY DEF Header
<1>3. GenesisSet \in ValidatorSets
  BY Zenon DEF ValidatorSets
<1>4. ASSUME NEW n \in 0 .. Height
      PROVE  Staked(n) \in ValidatorSets /\ ExtraValidators(n) \in ValidatorSets
  <2>1. n = 0 \/ n \in 1 .. Height
    BY <1>1
  <2>2. QED
    BY Zenon, <1>1, <1>2, <1>3, <2>1 DEF Staked, ExtraValidators
<1>5. ASSUME NEW n \in 0 .. Height PROVE SetAt(n) \in ValidatorSets
  <2>1. n \in Nat /\ n <= Height
    BY <1>1
  <2>2. EpochStart(n) \in Nat /\ EpochStart(n) <= n
    BY Zenon, <2>1, EpochStartBelow
  <2>3. EpochStart(n) \in 0 .. Height
    BY <1>1, <2>1, <2>2
  <2>4. QED
    BY Zenon, <1>4, <2>3 DEF SetAt
<1>6. QED
  BY Zenon, <1>1, <1>4, <1>5, EpochStartBelow

\* A block on top leaves the sets of the blocks below as they are.
LEMMA Extended ==
  ASSUME ChainInv, NEW h \in NextHeaders, chain' = Append(chain, h)
  PROVE  /\ ChainInv' /\ Height' = Height + 1
         /\ \A n \in 1 .. Height : chain'[n] = chain[n]
         /\ chain'[Height + 1] = h
         /\ \A n \in 0 .. Height : SetAt(n)' = SetAt(n)
<1>1. Height \in Nat /\ \A n \in 0 .. Height : Staked(n) \in ValidatorSets /\ SetAt(n) \in ValidatorSets
  BY Zenon, ChainFacts
<1>2. h \in Header /\ h.validators = SetAt(Height) /\ h.proposer \in Range(SetAt(Height))
  <2>1. SetAt(Height) \in ValidatorSets /\ Staked(Height) \in ValidatorSets
    BY <1>1
  <2>2. /\ h \in [validators : {SetAt(Height)}, proposer : Range(SetAt(Height)), staked : Sets \cup {Staked(Height)}]
    <3>1. CASE IsLastOfEpoch(Height + 1)
      BY <3>1 DEF NextHeaders
    <3>2. CASE ~IsLastOfEpoch(Height + 1)
      BY Zenon, <3>2 DEF NextHeaders
    <3>3. QED
      BY Zenon, <3>1, <3>2
  <2>3. Sets \cup {Staked(Height)} \subseteq ValidatorSets
    BY Zenon, <2>1 DEF ValidatorSets
  <2>4. Range(SetAt(Height)) \subseteq UNION {Range(v) : v \in ValidatorSets}
    BY Zenon, <2>1
  <2> HIDE DEF ValidatorSets
  <2>5. QED
    BY <2>1, <2>2, <2>3, <2>4 DEF Header
<1>3. /\ chain' \in Seq(Header) /\ Len(chain') = Height + 1
      /\ \A n \in 1 .. Height : chain'[n] = chain[n]
      /\ chain'[Height + 1] = h
  BY <1>2 DEF ChainInv, Height
<1>4. Height' = Height + 1
  BY Zenon, <1>3 DEF Height
<1>5. ASSUME NEW n \in 0 .. Height PROVE Staked(n)' = Staked(n)
  <2>1. n = 0 \/ n \in 1 .. Height
    BY <1>1
  <2>2. QED
    BY Zenon, <1>3, <2>1 DEF Staked
<1>6. ASSUME NEW n \in 0 .. Height PROVE SetAt(n)' = SetAt(n)
  <2>1. n \in Nat /\ n <= Height
    BY <1>1
  <2>2. EpochStart(n) \in Nat /\ EpochStart(n) <= n
    BY Zenon, <2>1, EpochStartBelow
  <2>3. EpochStart(n) \in 0 .. Height
    BY <1>1, <2>1, <2>2
  <2>4. Staked(EpochStart(n))' = Staked(EpochStart(n))
    <3>1. PICK k \in 0 .. Height : k = EpochStart(n)
      BY Zenon, <2>3
    <3>2. Staked(k)' = Staked(k)
      BY Zenon, <1>5
    <3>3. QED
      BY Zenon, <3>1, <3>2 DEF EpochStart
  <2>5. QED
    BY Zenon, <2>4 DEF SetAt
<1>7. ASSUME NEW n \in 1 .. Height + 1
      PROVE  chain'[n].validators = SetAt(n - 1)' /\ chain'[n].proposer \in Range(SetAt(n - 1)')
  <2>1. PICK m \in 0 .. Height : m = n - 1
    BY <1>1
  <2>2. SetAt(m)' = SetAt(m)
    BY Zenon, <1>6
  <2>3. CASE n = Height + 1
    <3>1. m = Height
      BY <1>1, <2>1, <2>3
    <3>2. QED
      BY Zenon, <1>2, <1>3, <2>1, <2>2, <2>3, <3>1
  <2>4. CASE n \in 1 .. Height
    BY Zenon, <1>3, <2>1, <2>2, <2>4 DEF ChainInv
  <2>5. n = Height + 1 \/ n \in 1 .. Height
    BY <1>1
  <2>6. QED
    BY Zenon, <2>3, <2>4, <2>5
<1>8. ChainInv'
  BY Zenon, <1>3, <1>4, <1>7 DEF ChainInv, Height
<1>9. QED
  BY Zenon, <1>3, <1>4, <1>6, <1>8

-----------------------------------------------------------------------------
(* The invariant *)

Epoch == EpochStart(Height)

\* The proposers of the blocks of the epoch, and what its set may be.
Proposers == {chain[k].proposer : k \in Epoch + 1 .. Height}
Allowed == IF Epoch \in lost THEN ValidatorSets ELSE {SetAt(Height)}

Current(L) == Serves(L, Epoch, Proposers, Allowed)
HasAll(L, a, b) == \A k \in a .. b : Has(L, k)

\* The list on disk serves the epoch or ends before it. If the metadata are of
\* the epoch then it has all snapshots up to there.
DiskInv ==
  /\ disk \in [list : Sorted, last : Nat]
  /\ UpTo(disk.list, Height) /\ disk.last <= Height
  /\ UpTo(disk.list, Epoch - 1) \/ Current(disk.list)
  /\ disk.list # <<>> /\ disk.last >= Epoch => HasAll(disk.list, Epoch, disk.last)

\* The list in memory serves the epoch, with the set the list on disk has for
\* it. A header that has no block is the one after the head.
StoreInv ==
  /\ store \in [list : Sorted, last : Nat]
  /\ Current(store.list)
  /\ HasAll(store.list, Epoch, store.last)
  /\ Has(disk.list, Epoch) => SetOf(disk.list, Epoch) = SetOf(store.list, Epoch)
  /\ pc = "replay" => Epoch <= store.last /\ store.last <= Height /\ UpTo(store.list, Height)
  /\ pc # "replay" => store.last \in {Height, Height + 1} /\ UpTo(store.list, store.last)

\* Until the hook has run nothing of the new block is on disk, unless a save is
\* under way.
HookInv ==
  pc = "hook" => /\ store.last = Height /\ Height >= 1
                 /\ saving = "no" => UpTo(disk.list, Height - 1)

SavingInv ==
  saving # "no" => /\ pc \in {"idle", "hook"}
                   /\ store.last = Height
                   /\ HasAll(disk.list, Epoch, Height)

Inv ==
  /\ ChainInv
  /\ DiskInv
  /\ pc \in {"replay", "restore", "idle", "hook"} => StoreInv
  /\ HookInv
  /\ SavingInv
  /\ pc # "failed"

LEMMA Numbers ==
  ASSUME ChainInv
  PROVE  Height \in Nat /\ Epoch \in Nat /\ Epoch <= Height
BY Zenon, ChainFacts DEF Epoch

LEMMA SameChain ==
  ASSUME chain' = chain
  PROVE  /\ Height' = Height /\ Epoch' = Epoch /\ Proposers' = Proposers
         /\ SetAt(Height)' = SetAt(Height)
         /\ ChainInv => ChainInv'
<1>1. Height' = Height
  BY Zenon DEF Height
<1>2. Epoch' = Epoch
  BY Zenon, <1>1 DEF Epoch, EpochStart
<1>3. Proposers' = Proposers
  BY Zenon, <1>1, <1>2 DEF Proposers
<1>4. \A n : SetAt(n)' = SetAt(n)
  BY Zenon DEF SetAt, Staked, EpochStart
<1>5. SetAt(Height)' = SetAt(Height)
  BY Zenon, <1>1 DEF SetAt, Staked, EpochStart
<1>6. ChainInv => ChainInv'
  BY Zenon, <1>1, <1>4 DEF ChainInv
<1>7. QED
  BY Zenon, <1>1, <1>2, <1>3, <1>5, <1>6

LEMMA SameEpochSets ==
  ASSUME chain' = chain, lost' = lost
  PROVE  Allowed' = Allowed /\ \A L : Current(L)' <=> Current(L)
<1>1. Allowed' = Allowed
  BY Zenon, SameChain DEF Allowed
<1>2. QED
  BY Zenon, <1>1, SameChain DEF Current

\* A list that ends before the epoch has no snapshot of it.
LEMMA Before ==
  ASSUME NEW L, NEW e \in Nat, UpTo(L, e - 1)
  PROVE  \A k \in Nat : k >= e => ~Has(L, k)
<1> SUFFICES ASSUME NEW k \in Nat, k >= e, Has(L, k) PROVE FALSE
  OBVIOUS
<1>1. k <= e - 1
  BY Zenon, UpToHas
<1>2. QED
  BY <1>1

\* The snapshot at the head, for a store that has it.
LEMMA AtHead ==
  ASSUME ChainInv, StoreInv, pc # "replay"
  PROVE  /\ Has(store.list, Height) /\ SetOf(store.list, Height) = SetOf(store.list, Epoch)
         /\ find(store.list, Height).set = SetOf(store.list, Epoch)
         /\ find(store.list, Height).number = Height
<1>1. Height \in Nat /\ Epoch \in Nat /\ Epoch <= Height
  BY Zenon, Numbers
<1>2. store.last \in {Height, Height + 1} /\ HasAll(store.list, Epoch, store.last) /\ store.list \in Sorted
  BY DEF StoreInv
<1>3. Height \in Epoch .. store.last
  BY <1>1, <1>2
<1>4. Has(store.list, Height)
  BY Zenon, <1>2, <1>3 DEF HasAll
<1>5. Height >= Epoch
  BY <1>1
<1>6. SetOf(store.list, Height) = SetOf(store.list, Epoch)
  BY Zenon, <1>4, <1>5 DEF StoreInv, Current, Serves
<1>7. QED
  BY Zenon, <1>1, <1>2, <1>4, <1>6, FindFirst

-----------------------------------------------------------------------------
(* The steps that leave the chain and the store alone *)

LEMMA InitInv == Init => Inv
<1> SUFFICES ASSUME Init PROVE Inv
  OBVIOUS
<1>1. /\ chain = <<>> /\ disk = Empty /\ pc = "down" /\ saving = "no"
  BY Zenon DEF Init
<1>2. chain \in Seq(Header) /\ Len(chain) = 0
  BY <1>1
<1>3. Height = 0
  BY Zenon, <1>2 DEF Height
<1>4. ChainInv
  BY <1>2, <1>3 DEF ChainInv
<1>5. disk.list = <<>> /\ disk.last = 0 /\ disk = [list |-> disk.list, last |-> disk.last]
  BY <1>1 DEF Empty
<1>6. disk.list \in Sorted /\ Len(disk.list) = 0
  BY <1>5 DEF Sorted
<1>7. disk \in [list : Sorted, last : Nat]
  BY <1>5, <1>6
<1>8. \A n : UpTo(disk.list, n)
  BY <1>6 DEF UpTo
<1>9. disk.last <= Height
  BY <1>3, <1>5
<1>10. DiskInv
  BY Zenon, <1>5, <1>7, <1>8, <1>9 DEF DiskInv
<1>11. QED
  BY Zenon, <1>1, <1>4, <1>10 DEF Inv, HookInv, SavingInv

LEMMA DiskKept ==
  ASSUME DiskInv, chain' = chain, lost' = lost, disk' = disk
  PROVE  DiskInv'
BY Zenon, SameChain, SameEpochSets DEF DiskInv, HasAll

\* The store is as it was, and the file is that of before for the epoch.
LEMMA StoreKept ==
  ASSUME StoreInv, chain' = chain, lost' = lost, store' = store,
         Has(disk'.list, Epoch) => SetOf(disk'.list, Epoch) = SetOf(store.list, Epoch),
         pc' = "replay" <=> pc = "replay"
  PROVE  StoreInv'
BY Zenon, SameChain, SameEpochSets DEF StoreInv, HasAll

LEMMA StoreKeptDisk ==
  ASSUME StoreInv, chain' = chain, lost' = lost, store' = store, disk' = disk,
         pc' = "replay" <=> pc = "replay"
  PROVE  StoreInv'
<1>1. Has(disk'.list, Epoch) => SetOf(disk'.list, Epoch) = SetOf(store.list, Epoch)
  BY Zenon DEF StoreInv
<1>2. QED
  BY Zenon, <1>1, StoreKept

LEMMA UnchangedInv ==
  ASSUME Inv, UNCHANGED vars
  PROVE  Inv'
<1>1. /\ chain' = chain /\ store' = store /\ disk' = disk /\ pc' = pc /\ saving' = saving
      /\ lost' = lost
  BY Zenon DEF vars
<1>2. ChainInv' /\ Height' = Height /\ Epoch' = Epoch
  BY Zenon, <1>1, SameChain DEF Inv
<1>3. DiskInv'
  BY Zenon, <1>1, DiskKept DEF Inv
<1>4. pc \in {"replay", "restore", "idle", "hook"} => StoreInv'
  BY Zenon, <1>1, StoreKeptDisk DEF Inv
<1>5. QED
  BY Zenon, <1>1, <1>2, <1>3, <1>4 DEF Inv, HookInv, SavingInv, HasAll

LEMMA ReplayedInv ==
  ASSUME Inv, NEW next \in {"idle", "restore"}, Replayed(next)
  PROVE  Inv'
<1>1. /\ chain' = chain /\ store' = store /\ disk' = disk /\ pc' = next /\ saving' = saving
      /\ lost' = lost /\ pc = "replay" /\ store.last >= Height
  BY Zenon DEF Replayed
<1>2. pc' # "replay" /\ pc' # "hook" /\ pc' # "failed" /\ pc' \in {"idle", "restore"}
  BY <1>1
<1>3. ChainInv' /\ Height' = Height /\ Epoch' = Epoch /\ Height \in Nat
  BY Zenon, <1>1, SameChain, Numbers DEF Inv
<1>4. DiskInv'
  BY Zenon, <1>1, DiskKept DEF Inv
<1>5. StoreInv /\ saving = "no"
  BY <1>1 DEF Inv, SavingInv
<1>6. store.last \in Nat /\ store.last <= Height /\ UpTo(store.list, Height)
  BY <1>1, <1>5 DEF StoreInv
<1>7. store.last = Height
  BY <1>1, <1>3, <1>6
<1>8. StoreInv'
  BY Zenon, <1>1, <1>2, <1>3, <1>5, <1>6, <1>7, SameEpochSets DEF StoreInv, HasAll
<1>9. QED
  BY Zenon, <1>1, <1>2, <1>3, <1>4, <1>5, <1>8 DEF Inv, HookInv, SavingInv

LEMMA RestoreEndsInv ==
  ASSUME Inv, RestoreEnds
  PROVE  Inv'
<1>1. /\ chain' = chain /\ store' = store /\ disk' = disk /\ saving' = saving
      /\ lost' = lost /\ pc = "restore" /\ pc' = "idle"
  BY Zenon DEF RestoreEnds
<1>2. saving = "no"
  BY <1>1 DEF Inv, SavingInv
<1>3. ChainInv' /\ DiskInv'
  BY Zenon, <1>1, SameChain, DiskKept DEF Inv
<1>4. StoreInv'
  <2>1. StoreInv /\ (pc' = "replay" <=> pc = "replay")
    BY <1>1 DEF Inv
  <2>2. QED
    BY Zenon, <1>1, <2>1, StoreKeptDisk
<1>5. QED
  BY <1>1, <1>2, <1>3, <1>4 DEF Inv, HookInv, SavingInv

LEMMA HookFailsInv ==
  ASSUME Inv, HookFails
  PROVE  Inv'
<1>1. /\ chain' = chain /\ store' = store /\ disk' = disk /\ saving' = saving
      /\ lost' = lost /\ pc = "hook" /\ pc' = "idle"
  BY Zenon DEF HookFails
<1>2. ChainInv' /\ DiskInv' /\ Height' = Height /\ Epoch' = Epoch
  BY Zenon, <1>1, SameChain, DiskKept DEF Inv
<1>3. StoreInv'
  <2>1. StoreInv /\ (pc' = "replay" <=> pc = "replay")
    BY <1>1 DEF Inv
  <2>2. QED
    BY Zenon, <1>1, <2>1, StoreKeptDisk
<1>4. SavingInv'
  BY Zenon, <1>1, <1>2 DEF Inv, SavingInv, HasAll
<1>5. QED
  BY <1>1, <1>2, <1>3, <1>4 DEF Inv, HookInv

-----------------------------------------------------------------------------
(* Close and crashes *)

\* The list that is saved has no header without a block.
LEMMA CloseInv ==
  ASSUME Inv, Close, ~torn'
  PROVE  Inv'
<1>1. /\ chain' = chain /\ store' = store /\ pc' = pc /\ lost' = lost
      /\ pc \in {"idle", "hook"} /\ saving' = "snaps"
      /\ disk' = [disk EXCEPT !.list = store.list]
      /\ ~(store.last > Height)
  BY Zenon DEF Close, Running
<1>2. ChainInv' /\ Height' = Height /\ Epoch' = Epoch /\ Height \in Nat /\ Epoch \in Nat
  BY Zenon, <1>1, SameChain, Numbers DEF Inv
<1>3. StoreInv /\ DiskInv /\ pc # "replay" /\ pc # "failed" /\ (pc' = "replay" <=> pc = "replay")
  BY <1>1 DEF Inv
<1>4. store.list \in Sorted /\ store.last = Height /\ UpTo(store.list, Height)
  BY <1>1, <1>2, <1>3 DEF StoreInv
<1>5. disk' \in [list : Sorted, last : Nat] /\ disk'.list = store.list /\ disk'.last = disk.last
  BY <1>1, <1>3, <1>4 DEF DiskInv
<1>6. disk.last \in Nat /\ disk.last <= Height
  BY <1>3 DEF DiskInv
<1>7. \A k \in Epoch .. disk.last : k \in Epoch .. Height
  BY <1>2, <1>6
<1>8. HasAll(store.list, Epoch, Height)
  BY Zenon, <1>3, <1>4 DEF StoreInv
<1>9. HasAll(store.list, Epoch, disk.last)
  BY Zenon, <1>7, <1>8 DEF HasAll
<1>10. Current(store.list)' <=> Current(store.list)
  BY Zenon, <1>1, SameChain, SameEpochSets DEF Current
<1>11. DiskInv'
  <2>1. Current(disk.list)'
    BY Zenon, <1>3, <1>5, <1>1, SameChain, SameEpochSets DEF Current, StoreInv
  <2>2. UpTo(disk'.list, Height') /\ disk'.last <= Height'
    BY Zenon, <1>2, <1>4, <1>5, <1>6
  <2>3. HasAll(disk'.list, Epoch', disk'.last)
    BY Zenon, <1>2, <1>5, <1>9
  <2>4. QED
    BY Zenon, <1>5, <2>1, <2>2, <2>3 DEF DiskInv, HasAll
<1>12. StoreInv'
  BY Zenon, <1>1, <1>3, <1>5, StoreKept
<1>13. SavingInv'
  BY Zenon, <1>1, <1>2, <1>4, <1>5, <1>8 DEF SavingInv, HasAll
<1>14. HookInv'
  <2>1. saving' # "no"
    BY <1>1
  <2>2. QED
    BY Zenon, <1>1, <1>2, <2>1 DEF Inv, HookInv
<1>15. QED
  BY Zenon, <1>1, <1>2, <1>3, <1>11, <1>12, <1>13, <1>14 DEF Inv

LEMMA SaveMetadataInv ==
  ASSUME Inv, SaveMetadata
  PROVE  Inv'
<1>1. /\ chain' = chain /\ store' = store /\ pc' = pc /\ lost' = lost
      /\ saving = "snaps" /\ saving' = "meta"
      /\ disk' = [disk EXCEPT !.last = store.last]
  BY Zenon DEF SaveMetadata
<1>2. ChainInv' /\ Height' = Height /\ Epoch' = Epoch /\ Height \in Nat /\ Epoch \in Nat
  BY Zenon, <1>1, SameChain, Numbers DEF Inv
<1>3. pc \in {"idle", "hook"} /\ store.last = Height /\ HasAll(disk.list, Epoch, Height)
  BY <1>1 DEF Inv, SavingInv
<1>4. StoreInv /\ DiskInv /\ pc # "replay" /\ pc # "failed"
  BY <1>3 DEF Inv
<1>5. disk' \in [list : Sorted, last : Nat] /\ disk'.list = disk.list /\ disk'.last = Height
  BY <1>1, <1>2, <1>3, <1>4 DEF DiskInv
<1>6. DiskInv'
  <2>1. Height <= Height
    BY <1>2
  <2>2. UpTo(disk'.list, Height') /\ disk'.last <= Height' /\ HasAll(disk'.list, Epoch', disk'.last)
    BY Zenon, <1>2, <1>3, <1>4, <1>5, <2>1 DEF DiskInv
  <2>3. UpTo(disk'.list, Epoch' - 1) \/ Current(disk.list)'
    BY Zenon, <1>1, <1>2, <1>4, <1>5, SameChain, SameEpochSets DEF DiskInv, Current
  <2>4. QED
    BY Zenon, <1>5, <2>2, <2>3 DEF DiskInv, HasAll
<1>7. StoreInv'
  BY Zenon, <1>1, <1>4, <1>5, StoreKept DEF StoreInv
<1>8. SavingInv'
  BY Zenon, <1>1, <1>2, <1>3, <1>5 DEF SavingInv, HasAll
<1>9. HookInv'
  <2>1. saving' # "no"
    BY <1>1
  <2>2. QED
    BY Zenon, <1>1, <1>2, <2>1 DEF Inv, HookInv
<1>10. QED
  BY Zenon, <1>1, <1>2, <1>4, <1>6, <1>7, <1>8, <1>9 DEF Inv

\* A node that is down has the invariant of its files.
LEMMA DownInv ==
  ASSUME Inv, Down, chain' = chain, lost' = lost, DiskInv'
  PROVE  Inv'
<1>1. pc' = "down" /\ saving' = "no"
  BY Zenon DEF Down
<1>2. ChainInv'
  BY Zenon, SameChain DEF Inv
<1>3. QED
  BY <1>1, <1>2 DEF Inv, HookInv, SavingInv

LEMMA ExitInv ==
  ASSUME Inv, Exit
  PROVE  Inv'
BY Zenon, DiskKept, DownInv DEF Exit, Inv

LEMMA CrashInv ==
  ASSUME Inv, Crash
  PROVE  Inv'
<1>1. Down /\ chain' = chain /\ lost' = lost
  BY Zenon DEF Crash
<1>2. Height' = Height /\ Epoch' = Epoch /\ Height \in Nat /\ Epoch \in Nat /\ Epoch <= Height /\ DiskInv
  BY Zenon, <1>1, SameChain, Numbers DEF Inv
<1>3. CASE UNCHANGED disk
  BY Zenon, <1>1, <1>2, <1>3, DiskKept, DownInv
<1>4. CASE disk' = [disk EXCEPT !.list = <<>>]
  <2> DEFINE none == <<>>
  <2>0. none \in Sorted /\ Len(none) = 0
    BY DEF Sorted
  <2> HIDE DEF none
  <2>1. disk'.list = none /\ disk'.last = disk.last /\ disk' \in [list : Sorted, last : Nat]
    <3>1. disk \in [list : Sorted, last : Nat] /\ disk' = [disk EXCEPT !.list = none]
      BY Zenon, <1>2, <1>4 DEF DiskInv, none
    <3>2. QED
      BY <2>0, <3>1
  <2>2. \A n : UpTo(disk'.list, n)
    BY <2>0, <2>1 DEF UpTo
  <2>3. DiskInv'
    BY Zenon, <1>2, <2>1, <2>2 DEF DiskInv, UpTo, none
  <2>4. QED
    BY Zenon, <1>1, <2>3, DownInv
<1>5. CASE saving = "snaps" /\ disk' = [disk EXCEPT !.last = 0]
  <2>1. disk'.list = disk.list /\ disk'.last = 0 /\ disk' \in [list : Sorted, last : Nat]
    BY <1>2, <1>5 DEF DiskInv
  <2>2. HasAll(disk.list, Epoch, Height)
    BY <1>5 DEF Inv, SavingInv
  <2>3. ASSUME 0 >= Epoch PROVE HasAll(disk.list, Epoch, 0)
    <3>1. \A k \in Epoch .. 0 : k \in Epoch .. Height
      BY <1>2
    <3>2. QED
      BY Zenon, <2>2, <3>1 DEF HasAll
  <2>4. 0 <= Height
    BY <1>2
  <2>5. DiskInv'
    <3>1. UpTo(disk'.list, Epoch' - 1) \/ Current(disk.list)'
      BY Zenon, <1>1, <1>2, <2>1, SameChain, SameEpochSets DEF DiskInv, Current
    <3>2. UpTo(disk'.list, Height') /\ disk'.last <= Height'
      BY Zenon, <1>2, <2>1, <2>4 DEF DiskInv
    <3>3. disk'.last >= Epoch' => HasAll(disk'.list, Epoch', disk'.last)
      BY Zenon, <1>2, <2>1, <2>3
    <3>4. QED
      BY Zenon, <2>1, <3>1, <3>2, <3>3 DEF DiskInv, HasAll
  <2>6. QED
    BY Zenon, <1>1, <2>5, DownInv
<1>6. QED
  BY Zenon, <1>3, <1>4, <1>5 DEF Crash

-----------------------------------------------------------------------------
(* Start and replay *)

\* The set a start finds or makes serves the epoch. If it is made while the
\* epoch block is the head then the epoch is lost.
LEMMA Restored ==
  ASSUME Inv, Height > 0
  PROVE  LET L == add(disk.list, Snapshot(Epoch, ExtraValidators(Height))) IN
         /\ L \in Sorted /\ UpTo(L, Height)
         /\ Serves(L, Epoch, Proposers, IF IsLastOfEpoch(Height) THEN ValidatorSets ELSE Allowed)
         /\ Has(disk.list, Epoch) => SetOf(L, Epoch) = SetOf(disk.list, Epoch)
<1> DEFINE s == Snapshot(Epoch, ExtraValidators(Height))
           D == disk.list
           L == add(D, s)
           W == IF IsLastOfEpoch(Height) THEN ValidatorSets ELSE Allowed
<1>1. Height \in Nat /\ Epoch \in Nat /\ Epoch <= Height /\ ChainInv /\ DiskInv
  BY Zenon, Numbers DEF Inv
<1>2. Height \in 1 .. Height /\ Height - 1 \in 0 .. Height /\ Height # 0 /\ Height \in 0 .. Height
  BY <1>1
<1>3. ExtraValidators(Height) = SetAt(Height - 1)
  BY Zenon, <1>1, <1>2 DEF ExtraValidators, ChainInv
<1>4. SetAt(Height - 1) \in ValidatorSets /\ SetAt(Height) \in ValidatorSets
  BY Zenon, <1>1, <1>2, ChainFacts
<1>5. s \in Entry /\ s.number = Epoch /\ s.set = SetAt(Height - 1)
  BY <1>1, <1>3, <1>4 DEF Entry, Snapshot
<1> HIDE DEF s
<1>6. D \in Sorted /\ UpTo(D, Height) /\ (UpTo(D, Epoch - 1) \/ Current(D))
  BY <1>1 DEF DiskInv
<1>7. /\ L \in Sorted
      /\ \A k : Has(L, k) => Has(D, k) \/ k = Epoch
      /\ Has(L, Epoch)
      /\ ~Has(D, Epoch) => SetOf(L, Epoch) = SetAt(Height - 1)
      /\ Has(D, Epoch) => SetOf(L, Epoch) = SetOf(D, Epoch)
  <2>1. /\ L \in Sorted
        /\ \A k : Has(L, k) => Has(D, k) \/ k = s.number
        /\ Has(L, s.number)
        /\ ~Has(D, s.number) => SetOf(L, s.number) = s.set
        /\ \A k : Has(D, k) => SetOf(L, k) = SetOf(D, k)
    BY Zenon, <1>5, <1>6, AddView
  <2>2. QED
    BY Zenon, <1>5, <2>1
<1> HIDE DEF D
<1>8. UpTo(L, Height)
  BY Zenon, <1>1, <1>6, <1>7, UpToHas
<1>9. Allowed \subseteq W
  BY Zenon, <1>4 DEF Allowed
<1>10. Serves(L, Epoch, Proposers, W)
  <2>1. CASE Current(D)
    <3>1. Serves(D, Epoch, Proposers, Allowed) /\ Has(D, s.number)
      BY Zenon, <1>5, <2>1 DEF Current, Serves
    <3>2. Serves(L, Epoch, Proposers, Allowed)
      BY Zenon, <1>1, <1>5, <1>6, <3>1, AddServes
    <3>3. QED
      BY Zenon, <1>9, <3>2 DEF Serves
  <2>2. CASE UpTo(D, Epoch - 1)
    <3>1. \A k \in Nat : k >= Epoch => ~Has(D, k)
      BY Zenon, <1>1, <2>2, Before
    <3>2. Epoch >= Epoch
      BY <1>1
    <3>3. SetOf(L, Epoch) = SetAt(Height - 1)
      BY Zenon, <1>1, <1>7, <3>1, <3>2
    <3>4. ASSUME NEW k, Has(L, k), k >= Epoch PROVE k = Epoch
      BY Zenon, <1>6, <1>7, <3>1, <3>4, HasNatural
    <3>5. ASSUME NEW k \in Epoch + 1 .. Height PROVE chain[k].proposer \in Range(SetAt(Height - 1))
      <4>1. k \in 1 .. Height /\ k - 1 \in Nat /\ Epoch <= k - 1 /\ k - 1 <= Height
        BY <1>1
      <4>2. Height - 1 \in Nat /\ Epoch <= Height - 1 /\ Height - 1 <= Height
        BY <1>1, <4>1
      <4>3. EpochStart(k - 1) = Epoch /\ EpochStart(Height - 1) = Epoch
        BY Zenon, <1>1, <4>1, <4>2, SameEpoch DEF Epoch
      <4>4. SetAt(k - 1) = SetAt(Height - 1)
        BY Zenon, <4>3 DEF SetAt
      <4>5. QED
        BY Zenon, <1>1, <4>1, <4>4 DEF ChainInv
    <3>6. SetAt(Height - 1) \in W
      <4>1. CASE IsLastOfEpoch(Height)
        BY Zenon, <1>4, <4>1
      <4>2. CASE ~IsLastOfEpoch(Height)
        <5>1. Epoch # Height
          BY Zenon, <1>1, <4>2, EpochBlock DEF Epoch
        <5>2. Height - 1 \in Nat /\ Epoch <= Height - 1 /\ Height - 1 <= Height
          BY <1>1, <5>1
        <5>3. EpochStart(Height - 1) = EpochStart(Height)
          BY Zenon, <1>1, <5>2, SameEpoch DEF Epoch
        <5>4. SetAt(Height - 1) = SetAt(Height)
          BY Zenon, <5>3 DEF SetAt
        <5>5. QED
          BY Zenon, <1>4, <4>2, <5>4 DEF Allowed
      <4>3. QED
        BY Zenon, <4>1, <4>2
    <3>7. Proposers \subseteq Range(SetAt(Height - 1))
      BY Zenon, <3>5 DEF Proposers
    <3>8. QED
      BY Zenon, <1>7, <3>3, <3>4, <3>6, <3>7 DEF Serves
  <2>3. QED
    BY Zenon, <1>6, <2>1, <2>2
<1>11. QED
  BY Zenon, <1>7, <1>8, <1>10 DEF D, s

\* Without a block the list gets the genesis snapshot behind what it has.
LEMMA RestoredGenesis ==
  ASSUME Inv, Height = 0
  PROVE  LET L == add(disk.list, Snapshot(0, ExtraValidators(0))) IN
         /\ L \in Sorted /\ UpTo(L, 0) /\ Current(L)
         /\ Has(disk.list, 0) => SetOf(L, 0) = SetOf(disk.list, 0)
<1> DEFINE s == Snapshot(0, ExtraValidators(0))
           D == disk.list
           L == add(D, s)
<1>1. Height \in Nat /\ Epoch \in Nat /\ Epoch <= Height /\ ChainInv /\ DiskInv
  BY Zenon, Numbers DEF Inv
<1>2. Epoch = 0
  BY <1>1
<1>3. 0 \in 0 .. Height
  BY <1>1
<1>4. ExtraValidators(0) = GenesisSet /\ SetAt(0) = GenesisSet /\ GenesisSet \in ValidatorSets
  BY Zenon, <1>2 DEF ExtraValidators, SetAt, Staked, Epoch, ValidatorSets
<1>5. s \in Entry /\ s.number = 0 /\ s.set = GenesisSet
  BY <1>4 DEF Entry, Snapshot
<1> HIDE DEF s
<1>6. D \in Sorted /\ UpTo(D, Height) /\ (UpTo(D, Epoch - 1) \/ Current(D))
  BY <1>1 DEF DiskInv
<1>7. /\ L \in Sorted
      /\ \A k : Has(L, k) => Has(D, k) \/ k = 0
      /\ Has(L, 0)
      /\ ~Has(D, 0) => SetOf(L, 0) = GenesisSet
      /\ Has(D, 0) => SetOf(L, 0) = SetOf(D, 0)
  <2>1. /\ L \in Sorted
        /\ \A k : Has(L, k) => Has(D, k) \/ k = s.number
        /\ Has(L, s.number)
        /\ ~Has(D, s.number) => SetOf(L, s.number) = s.set
        /\ \A k : Has(D, k) => SetOf(L, k) = SetOf(D, k)
    BY Zenon, <1>5, <1>6, AddView
  <2>2. QED
    BY Zenon, <1>5, <2>1
<1> HIDE DEF D
<1>8. UpTo(L, 0)
  <2>1. 0 <= 0
    OBVIOUS
  <2>2. QED
    BY Zenon, <1>6, <1>7, <2>1, UpToHas
<1>9. Current(L)
  <2>1. CASE Current(D)
    <3>1. Serves(D, Epoch, Proposers, Allowed) /\ Has(D, s.number)
      BY Zenon, <1>2, <1>5, <2>1 DEF Current, Serves
    <3>2. Serves(L, Epoch, Proposers, Allowed)
      BY Zenon, <1>1, <1>5, <1>6, <3>1, AddServes
    <3>3. QED
      BY Zenon, <3>2 DEF Current
  <2>2. CASE UpTo(D, Epoch - 1)
    <3>1. \A k \in Nat : k >= Epoch => ~Has(D, k)
      BY Zenon, <1>1, <2>2, Before
    <3>2. 0 >= 0 /\ 0 \in Nat
      OBVIOUS
    <3>3. SetOf(L, 0) = GenesisSet
      BY Zenon, <1>2, <1>7, <3>1, <3>2
    <3>4. ASSUME NEW k, Has(L, k) PROVE k = 0
      <4>1. \A j \in Nat : ~Has(D, j)
        BY <1>2, <3>1
      <4>2. QED
        BY Zenon, <1>6, <1>7, <3>4, <4>1, HasNatural
    <3>5. GenesisSet \in Allowed
      BY Zenon, <1>4 DEF Allowed
    <3>6. Proposers = {}
      <4>1. Epoch + 1 .. Height = {}
        BY <1>2
      <4>2. QED
        BY Zenon, <4>1 DEF Proposers
    <3>7. QED
      BY Zenon, <1>2, <1>7, <3>3, <3>4, <3>5, <3>6 DEF Current, Serves
  <2>3. QED
    BY Zenon, <1>6, <2>1, <2>2
<1>10. QED
  BY Zenon, <1>7, <1>8, <1>9 DEF D, s

LEMMA StartInv ==
  ASSUME Inv, Start
  PROVE  Inv'
<1>1. /\ chain' = chain /\ disk' = disk /\ saving' = saving /\ pc = "down" /\ pc' = "replay"
      /\ store' = Rebuilt(WithGenesis(disk))
      /\ lost' = IF IsLastOfEpoch(Height) /\ Outdated(WithGenesis(disk)) THEN lost \cup {Height} ELSE lost
  BY Zenon DEF Start
<1>2. /\ ChainInv' /\ Height' = Height /\ Epoch' = Epoch /\ Proposers' = Proposers
      /\ SetAt(Height)' = SetAt(Height)
      /\ Height \in Nat /\ Epoch \in Nat /\ Epoch <= Height /\ DiskInv /\ ChainInv
  BY Zenon, <1>1, SameChain, Numbers DEF Inv
<1>3. saving = "no"
  BY <1>1 DEF Inv, SavingInv
<1>4. SetAt(Height) \in ValidatorSets
  <2>1. Height \in 0 .. Height
    BY <1>2
  <2>2. QED
    BY Zenon, <1>2, <2>1, ChainFacts
<1>5. Allowed \subseteq Allowed'
  <2>1. lost \subseteq lost'
    BY Zenon, <1>1
  <2>2. QED
    BY Zenon, <1>2, <1>4, <2>1 DEF Allowed
<1>6. \A L : Current(L) => Current(L)'
  BY Zenon, <1>2, <1>5 DEF Current, Serves
<1>7. DiskInv'
  BY Zenon, <1>1, <1>2, <1>6 DEF DiskInv, HasAll
<1>8. disk.list \in Sorted /\ disk.last \in Nat /\ disk.last <= Height /\ UpTo(disk.list, Height)
  BY <1>2 DEF DiskInv
<1>9. /\ store' \in [list : Sorted, last : Nat]
      /\ UpTo(store'.list, Height) /\ Epoch <= store'.last /\ store'.last <= Height
      /\ Serves(store'.list, Epoch, Proposers, Allowed')
      /\ HasAll(store'.list, Epoch, store'.last)
      /\ Has(disk.list, Epoch) => SetOf(disk.list, Epoch) = SetOf(store'.list, Epoch)
  <2>1. CASE Height = 0
    <3> DEFINE L == add(disk.list, Snapshot(0, ExtraValidators(0)))
               D == [disk EXCEPT !.list = L]
    <3>1. /\ L \in Sorted /\ UpTo(L, 0) /\ Current(L)
          /\ Has(disk.list, 0) => SetOf(L, 0) = SetOf(disk.list, 0)
      BY Zenon, <2>1, RestoredGenesis
    <3> HIDE DEF L
    <3>2. Epoch = 0 /\ disk.last = 0
      BY <1>2, <1>8, <2>1
    <3>3. D \in [list : Sorted, last : Nat] /\ D.list = L /\ D.last = 0
      BY <1>2, <3>1, <3>2 DEF DiskInv
    <3>4. Has(L, 0)
      BY Zenon, <3>1, <3>2 DEF Current, Serves
    <3>5. L # <<>>
      BY <3>4 DEF Has
    <3>6. WithGenesis(disk) = D
      BY Zenon, <2>1 DEF WithGenesis, L
    <3>7. ~Outdated(D)
      <4>1. ~(0 \div EpochSize < Height \div EpochSize)
        BY <2>1, EpochAssumption
      <4>2. QED
        BY Zenon, <3>3, <3>5, <4>1 DEF Outdated
    <3>8. store' = D
      BY Zenon, <1>1, <3>6, <3>7 DEF Rebuilt
    <3>9. HasAll(L, 0, 0)
      BY <3>4 DEF HasAll
    <3>10. Serves(L, Epoch, Proposers, Allowed')
      BY Zenon, <1>5, <3>1 DEF Current, Serves
    <3>11. 0 <= 0
      OBVIOUS
    <3>12. QED
      BY Zenon, <2>1, <3>1, <3>2, <3>3, <3>8, <3>9, <3>10, <3>11
  <2>2. CASE Height > 0 /\ Outdated(disk)
    <3> DEFINE L == add(disk.list, Snapshot(Epoch, ExtraValidators(Height)))
               W == IF IsLastOfEpoch(Height) THEN ValidatorSets ELSE Allowed
    <3>1. /\ L \in Sorted /\ UpTo(L, Height) /\ Serves(L, Epoch, Proposers, W)
          /\ Has(disk.list, Epoch) => SetOf(L, Epoch) = SetOf(disk.list, Epoch)
      BY Zenon, <2>2, Restored
    <3>2. Height # 0
      BY <1>2, <2>2
    <3>3. WithGenesis(disk) = disk
      BY Zenon, <3>2 DEF WithGenesis
    <3>4. store' = [list |-> L, last |-> Epoch]
      BY Zenon, <1>1, <2>2, <3>3 DEF Rebuilt, Epoch
    <3> HIDE DEF L
    <3>5. store' \in [list : Sorted, last : Nat] /\ store'.list = L /\ store'.last = Epoch
      BY <1>2, <3>1, <3>4
    <3>6. W \subseteq Allowed'
      <4>1. CASE IsLastOfEpoch(Height)
        <5>1. Epoch = Height
          BY Zenon, <1>2, <2>2, <4>1, EpochBlock DEF Epoch
        <5>2. Epoch' \in lost'
          BY Zenon, <1>1, <1>2, <2>2, <3>3, <4>1, <5>1
        <5>3. QED
          BY Zenon, <4>1, <5>2 DEF Allowed
      <4>2. CASE ~IsLastOfEpoch(Height)
        BY Zenon, <1>5, <4>2
      <4>3. QED
        BY Zenon, <4>1, <4>2
    <3>7. HasAll(L, Epoch, Epoch)
      <4>1. \A k \in Epoch .. Epoch : k = Epoch
        BY <1>2
      <4>2. QED
        BY Zenon, <3>1, <4>1 DEF HasAll, Serves
    <3>8. Serves(L, Epoch, Proposers, Allowed')
      BY Zenon, <3>1, <3>6 DEF Serves
    <3>9. Epoch <= Epoch
      BY <1>2
    <3>10. QED
      BY Zenon, <1>2, <3>1, <3>5, <3>7, <3>8, <3>9
  <2>3. CASE Height > 0 /\ ~Outdated(disk)
    <3>1. Height # 0
      BY <1>2, <2>3
    <3>2. WithGenesis(disk) = disk
      BY Zenon, <3>1 DEF WithGenesis
    <3>3. store' = disk
      BY Zenon, <1>1, <2>3, <3>2 DEF Rebuilt
    <3>4. disk.list # <<>> /\ disk.last >= Epoch
      <4>1. disk.list # <<>> /\ ~(disk.last \div EpochSize < Height \div EpochSize)
        BY Zenon, <2>3 DEF Outdated
      <4>2. ~(disk.last < Epoch)
        BY Zenon, <1>2, <1>8, <4>1, OlderEpoch DEF Epoch
      <4>3. QED
        BY <1>2, <1>8, <4>1, <4>2
    <3>5. HasAll(disk.list, Epoch, disk.last)
      BY Zenon, <1>2, <3>4 DEF DiskInv
    <3>6. Epoch \in Epoch .. disk.last /\ Epoch >= Epoch /\ Epoch <= disk.last
      BY <1>2, <1>8, <3>4
    <3>7. Has(disk.list, Epoch)
      BY Zenon, <3>5, <3>6 DEF HasAll
    <3>8. Current(disk.list)
      BY Zenon, <1>2, <3>6, <3>7, Before DEF DiskInv
    <3>9. Serves(disk.list, Epoch, Proposers, Allowed')
      BY Zenon, <1>5, <3>8 DEF Current, Serves
    <3>10. QED
      BY Zenon, <1>2, <1>8, <3>3, <3>5, <3>6, <3>9 DEF DiskInv
  <2>4. QED
    BY <1>2, <2>1, <2>2, <2>3
<1>10. StoreInv'
  <2>1. Current(store.list)'
    BY Zenon, <1>2, <1>9 DEF Current
  <2>2. QED
    BY Zenon, <1>1, <1>2, <1>9, <2>1 DEF StoreInv, HasAll
<1>11. QED
  BY <1>1, <1>2, <1>3, <1>7, <1>10 DEF Inv, HookInv, SavingInv

\* The proposer of the next header is in the set that the replay started from.
LEMMA ReplayInv ==
  ASSUME Inv, Replay
  PROVE  Inv'
<1>0. PICK n : n = store.last
  OBVIOUS
<1> DEFINE m == n + 1
           N == processHeaders(store, m)
<1>1. /\ chain' = chain /\ disk' = disk /\ saving' = saving /\ lost' = lost
      /\ pc = "replay" /\ m <= Height
      /\ \/ store' = N /\ pc' = pc
         \/ ~Authorized(store, m, chain[m])
  BY Zenon, <1>0 DEF Replay
<1>2. /\ ChainInv' /\ Height' = Height /\ Epoch' = Epoch /\ Proposers' = Proposers
      /\ Height \in Nat /\ Epoch \in Nat /\ Epoch <= Height
  BY Zenon, <1>1, SameChain, Numbers DEF Inv
<1>3. StoreInv /\ saving = "no" /\ DiskInv'
  BY Zenon, <1>1, DiskKept DEF Inv, SavingInv
<1>4. /\ store.list \in Sorted /\ n \in Nat /\ Epoch <= n /\ UpTo(store.list, Height)
      /\ HasAll(store.list, Epoch, n) /\ Serves(store.list, Epoch, Proposers, Allowed)
  BY <1>0, <1>1, <1>3 DEF StoreInv, Current
<1>5. n >= Epoch /\ n \in Epoch .. n /\ m \in Epoch + 1 .. Height /\ m - 1 = n /\ m \in Nat /\ Height >= m
  BY <1>1, <1>2, <1>4
<1>6. Has(store.list, n) /\ \A k \in Epoch .. n : Has(store.list, k)
  BY Zenon, <1>4, <1>5 DEF HasAll
<1>7. /\ find(store.list, n).set = SetOf(store.list, Epoch)
      /\ N.last = m /\ N.list \in Sorted
      /\ Serves(N.list, Epoch, Proposers, Allowed)
      /\ SetOf(N.list, Epoch) = SetOf(store.list, Epoch)
      /\ \A k \in Epoch .. m : Has(N.list, k)
      /\ \A b \in Nat : b >= m /\ UpTo(store.list, b) => UpTo(N.list, b)
  <2>1. /\ store.list \in Sorted /\ Epoch \in Nat /\ n \in Nat /\ n >= Epoch
        /\ Serves(store.list, Epoch, Proposers, Allowed)
        /\ Has(store.list, n) /\ \A k \in Epoch .. n : Has(store.list, k)
    BY Zenon, <1>2, <1>4, <1>5, <1>6
  <2>2. find(store.list, n).set = SetOf(store.list, n)
    BY Zenon, <2>1, FindFirst
  <2>3. /\ N.last = m /\ N.list \in Sorted
        /\ Serves(N.list, Epoch, Proposers, Allowed)
        /\ SetOf(N.list, Epoch) = SetOf(store.list, Epoch)
        /\ \A k \in Epoch .. m : Has(N.list, k)
        /\ \A b \in Nat : b >= m /\ UpTo(store.list, b) => UpTo(N.list, b)
    BY Zenon, <2>1, Processed
  <2>4. SetOf(store.list, n) = SetOf(store.list, Epoch)
    BY Zenon, <2>1 DEF Serves
  <2>5. QED
    BY Zenon, <2>2, <2>3, <2>4
<1>8. Authorized(store, m, chain[m])
  <2>1. chain[m].proposer \in Proposers
    BY Zenon, <1>5 DEF Proposers
  <2>2. chain[m].proposer \in Range(find(store.list, n).set)
    BY Zenon, <1>4, <1>7, <2>1 DEF Serves
  <2>3. QED
    BY Zenon, <1>5, <2>2 DEF Authorized, Includes
<1>9. store' = N /\ pc' = "replay"
  BY Zenon, <1>1, <1>8
<1>10. N \in [list : Sorted, last : Nat]
  <2>1. N = [list |-> N.list, last |-> N.last]
    BY DEF processHeaders
  <2>2. N.list \in Sorted /\ N.last \in Nat
    BY Zenon, <1>5, <1>7
  <2> HIDE DEF N
  <2>3. QED
    BY <2>1, <2>2
<1>11. UpTo(N.list, Height) /\ HasAll(N.list, Epoch, m) /\ Epoch <= m
  <2>1. Epoch <= m
    BY <1>2, <1>4
  <2>2. QED
    BY Zenon, <1>2, <1>4, <1>5, <1>7, <2>1 DEF HasAll
<1> HIDE DEF N, m
<1>12. StoreInv'
  <2>1. Current(store.list)'
    BY Zenon, <1>1, <1>2, <1>7, <1>9, SameEpochSets DEF Current
  <2>2. Has(disk'.list, Epoch') => SetOf(disk'.list, Epoch') = SetOf(store'.list, Epoch')
    BY Zenon, <1>1, <1>2, <1>3, <1>7, <1>9 DEF StoreInv
  <2>3. HasAll(store'.list, Epoch', store'.last)
    BY Zenon, <1>2, <1>7, <1>9, <1>11
  <2>4. Epoch' <= store'.last /\ store'.last <= Height' /\ UpTo(store'.list, Height')
    BY Zenon, <1>1, <1>2, <1>7, <1>9, <1>11
  <2>5. QED
    BY Zenon, <1>9, <1>10, <2>1, <2>2, <2>3, <2>4 DEF StoreInv, HasAll
<1>13. QED
  BY <1>1, <1>2, <1>3, <1>9, <1>12 DEF Inv, HookInv, SavingInv

-----------------------------------------------------------------------------
(* Blocks *)

\* A header that the store accepts on top of the head: the store with its
\* snapshot still serves the epoch, and so would it with the next block.
LEMMA Accepted ==
  ASSUME ChainInv, StoreInv, pc # "replay", NEW h, NEW seals, Accepts(h, seals)
  PROVE  LET N == processHeaders(store, Height + 1) IN
         /\ N \in [list : Sorted, last : Nat] /\ N.last = Height + 1
         /\ Current(N.list) /\ SetOf(N.list, Epoch) = SetOf(store.list, Epoch)
         /\ HasAll(N.list, Epoch, Height + 1)
         /\ UpTo(N.list, Height + 1)
         /\ h.proposer \in Range(SetOf(store.list, Epoch))
<1> DEFINE m == Height + 1
           N == processHeaders(store, m)
<1>1. Height \in Nat /\ Epoch \in Nat /\ Epoch <= Height /\ Height >= Epoch /\ m \in Nat /\ m >= m
      /\ m - 1 = Height
  <2>1. Height \in Nat /\ Epoch \in Nat /\ Epoch <= Height
    BY Zenon, Numbers
  <2>2. QED
    BY <2>1
<1>2. /\ store.list \in Sorted /\ store.last \in {Height, m} /\ UpTo(store.list, store.last)
      /\ HasAll(store.list, Epoch, store.last) /\ Serves(store.list, Epoch, Proposers, Allowed)
  BY DEF StoreInv, Current
<1>3. Has(store.list, Height) /\ find(store.list, Height).set = SetOf(store.list, Epoch)
  BY Zenon, AtHead
<1>4. \A k \in Epoch .. Height : Has(store.list, k)
  <2>1. \A k \in Epoch .. Height : k \in Epoch .. store.last
    BY <1>1, <1>2
  <2>2. QED
    BY Zenon, <1>2, <2>1 DEF HasAll
<1>5. UpTo(store.list, m)
  <2>1. ASSUME NEW k, Has(store.list, k) PROVE k <= m
    <3>1. k \in Nat /\ k <= store.last
      BY Zenon, <1>2, <2>1, HasNatural, UpToHas
    <3>2. QED
      BY <1>1, <1>2, <3>1
  <2>2. QED
    BY Zenon, <2>1, UpToHas
<1>6. /\ N.last = m /\ N.list \in Sorted
      /\ Serves(N.list, Epoch, Proposers, Allowed)
      /\ SetOf(N.list, Epoch) = SetOf(store.list, Epoch)
      /\ \A k \in Epoch .. m : Has(N.list, k)
      /\ \A b \in Nat : b >= m /\ UpTo(store.list, b) => UpTo(N.list, b)
  <2>1. /\ store.list \in Sorted /\ Epoch \in Nat /\ Height \in Nat /\ Height >= Epoch
        /\ Serves(store.list, Epoch, Proposers, Allowed)
        /\ Has(store.list, Height) /\ \A k \in Epoch .. Height : Has(store.list, k)
    BY Zenon, <1>1, <1>2, <1>3, <1>4
  <2>2. QED
    BY Zenon, <2>1, Processed
<1>7. N \in [list : Sorted, last : Nat]
  <2>1. N = [list |-> N.list, last |-> N.last]
    BY DEF processHeaders
  <2>2. N.list \in Sorted /\ N.last \in Nat
    BY Zenon, <1>1, <1>6
  <2> HIDE DEF N
  <2>3. QED
    BY <2>1, <2>2
<1>8. h.proposer \in Range(SetOf(store.list, Epoch))
  BY Zenon, <1>3 DEF Accepts, Verifies, Includes
<1>9. UpTo(N.list, m)
  BY Zenon, <1>1, <1>5, <1>6
<1>10. QED
  BY Zenon, <1>6, <1>7, <1>8, <1>9 DEF Current, HasAll

LEMMA WriteFailsInv ==
  ASSUME Inv, NEW h \in NextHeaders, NEW seals \in Quorums, WriteFails(h, seals), ~torn'
  PROVE  Inv'
<1> DEFINE N == processHeaders(store, Height + 1)
<1>1. /\ chain' = chain /\ disk' = disk /\ saving' = saving /\ lost' = lost
      /\ pc = "idle" /\ pc' = pc /\ Accepts(h, seals) /\ store' = N /\ saving = "no"
  BY Zenon DEF WriteFails
<1>2. ChainInv' /\ Height' = Height /\ Epoch' = Epoch /\ Proposers' = Proposers /\ ChainInv
  BY Zenon, <1>1, SameChain DEF Inv
<1>3. StoreInv /\ DiskInv' /\ pc # "replay"
  <2>1. StoreInv /\ DiskInv /\ pc # "replay"
    BY <1>1 DEF Inv
  <2>2. QED
    BY Zenon, <1>1, <2>1, DiskKept
<1>4. /\ N \in [list : Sorted, last : Nat] /\ N.last = Height + 1
      /\ Current(N.list) /\ SetOf(N.list, Epoch) = SetOf(store.list, Epoch)
      /\ HasAll(N.list, Epoch, Height + 1)
      /\ UpTo(N.list, Height + 1)
  BY Zenon, <1>1, <1>2, <1>3, Accepted
<1> HIDE DEF N
<1>5. StoreInv'
  <2>1. Current(store.list)'
    BY Zenon, <1>1, <1>2, <1>4, SameEpochSets DEF Current
  <2>2. Has(disk'.list, Epoch') => SetOf(disk'.list, Epoch') = SetOf(store'.list, Epoch')
    BY Zenon, <1>1, <1>2, <1>3, <1>4 DEF StoreInv
  <2>3. QED
    BY Zenon, <1>1, <1>2, <1>3, <1>4, <2>1, <2>2 DEF StoreInv, HasAll
<1>6. QED
  BY <1>1, <1>2, <1>3, <1>5 DEF Inv, HookInv, SavingInv

\* A block of the same epoch, or the first of the next one, whose hook is due.
LEMMA WriteBlockInv ==
  ASSUME Inv, pc \in {"idle", "restore"}, NEW h \in NextHeaders, NEW seals \in Quorums,
         NEW next \in {"hook", "restore"}, WriteBlock(h, seals, next),
         disk' = disk, saving' = saving, ~torn'
  PROVE  Inv'
<1> DEFINE N == processHeaders(store, Height + 1)
<1>1. /\ chain' = Append(chain, h) /\ Accepts(h, seals) /\ store' = N /\ pc' = next
      /\ lost' = IF IsLastOfEpoch(Height + 1) THEN lost \cup {Height + 1} ELSE lost
      /\ saving = "no"
  BY Zenon DEF WriteBlock
<1>2. StoreInv /\ DiskInv /\ ChainInv /\ pc # "replay" /\ pc' # "replay" /\ pc' # "failed"
  BY <1>1 DEF Inv
<1>3. /\ N \in [list : Sorted, last : Nat] /\ N.last = Height + 1
      /\ Current(N.list) /\ SetOf(N.list, Epoch) = SetOf(store.list, Epoch)
      /\ HasAll(N.list, Epoch, Height + 1)
      /\ UpTo(N.list, Height + 1)
      /\ h.proposer \in Range(SetOf(store.list, Epoch))
  BY Zenon, <1>1, <1>2, Accepted
<1> HIDE DEF N
<1>4. /\ ChainInv' /\ Height' = Height + 1
      /\ \A n \in 1 .. Height : chain'[n] = chain[n]
      /\ chain'[Height + 1] = h
      /\ \A n \in 0 .. Height : SetAt(n)' = SetAt(n)
  BY Zenon, <1>1, <1>2, Extended
<1>5. Height \in Nat /\ Epoch \in Nat /\ Epoch <= Height
  BY Zenon, <1>2, Numbers
<1>6. /\ disk.list \in Sorted /\ disk.last \in Nat /\ disk.last <= Height /\ UpTo(disk.list, Height)
      /\ N.list \in Sorted
  BY <1>2, <1>3 DEF DiskInv
<1>7. UpTo(disk.list, Height + 1) /\ disk.last <= Height + 1
  <2>1. ASSUME NEW k, Has(disk.list, k) PROVE k <= Height + 1
    <3>1. k \in Nat /\ k <= Height
      BY Zenon, <1>6, <2>1, HasNatural, UpToHas
    <3>2. QED
      BY <1>5, <3>1
  <2>2. disk.last <= Height + 1
    BY <1>5, <1>6
  <2>3. QED
    BY Zenon, <2>1, <2>2, UpToHas
<1>8. Epoch' = EpochStart(Height + 1)
  BY Zenon, <1>4 DEF Epoch, EpochStart
<1>9. /\ UpTo(disk.list, Epoch' - 1) \/ Serves(disk.list, Epoch', Proposers', Allowed')
      /\ disk.list # <<>> /\ disk.last >= Epoch' => HasAll(disk.list, Epoch', disk.last)
      /\ Serves(N.list, Epoch', Proposers', Allowed')
      /\ HasAll(N.list, Epoch', Height + 1)
      /\ Has(disk.list, Epoch') => SetOf(disk.list, Epoch') = SetOf(N.list, Epoch')
  <2>1. CASE IsLastOfEpoch(Height + 1)
    <3>1. PICK m \in Nat : m = Height + 1 /\ m > Height /\ m - 1 = Height /\ m \in Epoch .. m /\ m >= m
      BY <1>5
    <3>2. Epoch' = m /\ m \in lost'
      BY Zenon, <1>1, <1>5, <1>8, <2>1, <3>1, NextEpoch
    <3>3. Allowed' = ValidatorSets
      BY Zenon, <3>2 DEF Allowed
    <3>4. Proposers' = {}
      <4>1. m + 1 .. m = {}
        OBVIOUS
      <4>2. QED
        BY Zenon, <1>4, <3>1, <3>2, <4>1 DEF Proposers
    <3>5. Has(N.list, m)
      BY Zenon, <1>3, <3>1 DEF HasAll
    <3>6. ASSUME NEW k, Has(N.list, k), k >= m PROVE k = m
      <4>1. k \in Nat /\ k <= m
        BY Zenon, <1>3, <1>6, <3>1, <3>6, HasNatural, UpToHas
      <4>2. QED
        BY <3>6, <4>1
    <3>7. Serves(N.list, m, {}, ValidatorSets)
      BY Zenon, <1>6, <3>5, <3>6, SetOfTyped DEF Serves, Sorted
    <3>8. HasAll(N.list, m, m)
      <4>1. \A k \in m .. m : k = m
        OBVIOUS
      <4>2. QED
        BY Zenon, <3>5, <4>1 DEF HasAll
    <3>9. ~(disk.last >= m)
      BY <1>5, <1>6, <3>1
    <3>10. UpTo(disk.list, m - 1)
      BY Zenon, <1>6, <3>1
    <3>11. ~Has(disk.list, m)
      BY Zenon, <3>1, <3>10, Before
    <3>12. QED
      BY Zenon, <3>1, <3>2, <3>3, <3>4, <3>7, <3>8, <3>9, <3>10, <3>11
  <2>2. CASE ~IsLastOfEpoch(Height + 1)
    <3>1. Epoch' = Epoch /\ lost' = lost
      BY Zenon, <1>1, <1>5, <1>8, <2>2, NextEpoch DEF Epoch
    <3>2. SetAt(Height)' = SetAt(Height)
      <4>1. Height \in 0 .. Height
        BY <1>5
      <4>2. PICK n \in 0 .. Height : n = Height
        BY Zenon, <4>1
      <4>3. PICK e : e = EpochStart(n)
        OBVIOUS
      <4>4. EpochStart(Height)' = e
        BY Zenon, <3>1, <4>2, <4>3 DEF Epoch
      <4>5. SetAt(n)' = Staked(e)'
        BY Zenon, <4>3 DEF SetAt, Staked, EpochStart
      <4>6. SetAt(Height)' = Staked(e)'
        BY Zenon, <4>4 DEF SetAt, Staked, EpochStart
      <4>7. SetAt(n)' = SetAt(n)
        BY Zenon, <1>4
      <4>8. QED
        BY Zenon, <4>2, <4>5, <4>6, <4>7
    <3>3. Allowed' = Allowed
      BY Zenon, <3>1, <3>2 DEF Allowed
    <3>4. Proposers' \subseteq Proposers \cup {h.proposer}
      <4> SUFFICES ASSUME NEW k \in Epoch + 1 .. Height + 1
                   PROVE  chain'[k].proposer \in Proposers \cup {h.proposer}
        BY Zenon, <1>4, <3>1 DEF Proposers
      <4>1. k = Height + 1 \/ (k \in Epoch + 1 .. Height /\ k \in 1 .. Height)
        BY <1>5
      <4>2. QED
        BY Zenon, <1>4, <4>1 DEF Proposers
    <3>5. ASSUME NEW L, Current(L), SetOf(L, Epoch) = SetOf(store.list, Epoch)
          PROVE  Serves(L, Epoch', Proposers', Allowed')
      BY Zenon, <1>3, <3>1, <3>3, <3>4, <3>5 DEF Current, Serves
    <3>6. Has(disk.list, Epoch) => SetOf(disk.list, Epoch) = SetOf(store.list, Epoch)
      BY Zenon, <1>2 DEF StoreInv
    <3>7. Serves(N.list, Epoch', Proposers', Allowed')
      BY Zenon, <1>3, <3>5
    <3>8. Current(disk.list) => Serves(disk.list, Epoch', Proposers', Allowed')
      BY Zenon, <3>5, <3>6 DEF Current, Serves
    <3>9. UpTo(disk.list, Epoch' - 1) \/ Serves(disk.list, Epoch', Proposers', Allowed')
      BY Zenon, <1>2, <3>1, <3>8 DEF DiskInv
    <3>10. disk.list # <<>> /\ disk.last >= Epoch' => HasAll(disk.list, Epoch', disk.last)
      BY Zenon, <1>2, <3>1 DEF DiskInv
    <3>11. QED
      BY Zenon, <1>3, <3>1, <3>6, <3>7, <3>9, <3>10
  <2>3. QED
    BY Zenon, <2>1, <2>2
<1>10. DiskInv'
  <2>1. UpTo(disk'.list, Epoch' - 1) \/ Current(disk.list)'
    BY Zenon, <1>9 DEF Current
  <2>2. QED
    BY Zenon, <1>2, <1>4, <1>7, <1>9, <2>1 DEF DiskInv, HasAll
<1>11. StoreInv'
  <2>1. Current(store.list)'
    BY Zenon, <1>1, <1>9 DEF Current
  <2>2. QED
    BY Zenon, <1>1, <1>2, <1>3, <1>4, <1>9, <2>1 DEF StoreInv, HasAll
<1>12. HookInv'
  <2>1. Height + 1 >= 1 /\ (Height + 1) - 1 = Height
    BY <1>5
  <2>2. QED
    BY Zenon, <1>1, <1>3, <1>4, <1>6, <2>1 DEF HookInv
<1>13. QED
  BY Zenon, <1>1, <1>2, <1>4, <1>10, <1>11, <1>12 DEF Inv, SavingInv

\* The hook of an epoch block writes the validators of the contract to the
\* first snapshot of the block, which is the one that find sees.
LEMMA RunHookInv ==
  ASSUME Inv, RunHook, ~torn'
  PROVE  Inv'
<1>1. /\ chain' = chain /\ disk' = disk /\ saving' = saving /\ pc = "hook" /\ pc' = "idle"
      /\ lost' = lost \ {Height}
      /\ store' = IF IsLastOfEpoch(Height) THEN [store EXCEPT !.list = updateValidators(@, Height)]
                  ELSE store
      /\ ~(saving # "no" /\ IsLastOfEpoch(Height))
  BY Zenon DEF RunHook
<1>2. /\ ChainInv' /\ Height' = Height /\ Epoch' = Epoch /\ Proposers' = Proposers
      /\ SetAt(Height)' = SetAt(Height) /\ ChainInv
      /\ Height \in Nat /\ Epoch \in Nat /\ Epoch <= Height
  BY Zenon, <1>1, SameChain, Numbers DEF Inv
<1>3. StoreInv /\ DiskInv /\ pc # "replay" /\ store.last = Height /\ Height >= 1
  BY <1>1 DEF Inv, HookInv
<1>4. Height > 0
  BY <1>2, <1>3
<1>5. CASE ~IsLastOfEpoch(Height)
  <2>1. store' = store
    BY Zenon, <1>1, <1>5
  <2>2. Epoch # Height
    BY Zenon, <1>2, <1>4, <1>5, EpochBlock DEF Epoch
  <2>3. Allowed' = Allowed
    BY Zenon, <1>1, <1>2, <2>2 DEF Allowed
  <2>4. \A L : Current(L)' <=> Current(L)
    BY Zenon, <1>2, <2>3 DEF Current
  <2>5. DiskInv'
    BY Zenon, <1>1, <1>2, <1>3, <2>4 DEF DiskInv, HasAll
  <2>6. StoreInv'
    <3>1. pc' # "replay"
      BY <1>1
    <3>2. QED
      BY Zenon, <1>1, <1>2, <1>3, <2>1, <2>4, <3>1 DEF StoreInv, HasAll
  <2>7. SavingInv'
    <3>1. pc' \in {"idle", "hook"}
      BY <1>1
    <3>2. QED
      BY Zenon, <1>1, <1>2, <2>1, <3>1 DEF Inv, SavingInv, HasAll
  <2>8. QED
    BY <1>1, <1>2, <2>5, <2>6, <2>7 DEF Inv, HookInv
<1>6. CASE IsLastOfEpoch(Height)
  <2>1. Epoch = Height /\ saving = "no"
    BY Zenon, <1>1, <1>2, <1>4, <1>6, EpochBlock DEF Epoch
  <2>2. UpTo(disk.list, Height - 1)
    BY Zenon, <1>1, <2>1 DEF Inv, HookInv
  <2>3. /\ store \in [list : Sorted, last : Nat] /\ store.list \in Sorted
        /\ UpTo(store.list, Height) /\ HasAll(store.list, Height, Height)
        /\ Serves(store.list, Height, Proposers, Allowed)
    BY <1>3, <2>1 DEF StoreInv, Current
  <2>4. Has(store.list, Height) /\ find(store.list, Height).number = Height
        /\ find(store.list, Height).set = SetOf(store.list, Height)
    BY Zenon, <1>2, <1>3, <2>1, AtHead
  <2>5. SetAt(Height) = Staked(Height) /\ Staked(Height) \in ValidatorSets
    <3>1. Height \in 0 .. Height
      BY <1>2
    <3>2. QED
      BY Zenon, <1>2, <2>1, <3>1, ChainFacts DEF SetAt, Epoch
  <2> DEFINE U == updateValidators(store.list, Height)
  <2>6. U \in Sorted /\ (\A k : Has(U, k) <=> Has(store.list, k)) /\ SetOf(U, Height) = Staked(Height)
    <3> DEFINE s == Snapshot(Height, Staked(Height))
    <3>1. s \in Entry /\ s.number = Height /\ s.set = Staked(Height)
      BY <1>2, <2>5 DEF Entry, Snapshot
    <3> HIDE DEF s
    <3>2. CASE SetOf(store.list, Height) = Staked(Height)
      <4>1. U = store.list
        BY Zenon, <2>4, <3>1, <3>2 DEF updateValidators, s
      <4>2. QED
        BY Zenon, <2>3, <3>2, <4>1
    <3>3. CASE SetOf(store.list, Height) # Staked(Height)
      <4>1. U = replace(store.list, s)
        BY Zenon, <2>4, <3>1, <3>3 DEF updateValidators, s
      <4>2. Has(store.list, s.number)
        BY Zenon, <2>4, <3>1
      <4>3. /\ replace(store.list, s) \in Sorted
            /\ \A k : Has(replace(store.list, s), k) <=> Has(store.list, k)
            /\ SetOf(replace(store.list, s), s.number) = s.set
        BY Zenon, <2>3, <3>1, <4>2, ReplaceView
      <4>4. QED
        BY Zenon, <3>1, <4>1, <4>3
    <3>4. QED
      BY Zenon, <3>2, <3>3
  <2> HIDE DEF U
  <2>7. store' \in [list : Sorted, last : Nat] /\ store'.list = U /\ store'.last = Height
    <3>1. store' = [store EXCEPT !.list = U]
      BY Zenon, <1>1, <1>6 DEF U
    <3>2. QED
      BY <1>3, <2>3, <2>6, <3>1
  <2>8. UpTo(U, Height) /\ HasAll(U, Height, Height) /\ Has(U, Height)
    BY Zenon, <2>3, <2>4, <2>6, UpToHas DEF HasAll
  <2>9. Proposers = {}
    <3>1. Epoch + 1 .. Height = {}
      BY <1>2, <2>1
    <3>2. QED
      BY Zenon, <3>1 DEF Proposers
  <2>10. Staked(Height) \in Allowed'
    BY Zenon, <1>1, <1>2, <2>1, <2>5 DEF Allowed
  <2>11. ASSUME NEW k, Has(U, k), k >= Height PROVE k = Height
    <3>1. k \in Nat /\ k <= Height
      BY Zenon, <2>6, <2>8, <2>11, HasNatural, UpToHas
    <3>2. QED
      BY <1>2, <2>11, <3>1
  <2>12. Current(store.list)'
    BY Zenon, <1>2, <2>1, <2>6, <2>7, <2>8, <2>9, <2>10, <2>11 DEF Current, Serves
  <2>13. ~Has(disk.list, Epoch)
    <3>1. Height >= Height
      BY <1>2
    <3>2. QED
      BY Zenon, <1>2, <2>1, <2>2, <3>1, Before
  <2>14. DiskInv'
    BY Zenon, <1>1, <1>2, <1>3, <2>1, <2>2 DEF DiskInv, HasAll
  <2>15. StoreInv'
    <3>1. pc' # "replay"
      BY <1>1
    <3>2. QED
      BY Zenon, <1>1, <1>2, <2>1, <2>7, <2>8, <2>12, <2>13, <3>1 DEF StoreInv, HasAll
  <2>16. QED
    BY <1>1, <1>2, <2>1, <2>14, <2>15 DEF Inv, HookInv, SavingInv
<1>7. QED
  BY Zenon, <1>5, <1>6

-----------------------------------------------------------------------------
(* The theorems *)

LEMMA NextInv ==
  ASSUME Inv, ~torn', [Next]_vars
  PROVE  Inv'
<1>1. CASE Start
  BY Zenon, <1>1, StartInv
<1>2. CASE Replay
  BY Zenon, <1>2, ReplayInv
<1>3. ASSUME NEW next \in {"idle", "restore"}, Replayed(next) PROVE Inv'
  BY Zenon, <1>3, ReplayedInv
<1>4. ASSUME NEW h \in NextHeaders, NEW seals \in Quorums, InsertBlock(h, seals) PROVE Inv'
  <2>1. /\ pc \in {"idle", "restore"} /\ "hook" \in {"hook", "restore"}
        /\ WriteBlock(h, seals, "hook") /\ disk' = disk /\ saving' = saving
    BY Zenon, <1>4 DEF InsertBlock
  <2>2. QED
    BY Zenon, <2>1, WriteBlockInv
<1>5. ASSUME NEW h \in NextHeaders, NEW seals \in Quorums, RestoreBlock(h, seals) PROVE Inv'
  <2>1. /\ pc \in {"idle", "restore"} /\ "restore" \in {"hook", "restore"}
        /\ WriteBlock(h, seals, "restore") /\ disk' = disk /\ saving' = saving
    BY Zenon, <1>5 DEF RestoreBlock
  <2>2. QED
    BY Zenon, <2>1, WriteBlockInv
<1>6. ASSUME NEW h \in NextHeaders, NEW seals \in Quorums, WriteFails(h, seals) PROVE Inv'
  BY Zenon, <1>6, WriteFailsInv
<1>7. CASE RestoreEnds
  BY Zenon, <1>7, RestoreEndsInv
<1>8. CASE RunHook
  BY Zenon, <1>8, RunHookInv
<1>9. CASE HookFails
  BY Zenon, <1>9, HookFailsInv
<1>10. CASE Close
  BY Zenon, <1>10, CloseInv
<1>11. CASE SaveMetadata
  BY Zenon, <1>11, SaveMetadataInv
<1>12. CASE Exit
  BY Zenon, <1>12, ExitInv
<1>13. CASE Crash
  BY Zenon, <1>13, CrashInv
<1>14. CASE UNCHANGED vars
  BY Zenon, <1>14, UnchangedInv
<1>15. QED
  BY Zenon, <1>1, <1>2, <1>3, <1>4, <1>5, <1>6, <1>7, <1>8, <1>9, <1>10, <1>11, <1>12, <1>13, <1>14
  DEF Next

\* Files that were torn stay so.
LEMMA TornStays ==
  ASSUME [Next]_vars, torn
  PROVE  torn'
<1>1. CASE UNCHANGED vars
  BY Zenon, <1>1 DEF vars
<1>2. ASSUME NEW h, NEW seals, InsertBlock(h, seals) \/ RestoreBlock(h, seals) \/ WriteFails(h, seals)
      PROVE  torn'
  BY Zenon, <1>2 DEF InsertBlock, RestoreBlock, WriteFails, WriteBlock
<1>3. CASE Start \/ Replay \/ RestoreEnds \/ RunHook \/ HookFails
  BY Zenon, <1>3 DEF Start, Replay, RestoreEnds, RunHook, HookFails
<1>4. CASE Close \/ SaveMetadata \/ Exit \/ Crash
  BY Zenon, <1>4 DEF Close, SaveMetadata, Exit, Crash
<1>5. ASSUME NEW next, Replayed(next) PROVE torn'
  BY Zenon, <1>5 DEF Replayed
<1>6. QED
  BY Zenon, <1>1, <1>2, <1>3, <1>4, <1>5 DEF Next

\* Unless the files were saved around a block or with one that was not
\* written, file, list and chain agree on the validators of the epoch.
WholeInv == ~torn => Inv

LEMMA WholeAlways == Spec => []WholeInv
<1>1. Init => WholeInv
  BY Zenon, InitInv DEF WholeInv
<1>2. WholeInv /\ [Next]_vars => WholeInv'
  BY Zenon, NextInv, TornStays DEF WholeInv
<1>3. QED
  BY <1>1, <1>2, PTL DEF Spec

\* The snapshot at the head has the validators the staking contract held at
\* the end of the last epoch, after any sequence of crashes, restarts, restored
\* archives, failed writes and failed hooks (setupSnapshot, processHeaders,
\* updateValidators, saveToPath), unless one of the known causes lost them.
THEOREM RightSetHolds == Spec => []RightSet
<1>1. WholeInv => RightSet
  <2> SUFFICES ASSUME WholeInv, pc = "idle", ~torn, EpochStart(Height) \notin lost
               PROVE  find(store.list, Height).set = SetAt(Height)
    BY Zenon DEF RightSet, SetMayBeOld
  <2>1. ChainInv /\ StoreInv /\ pc # "replay"
    BY DEF WholeInv, Inv
  <2>2. find(store.list, Height).set = SetOf(store.list, Epoch)
    BY Zenon, <2>1, AtHead
  <2>3. SetOf(store.list, Epoch) \in Allowed
    BY Zenon, <2>1 DEF StoreInv, Current, Serves
  <2>4. QED
    BY Zenon, <2>2, <2>3 DEF Allowed, Epoch
<1>2. QED
  BY <1>1, WholeAlways, PTL

\* setupSnapshot accepts the node's own chain after every crash, restart and
\* failed write: every header it replays has a proposer of the set it found on
\* disk or made from the head.
THEOREM StartSucceedsHolds == Spec => []StartSucceeds
<1>1. WholeInv => StartSucceeds
  BY Zenon DEF WholeInv, Inv, StartSucceeds
<1>2. QED
  BY <1>1, WholeAlways, PTL
=============================================================================
