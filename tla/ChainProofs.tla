---------------------------- MODULE ChainProofs -----------------------------
(***************************************************************************)
(* For every tree of blocks and every interleaving of writes, refusals and *)
(* crashes: the head never loses to one that was announced, it only        *)
(* changes for a heavier chain, and when the two panics can be met.        *)
(***************************************************************************)
EXTENDS Chain, SequenceTheorems, TLAPS

-----------------------------------------------------------------------------
(* Blocks *)

\* Numbers, parents and ancestors of the blocks.
LEMMA NumNat == \A b \in Blocks : Num(b) \in Nat
BY BlocksAssumption DEF Num

LEMMA GenesisNum == Genesis \in Blocks /\ Num(Genesis) = 0
BY BlocksAssumption DEF Num, Genesis

LEMMA AncestorFacts ==
  ASSUME NEW b \in Blocks, NEW n \in 0 .. Num(b)
  PROVE  Ancestor(b, n) \in Blocks /\ Num(Ancestor(b, n)) = n
<1>1. b \in Seq(Nat) /\ Len(b) \in Nat /\ n \in 0 .. Len(b)
  BY BlocksAssumption DEF Num
<1>2. \A i \in 1 .. n : b[i] \in Nat
  BY <1>1
<1>3. Len(SubSeq(b, 1, n)) = n
  BY <1>1, <1>2, SubSeqProperties
<1> QED
  BY <1>1, <1>3, BlocksAssumption DEF Num, Ancestor

LEMMA OnlyGenesis == \A b \in Blocks : b # Genesis => Num(b) > 0
BY BlocksAssumption, EmptySeq DEF Num, Genesis

LEMMA ParentFacts ==
  ASSUME NEW b \in Blocks, b # Genesis
  PROVE  /\ Parent(b) \in Blocks
         /\ Num(Parent(b)) = Num(b) - 1
         /\ Parent(b) = Ancestor(b, Num(b) - 1)
<1>1. Num(b) \in Nat /\ Num(b) > 0
  BY NumNat, OnlyGenesis
<1>2. Parent(b) = Ancestor(b, Num(b) - 1)
  BY DEF Parent, Ancestor, Num
<1> QED
  BY <1>1, <1>2, AncestorFacts

-----------------------------------------------------------------------------
(* The inductive invariant *)

Fields == {"headers", "bodies", "receipts", "forks", "headHash", "headNumber",
           "canonical", "td"}
Entries == [key : Writes \cup {"current", "event", "panic"}, blk : Blocks]

\* The updates of the running call that are still to come.
Has(key) == \E i \in DOMAIN todo : todo[i].key = key

TypeOK ==
  /\ DOMAIN db = Fields
  /\ db.headHash \in Blocks \cup {None}
  /\ DOMAIN db.canonical \subseteq Nat
  /\ DOMAIN db.td \subseteq Blocks
  /\ \A b \in DOMAIN db.td : db.td[b] \in Nat
  /\ node \in {"down", "starting", "up", "failed"}
  /\ current \in Blocks \cup {None}
  /\ todo \in Seq(Entries)
  /\ announced \subseteq Blocks
  /\ refused \in BOOLEAN

\* A difficulty is that of the parent and the number, so that difficulties are
\* ordered as numbers are.
Weights ==
  /\ DOMAIN db.td # {} => Genesis \in DOMAIN db.td
  /\ Genesis \in DOMAIN db.td => db.td[Genesis] = GenesisDifficulty
  /\ \A b \in DOMAIN db.td : b # Genesis =>
       Parent(b) \in DOMAIN db.td /\ db.td[b] = db.td[Parent(b)] + Num(b)
  /\ \A b, c \in DOMAIN db.td : Num(b) <= Num(c) <=> db.td[b] <= db.td[c]

\* In which order a call updates the head, and that it is about one block.
Order ==
  /\ \A i, j \in DOMAIN todo :
       todo[i].key \notin {"forks", "canonical"} /\ todo[j].key \notin {"forks", "canonical"} =>
         todo[i].blk = todo[j].blk
  /\ \A i, j \in DOMAIN todo : i < j =>
       /\ todo[i].key # "event"
       /\ todo[i].key = "current" => todo[j].key \in {"receipts", "event"}
       /\ todo[i].key = "headHash" => todo[j].key # "headHash"

\* What holds of the updates to come, so that the head moves to a block that is
\* higher and whose difficulty and hash are in the storage by then.
Updates ==
  \A i \in DOMAIN todo :
    /\ todo[i].key = "td" =>
         todo[i].blk = Genesis \/ Parent(todo[i].blk) \in DOMAIN db.td
    /\ todo[i].key = "headHash" => Has("current")
    /\ todo[i].key \in {"headHash", "current"} /\ node = "up" =>
         Num(todo[i].blk) > Num(current)
    /\ todo[i].key = "current" => todo[i].blk \in DOMAIN db.td \/ Has("td")
    /\ todo[i].key = "current" => db.headHash = todo[i].blk \/ Has("headHash")
    /\ todo[i].key = "event" =>
         (current = todo[i].blk /\ db.headHash = todo[i].blk) \/ Has("current")
    /\ todo[i].key = "panic" => refused /\ node = "up"

\* The head in memory, and a node that is not up.
Head0 ==
  /\ current # None => current \in DOMAIN db.td
  /\ node = "up" => current # None
  /\ node \in {"down", "failed"} => current = None /\ todo = <<>>
  /\ node = "starting" =>
       /\ announced = {}
       /\ \A i \in DOMAIN todo : todo[i].blk = Genesis
       /\ Has("headHash") => db.headHash = None
       /\ current # None => \A i \in DOMAIN todo : todo[i].key = "event"
       /\ \A i, j \in DOMAIN todo : i < j /\ todo[i].key = "current" => todo[j].key = "event"

\* Neither the head in memory nor the one a start would take is below an
\* announced one.
Announced ==
  \A b \in announced :
    /\ db.headHash # None /\ Num(b) <= Num(db.headHash)
    /\ current # None => Num(b) <= Num(current)

\* As long as no write was refused: no number above the head has a canonical
\* hash, and the head in the storage is the one in memory or about to be.
Canonical ==
  ~refused =>
    /\ \A n \in DOMAIN db.canonical : db.headHash # None /\ n <= Num(db.headHash)
    /\ \A i \in DOMAIN todo : todo[i].key = "canonical" =>
         \/ Num(todo[i].blk) \in DOMAIN db.canonical
         \/ db.headHash = todo[i].blk /\ ~Has("headHash")
         \/ \E j \in DOMAIN todo : j < i /\ todo[j] = W("headHash", todo[i].blk)
    /\ node = "up" => db.headHash = current \/ (Has("current") /\ ~Has("headHash"))

IInv == TypeOK /\ Weights /\ Order /\ Updates /\ Head0 /\ Announced /\ Canonical

-----------------------------------------------------------------------------
(* Sequences of updates *)

\* u is s, of length k, followed by t, of length l.
Cat(u, s, t, k, l) ==
  /\ u \in Seq(Entries) /\ Len(u) = k + l
  /\ \A i \in 1 .. k : u[i] = s[i]
  /\ \A i \in 1 .. l : u[k + i] = t[i]

LEMMA Joined ==
  \A s, t \in Seq(Entries) : Cat(s \o t, s, t, Len(s), Len(t))
<1> SUFFICES ASSUME NEW s \in Seq(Entries), NEW t \in Seq(Entries)
             PROVE  Cat(s \o t, s, t, Len(s), Len(t))
  OBVIOUS
<1>1. Len(s) \in Nat /\ Len(t) \in Nat
  BY LenProperties
<1>2. /\ s \o t \in Seq(Entries) /\ Len(s \o t) = Len(s) + Len(t)
      /\ \A i \in 1 .. Len(s) + Len(t) :
           (s \o t)[i] = IF i <= Len(s) THEN s[i] ELSE t[i - Len(s)]
  BY ConcatProperties
<1>3. ASSUME NEW i \in 1 .. Len(s) PROVE (s \o t)[i] = s[i]
  <2>1. i \in 1 .. Len(s) + Len(t) /\ i <= Len(s)
    BY <1>1
  <2> QED
    BY <1>2, <2>1
<1>4. ASSUME NEW i \in 1 .. Len(t) PROVE (s \o t)[Len(s) + i] = t[i]
  <2>1. /\ Len(s) + i \in 1 .. Len(s) + Len(t) /\ ~(Len(s) + i <= Len(s))
        /\ (Len(s) + i) - Len(s) = i
    BY <1>1
  <2> QED
    BY <1>2, <2>1
<1> QED
  BY <1>2, <1>3, <1>4 DEF Cat

LEMMA Steps ==
  ASSUME NEW b \in Blocks
  PROVE  /\ \A key \in Writes \cup {"current", "event", "panic"} :
              W(key, b) \in Entries /\ <<W(key, b)>> \in Seq(Entries)
         /\ \A key : W(key, b).key = key /\ W(key, b).blk = b
BY DEF W, Entries

LEMMA HeadSteps ==
  ASSUME NEW b \in Blocks
  PROVE  /\ AdvanceHead(b) \in Seq(Entries) /\ Len(AdvanceHead(b)) = 5
         /\ AdvanceHead(b)[1] = W("headHash", b) /\ AdvanceHead(b)[2] = W("headNumber", b)
         /\ AdvanceHead(b)[3] = W("canonical", b) /\ AdvanceHead(b)[4] = W("td", b)
         /\ AdvanceHead(b)[5] = W("current", b)
         /\ Finish(b) \in Seq(Entries) /\ Len(Finish(b)) = 2
         /\ Finish(b)[1] = W("receipts", b) /\ Finish(b)[2] = W("event", b)
BY Steps DEF AdvanceHead, Finish, Writes

-----------------------------------------------------------------------------
(* What one update does *)

\* The fields that the invariant speaks of, after one call of set.
LEMMA SetEffect ==
  ASSUME DOMAIN db = Fields, NEW w \in Entries, w.key \in Writes
  PROVE  /\ DOMAIN Set(db, w) = Fields
         /\ Set(db, w).headHash = IF w.key = "headHash" THEN w.blk ELSE db.headHash
         /\ w.key # "canonical" => Set(db, w).canonical = db.canonical
         /\ w.key = "canonical" =>
              DOMAIN Set(db, w).canonical = DOMAIN db.canonical \cup {Num(w.blk)}
         /\ w.key # "td" => Set(db, w).td = db.td
         /\ w.key = "td" =>
              /\ DOMAIN Set(db, w).td = DOMAIN db.td \cup {w.blk}
              /\ Set(db, w).td[w.blk] = TotalDifficulty(db, w.blk)
              /\ \A b \in DOMAIN db.td : b # w.blk => Set(db, w).td[b] = db.td[b]
<1> USE DEF Fields, Writes, Entries
<1>1. CASE w.key \in {"headers", "bodies", "receipts"}
  BY <1>1 DEF Set
<1>2. CASE w.key = "forks"
  BY <1>2 DEF Set
<1>3. CASE w.key = "headHash"
  BY <1>3 DEF Set
<1>4. CASE w.key = "headNumber"
  BY <1>4 DEF Set
<1>5. CASE w.key = "canonical"
  BY <1>5 DEF Set, Put
<1>6. CASE w.key = "td"
  BY <1>6 DEF Set, Put
<1> QED
  BY <1>1, <1>2, <1>3, <1>4, <1>5, <1>6

\* The first update is done, and the others move up.
LEMMA Popped ==
  ASSUME todo \in Seq(Entries), todo # <<>>, todo' = Tail(todo)
  PROVE  /\ todo' \in Seq(Entries)
         /\ Head(todo) = todo[1] /\ todo[1] \in Entries
         /\ Len(todo) \in Nat \ {0} /\ DOMAIN todo = 1 .. Len(todo)
         /\ DOMAIN todo' = 1 .. Len(todo) - 1
         /\ \A i \in DOMAIN todo' : i + 1 \in DOMAIN todo /\ todo'[i] = todo[i + 1]
         /\ \A key : Has(key)' => Has(key)
         /\ \A key : Has(key) /\ todo[1].key # key => Has(key)'
<1>1. /\ Head(todo) \in Entries /\ Tail(todo) \in Seq(Entries)
      /\ Len(Tail(todo)) = Len(todo) - 1
      /\ \A i \in 1 .. Len(Tail(todo)) : Tail(todo)[i] = todo[i + 1]
  BY HeadTailProperties
<1>2. Len(todo) \in Nat \ {0} /\ DOMAIN todo = 1 .. Len(todo)
  BY EmptySeq, LenProperties
<1>3. /\ DOMAIN todo' = 1 .. Len(todo) - 1
      /\ \A i \in DOMAIN todo' : i + 1 \in DOMAIN todo /\ todo'[i] = todo[i + 1]
  BY <1>1, <1>2, LenProperties
<1>4. Head(todo) = todo[1]
  BY <1>2
<1>5. ASSUME NEW key, Has(key)' PROVE Has(key)
  BY <1>3, <1>5 DEF Has
<1>6. ASSUME NEW key, Has(key), todo[1].key # key PROVE Has(key)'
  <2>1. PICK i \in 1 .. Len(todo) : todo[i].key = key
    BY <1>2, <1>6 DEF Has
  <2>2. i # 1 /\ i - 1 \in DOMAIN todo' /\ todo'[i - 1] = todo[i]
    BY <1>2, <1>3, <1>6, <2>1
  <2> QED
    BY Zenon, <2>1, <2>2 DEF Has
<1> QED
  BY <1>1, <1>2, <1>3, <1>4, <1>5, <1>6

-----------------------------------------------------------------------------
(* A call of set *)

\* Writing a difficulty keeps them in the order of the numbers.
LEMMA WeightsKept ==
  ASSUME IInv, WriteKey PROVE Weights'
<1> DEFINE w == todo[1]
<1>1. /\ w \in Entries /\ w.key \in Writes /\ db' = Set(db, w) /\ 1 \in DOMAIN todo
  BY Popped DEF IInv, TypeOK, WriteKey, Doing
<1>2. w.blk \in Blocks /\ DOMAIN db = Fields
  BY <1>1 DEF Entries, IInv, TypeOK
<1> HIDE DEF w
<1>3. CASE w.key # "td"
  BY <1>1, <1>2, <1>3, SetEffect DEF IInv, Weights
<1>4. CASE w.key = "td"
  <2>1. /\ DOMAIN db'.td = DOMAIN db.td \cup {w.blk}
        /\ db'.td[w.blk] = TotalDifficulty(db, w.blk)
        /\ \A b \in DOMAIN db.td : b # w.blk => db'.td[b] = db.td[b]
    BY <1>1, <1>2, <1>4, SetEffect
  <2>2. w.blk = Genesis \/ Parent(w.blk) \in DOMAIN db.td
    BY <1>1, <1>4 DEF IInv, Updates, w
  <2>3. /\ DOMAIN db.td # {} => Genesis \in DOMAIN db.td
        /\ Genesis \in DOMAIN db.td => db.td[Genesis] = GenesisDifficulty
        /\ \A b \in DOMAIN db.td : b # Genesis =>
             Parent(b) \in DOMAIN db.td /\ db.td[b] = db.td[Parent(b)] + Num(b)
        /\ \A b, c \in DOMAIN db.td : Num(b) <= Num(c) <=> db.td[b] <= db.td[c]
        /\ DOMAIN db.td \subseteq Blocks /\ \A b \in DOMAIN db.td : db.td[b] \in Nat
    BY DEF IInv, Weights, TypeOK
  <2>4. CASE w.blk \in DOMAIN db.td
    <3>1. db'.td[w.blk] = db.td[w.blk]
      BY <2>1, <2>3, <2>4 DEF TotalDifficulty, Difficulty
    <3>2. DOMAIN db'.td = DOMAIN db.td /\ \A b \in DOMAIN db.td : db'.td[b] = db.td[b]
      BY <2>1, <2>4, <3>1
    <3> QED
      BY <2>3, <3>2 DEF Weights
  <2>5. CASE w.blk \notin DOMAIN db.td /\ w.blk = Genesis
    <3>1. DOMAIN db'.td = {Genesis} /\ db'.td[Genesis] = GenesisDifficulty
      BY <2>1, <2>3, <2>5 DEF TotalDifficulty
    <3> QED
      BY <3>1, GenesisNum, GenesisAssumption DEF Weights
  <2>6. CASE w.blk \notin DOMAIN db.td /\ w.blk # Genesis
    <3> DEFINE p == Parent(w.blk)
    <3>1. p \in DOMAIN db.td /\ db'.td[w.blk] = db.td[p] + Num(w.blk) /\ p # w.blk
      BY <2>1, <2>2, <2>6 DEF TotalDifficulty, Difficulty
    <3>2. Genesis \in DOMAIN db.td /\ db.td[Genesis] = GenesisDifficulty
      BY <2>3, <3>1
    <3>3. Num(w.blk) \in Nat \ {0} /\ Num(p) = Num(w.blk) - 1
      BY <1>2, <2>6, ParentFacts, OnlyGenesis, NumNat
    <3> HIDE DEF p
    <3>4. ASSUME NEW c \in DOMAIN db.td
          PROVE  /\ Num(w.blk) <= Num(c) <=> db'.td[w.blk] <= db.td[c]
                 /\ Num(c) <= Num(w.blk) <=> db.td[c] <= db'.td[w.blk]
      <4>1. CASE c = Genesis
        <5>1. db.td[Genesis] <= db.td[p]
          BY <2>3, <3>1, <3>2, <3>3, GenesisNum
        <5> QED
          BY <2>3, <3>1, <3>2, <3>3, <4>1, <5>1, GenesisNum
      <4>2. CASE c # Genesis
        <5> DEFINE q == Parent(c)
        <5>1. /\ q \in DOMAIN db.td /\ db.td[c] = db.td[q] + Num(c)
              /\ Num(q) = Num(c) - 1 /\ Num(c) \in Nat
          BY <2>3, <4>2, ParentFacts, NumNat
        <5> HIDE DEF q
        <5>2. /\ Num(p) <= Num(q) <=> db.td[p] <= db.td[q]
              /\ Num(q) <= Num(p) <=> db.td[q] <= db.td[p]
              /\ db.td[p] \in Nat /\ db.td[q] \in Nat
          BY <2>3, <3>1, <5>1
        <5> QED
          BY <3>1, <3>3, <5>1, <5>2
      <4> QED
        BY <4>1, <4>2
    <3>5. \A b \in DOMAIN db'.td : b # Genesis =>
            Parent(b) \in DOMAIN db'.td /\ db'.td[b] = db'.td[Parent(b)] + Num(b)
      <4> SUFFICES ASSUME NEW b \in DOMAIN db'.td, b # Genesis
                   PROVE  Parent(b) \in DOMAIN db'.td /\ db'.td[b] = db'.td[Parent(b)] + Num(b)
        OBVIOUS
      <4>1. CASE b = w.blk
        BY <2>1, <3>1, <4>1 DEF p
      <4>2. CASE b # w.blk
        <5>1. b \in DOMAIN db.td /\ Parent(b) \in DOMAIN db.td
          BY <2>1, <2>3, <4>2
        <5> QED
          BY <2>1, <2>3, <2>6, <4>2, <5>1
      <4> QED
        BY <4>1, <4>2
    <3>6. \A b, c \in DOMAIN db'.td : Num(b) <= Num(c) <=> db'.td[b] <= db'.td[c]
      <4>1. db'.td[w.blk] \in Nat
        BY <2>3, <3>1, <3>3
      <4> QED
        BY <2>1, <2>3, <2>6, <3>3, <3>4, <4>1
    <3> QED
      BY <2>1, <2>6, <3>2, <3>5, <3>6 DEF Weights
  <2> QED
    BY <2>4, <2>5, <2>6
<1> QED
  BY <1>3, <1>4

\* A call of set keeps the invariant.
LEMMA WriteKeyKeeps ==
  ASSUME IInv, WriteKey PROVE IInv'
<1> DEFINE w == todo[1]
<1>1. /\ w \in Entries /\ w.key \in Writes /\ db' = Set(db, w)
      /\ todo # <<>> /\ todo' = Tail(todo) /\ todo \in Seq(Entries)
      /\ node' = node /\ current' = current /\ announced' = announced /\ refused' = refused
  BY Popped DEF IInv, TypeOK, WriteKey, Doing
<1>2. w.blk \in Blocks /\ Num(w.blk) \in Nat /\ DOMAIN db = Fields
  BY <1>1, NumNat DEF Entries, IInv, TypeOK
<1>3. /\ todo' \in Seq(Entries)
      /\ Len(todo) \in Nat \ {0} /\ DOMAIN todo = 1 .. Len(todo)
      /\ DOMAIN todo' = 1 .. Len(todo) - 1
      /\ \A i \in DOMAIN todo' : i + 1 \in DOMAIN todo /\ todo'[i] = todo[i + 1]
      /\ \A key : Has(key)' => Has(key)
      /\ \A key : Has(key) /\ w.key # key => Has(key)'
  BY <1>1, Popped
<1>4. 1 \in DOMAIN todo
  BY <1>3
<1> HIDE DEF w
<1>5. /\ DOMAIN db' = Fields
      /\ db'.headHash = IF w.key = "headHash" THEN w.blk ELSE db.headHash
      /\ w.key # "canonical" => db'.canonical = db.canonical
      /\ w.key = "canonical" => DOMAIN db'.canonical = DOMAIN db.canonical \cup {Num(w.blk)}
      /\ w.key # "td" => db'.td = db.td
      /\ w.key = "td" =>
           /\ DOMAIN db'.td = DOMAIN db.td \cup {w.blk}
           /\ db'.td[w.blk] = TotalDifficulty(db, w.blk)
           /\ \A b \in DOMAIN db.td : b # w.blk => db'.td[b] = db.td[b]
  BY <1>1, <1>2, SetEffect
<1>6. DOMAIN db.td \subseteq DOMAIN db'.td
  BY <1>5
<1>once. w.key = "headHash" => ~Has("headHash")'
  <2> SUFFICES ASSUME Has("headHash")', w.key = "headHash" PROVE FALSE
    OBVIOUS
  <2>1. PICK i \in DOMAIN todo' : todo'[i].key = "headHash"
    BY DEF Has
  <2>2. i + 1 \in DOMAIN todo /\ todo[i + 1].key = "headHash" /\ 1 < i + 1
    BY <1>3, <2>1
  <2> QED
    BY <1>4, <2>2 DEF IInv, Order, w
<1>7. TypeOK'
  <2>1. \A b \in DOMAIN db'.td : b \in Blocks /\ db'.td[b] \in Nat
    <3>1. CASE w.key # "td"
      BY <1>5, <3>1 DEF IInv, TypeOK
    <3>2. CASE w.key = "td"
      <4>1. TotalDifficulty(db, w.blk) \in Nat
        <5>1. w.blk = Genesis \/ Parent(w.blk) \in DOMAIN db.td
          BY <1>4, <3>2 DEF IInv, Updates, w
        <5> QED
          BY <1>2, <5>1, GenesisAssumption DEF TotalDifficulty, Difficulty, IInv, TypeOK
      <4> QED
        BY <1>2, <1>5, <3>2, <4>1 DEF IInv, TypeOK
    <3> QED
      BY <3>1, <3>2
  <2>2. DOMAIN db'.canonical \subseteq Nat
    BY <1>2, <1>5 DEF IInv, TypeOK
  <2>3. db'.headHash \in Blocks \cup {None}
    BY <1>2, <1>5 DEF IInv, TypeOK
  <2> QED
    BY <1>1, <1>3, <1>5, <2>1, <2>2, <2>3 DEF IInv, TypeOK
<1>8. Order'
  <2>1. ASSUME NEW i \in DOMAIN todo', NEW j \in DOMAIN todo',
               todo'[i].key \notin {"forks", "canonical"}, todo'[j].key \notin {"forks", "canonical"}
        PROVE  todo'[i].blk = todo'[j].blk
    BY <1>3, <2>1 DEF IInv, Order
  <2>2. ASSUME NEW i \in DOMAIN todo', NEW j \in DOMAIN todo', i < j
        PROVE  /\ todo'[i].key # "event"
               /\ todo'[i].key = "current" => todo'[j].key \in {"receipts", "event"}
               /\ todo'[i].key = "headHash" => todo'[j].key # "headHash"
    <3>1. i + 1 \in DOMAIN todo /\ j + 1 \in DOMAIN todo /\ i + 1 < j + 1
      BY <1>3, <2>2
    <3> QED
      BY <1>3, <3>1 DEF IInv, Order
  <2> QED
    BY <2>1, <2>2 DEF Order
<1>9. Updates'
  <2> SUFFICES ASSUME NEW i \in DOMAIN todo'
               PROVE  /\ todo'[i].key = "td" =>
                           todo'[i].blk = Genesis \/ Parent(todo'[i].blk) \in DOMAIN db'.td
                      /\ todo'[i].key = "headHash" => Has("current")'
                      /\ todo'[i].key \in {"headHash", "current"} /\ node = "up" =>
                           Num(todo'[i].blk) > Num(current)
                      /\ todo'[i].key = "current" =>
                           todo'[i].blk \in DOMAIN db'.td \/ Has("td")'
                      /\ todo'[i].key = "current" =>
                           db'.headHash = todo'[i].blk \/ Has("headHash")'
                      /\ todo'[i].key = "event" =>
                           (current = todo'[i].blk /\ db'.headHash = todo'[i].blk) \/ Has("current")'
                      /\ todo'[i].key = "panic" => refused /\ node = "up"
    BY <1>1 DEF Updates
  <2> DEFINE x == todo[i + 1]
  <2>1. i + 1 \in DOMAIN todo /\ todo'[i] = x /\ 1 < i + 1
    BY <1>3
  <2>2. /\ x.key = "td" => x.blk = Genesis \/ Parent(x.blk) \in DOMAIN db.td
        /\ x.key = "headHash" => Has("current")
        /\ x.key \in {"headHash", "current"} /\ node = "up" => Num(x.blk) > Num(current)
        /\ x.key = "current" => x.blk \in DOMAIN db.td \/ Has("td")
        /\ x.key = "current" => db.headHash = x.blk \/ Has("headHash")
        /\ x.key = "event" =>
             (current = x.blk /\ db.headHash = x.blk) \/ Has("current")
        /\ x.key = "panic" => refused /\ node = "up"
    BY <2>1 DEF IInv, Updates
  <2>3. x.key \notin {"forks", "canonical"} /\ w.key \notin {"forks", "canonical"} =>
          x.blk = w.blk
    BY <1>4, <2>1 DEF IInv, Order, w
  <2>4. w.key # "current" /\ (w.key = "headHash" => Has("current"))
    BY <1>1, <1>4 DEF IInv, Updates, Writes, w
  <2> HIDE DEF x
  <2>5. x.key = "current" => x.blk \in DOMAIN db'.td \/ Has("td")'
    BY <1>3, <1>5, <1>6, <2>2, <2>3
  <2>6. x.key = "current" => db'.headHash = x.blk \/ Has("headHash")'
    BY <1>3, <1>5, <2>2, <2>3
  <2>7. x.key = "event" =>
          (current = x.blk /\ db'.headHash = x.blk) \/ Has("current")'
    BY <1>3, <1>5, <2>2, <2>3, <2>4
  <2> QED
    BY <1>3, <1>6, <2>1, <2>2, <2>4, <2>5, <2>6, <2>7
<1>10. Head0'
  <2>1. todo # <<>> /\ node \notin {"down", "failed"}
    BY <1>1 DEF IInv, Head0
  <2>2. node = "starting" => (Has("headHash")' => db'.headHash = None)
    BY <1>3, <1>5, <1>once DEF IInv, Head0
  <2>3. node = "starting" => \A i \in DOMAIN todo' : todo'[i].blk = Genesis
    BY <1>3 DEF IInv, Head0
  <2>4. node = "starting" /\ current # None => \A i \in DOMAIN todo' : todo'[i].key = "event"
    BY <1>3 DEF IInv, Head0
  <2>5. node = "starting" =>
          \A i, j \in DOMAIN todo' :
            i < j /\ todo'[i].key = "current" => todo'[j].key = "event"
    BY <1>3 DEF IInv, Head0
  <2> QED
    BY <1>1, <1>6, <2>1, <2>2, <2>3, <2>4, <2>5 DEF IInv, Head0
<1>11. Announced'
  <2>1. CASE w.key # "headHash"
    BY <1>1, <1>5, <2>1 DEF IInv, Announced
  <2>2. CASE w.key = "headHash"
    <3>1. node = "up" => Num(w.blk) > Num(current) /\ current \in Blocks
      BY <1>4, <2>2 DEF IInv, Updates, Head0, TypeOK, w
    <3>2. node # "up" => announced = {}
      BY <1>1 DEF IInv, Head0, TypeOK
    <3>3. node = "up" => \A b \in announced : Num(b) <= Num(w.blk)
      <4>1. announced \subseteq Blocks
        BY DEF IInv, TypeOK
      <4>2. current \in Blocks => \A b \in announced : Num(b) <= Num(current)
        BY BlocksAssumption DEF IInv, Announced
      <4> QED
        BY <1>2, <3>1, <4>1, <4>2, NumNat
    <3>4. w.blk # None
      BY <1>2, BlocksAssumption
    <3> QED
      BY <1>1, <1>5, <2>2, <3>2, <3>3, <3>4 DEF IInv, Announced
  <2> QED
    BY <2>1, <2>2
<1>12. Canonical'
  <2> SUFFICES ASSUME ~refused PROVE Canonical'
    BY <1>1 DEF Canonical
  <2>1. /\ \A n \in DOMAIN db.canonical : db.headHash # None /\ n <= Num(db.headHash)
        /\ \A i \in DOMAIN todo : todo[i].key = "canonical" =>
             \/ Num(todo[i].blk) \in DOMAIN db.canonical
             \/ db.headHash = todo[i].blk /\ ~Has("headHash")
             \/ \E j \in DOMAIN todo : j < i /\ todo[j] = W("headHash", todo[i].blk)
        /\ node = "up" => db.headHash = current \/ (Has("current") /\ ~Has("headHash"))
    BY DEF IInv, Canonical
  <2>2. w.key = "headHash" => Has("headHash") /\ ~Has("headHash")' /\ Has("current")'
    <3>1. w.key = "headHash" => Has("headHash") /\ Has("current")'
      BY Zenon, <1>3, <1>4 DEF IInv, Updates, Has, w
    <3> QED
      BY <1>once, <3>1
  <2>3. ASSUME NEW n \in DOMAIN db'.canonical
        PROVE  db'.headHash # None /\ n <= Num(db'.headHash)
    <3>1. CASE w.key = "headHash"
      <4>1. n \in DOMAIN db.canonical /\ n \in Nat
        BY <1>5, <2>3, <3>1 DEF IInv, TypeOK
      <4>2. db.headHash = current /\ node = "up"
        <5>1. node \in {"up", "starting"}
          BY <1>1 DEF IInv, Head0, TypeOK
        <5>2. node # "starting"
          BY <2>1, <2>2, <3>1, <4>1 DEF IInv, Head0
        <5> QED
          BY <2>1, <2>2, <3>1, <5>1, <5>2
      <4>3. Num(w.blk) > Num(current) /\ current \in Blocks
        BY <1>4, <3>1, <4>2 DEF IInv, Updates, Head0, TypeOK, w
      <4> QED
        BY <1>2, <1>5, <2>1, <3>1, <4>1, <4>2, <4>3, NumNat, BlocksAssumption
    <3>2. CASE w.key = "canonical"
      <4>1. Num(w.blk) \in DOMAIN db.canonical \/ db.headHash = w.blk
        BY <1>3, <1>4, <2>1, <3>2 DEF w
      <4>2. w.blk # None
        BY <1>2, BlocksAssumption
      <4>3. db'.headHash = db.headHash
        BY <1>5, <3>2
      <4>4. CASE n \in DOMAIN db.canonical
        BY <2>1, <4>3, <4>4
      <4>5. CASE n = Num(w.blk) /\ db.headHash = w.blk
        BY <1>2, <4>2, <4>3, <4>5
      <4> QED
        BY <1>5, <2>3, <3>2, <4>1, <4>4, <4>5
    <3>3. CASE w.key \notin {"headHash", "canonical"}
      BY <1>5, <2>1, <2>3, <3>3
    <3> QED
      BY <3>1, <3>2, <3>3
  <2>4. ASSUME NEW i \in DOMAIN todo', todo'[i].key = "canonical"
        PROVE  \/ Num(todo'[i].blk) \in DOMAIN db'.canonical
               \/ db'.headHash = todo'[i].blk /\ ~Has("headHash")'
               \/ \E j \in DOMAIN todo' : j < i /\ todo'[j] = W("headHash", todo'[i].blk)
    <3>1. i + 1 \in DOMAIN todo /\ todo'[i] = todo[i + 1]
      BY <1>3
    <3>2. CASE Num(todo[i + 1].blk) \in DOMAIN db.canonical
      BY <1>5, <3>1, <3>2
    <3>3. CASE db.headHash = todo[i + 1].blk /\ ~Has("headHash")
      BY <1>3, <1>5, <2>2, <3>1, <3>3
    <3>4. ASSUME NEW j \in DOMAIN todo, j < i + 1, todo[j] = W("headHash", todo[i + 1].blk)
          PROVE  \/ db'.headHash = todo'[i].blk /\ ~Has("headHash")'
                 \/ \E k \in DOMAIN todo' : k < i /\ todo'[k] = W("headHash", todo'[i].blk)
      <4>1. CASE j = 1
        BY <1>5, <2>2, <3>1, <3>4, <4>1 DEF W, w
      <4>2. CASE j # 1
        <5>1. j - 1 \in DOMAIN todo' /\ j - 1 < i /\ todo'[j - 1] = todo[j]
          BY <1>3, <3>4, <4>2
        <5> QED
          BY <3>1, <3>4, <5>1
      <4> QED
        BY <4>1, <4>2
    <3> QED
      BY <2>1, <2>4, <3>1, <3>2, <3>3, <3>4
  <2>5. node = "up" => db'.headHash = current \/ (Has("current")' /\ ~Has("headHash")')
    <3>1. w.key # "current"
      BY <1>1 DEF Writes
    <3> QED
      BY <1>3, <1>5, <2>1, <2>2, <3>1
  <2> QED
    BY <1>1, <2>3, <2>4, <2>5 DEF Canonical
<1> QED
  BY <1>7, <1>8, <1>9, <1>10, <1>11, <1>12, WeightsKept DEF IInv

-----------------------------------------------------------------------------
(* The other steps of a call *)

\* setCurrentHeader comes after the difficulty and the hash of the head.
LEMMA SetCurrentHeaderKeeps ==
  ASSUME IInv, SetCurrentHeader
  PROVE  /\ IInv'
         /\ current # None => db.td[current'] > db.td[current]
<1> DEFINE b == todo[1].blk
<1>1. /\ todo # <<>> /\ todo' = Tail(todo) /\ todo \in Seq(Entries)
      /\ Head(todo).key = "current" /\ current' = Head(todo).blk
      /\ node' = node /\ db' = db /\ announced' = announced /\ refused' = refused
  BY DEF IInv, TypeOK, SetCurrentHeader, Doing
<1>2. /\ todo' \in Seq(Entries)
      /\ todo[1] \in Entries /\ todo[1].key = "current" /\ current' = b
      /\ Len(todo) \in Nat \ {0} /\ DOMAIN todo = 1 .. Len(todo)
      /\ DOMAIN todo' = 1 .. Len(todo) - 1
      /\ \A i \in DOMAIN todo' : i + 1 \in DOMAIN todo /\ todo'[i] = todo[i + 1]
      /\ \A key : Has(key)' => Has(key)
  BY <1>1, Popped
<1>3. 1 \in DOMAIN todo /\ b \in Blocks /\ b # None /\ Num(b) \in Nat
  BY <1>2, NumNat, BlocksAssumption DEF Entries
<1>4. \A i \in DOMAIN todo' : todo'[i].key \in {"receipts", "event"} /\ todo'[i].blk = b
  <2> SUFFICES ASSUME NEW i \in DOMAIN todo'
               PROVE  todo'[i].key \in {"receipts", "event"} /\ todo'[i].blk = b
    OBVIOUS
  <2>1. i + 1 \in DOMAIN todo /\ 1 < i + 1 /\ todo'[i] = todo[i + 1]
    BY <1>2
  <2>2. todo[i + 1].key \in {"receipts", "event"}
    BY <1>2, <1>3, <2>1 DEF IInv, Order
  <2>3. todo[i + 1].blk = b
    BY <1>2, <1>3, <2>1, <2>2 DEF IInv, Order
  <2> QED
    BY <2>1, <2>2, <2>3
<1>5. b \in DOMAIN db.td /\ db.headHash = b
  <2>1. ~Has("td") /\ ~Has("headHash")
    <3> SUFFICES ASSUME NEW i \in DOMAIN todo PROVE todo[i].key \notin {"td", "headHash"}
      BY DEF Has
    <3>1. i = 1 \/ i - 1 \in DOMAIN todo'
      BY <1>2
    <3> QED
      BY <1>2, <1>4, <3>1
  <2> QED
    BY <1>2, <1>3, <2>1 DEF IInv, Updates
<1>6. node = "up" => Num(b) > Num(current) /\ current \in Blocks
  BY <1>2, <1>3 DEF IInv, Updates, Head0, TypeOK
<1>7. node = "starting" => current = None
  BY <1>2, <1>3 DEF IInv, Head0
<1>8. node \in {"up", "starting"}
  BY <1>1 DEF IInv, Head0, TypeOK
<1>9. current # None => db.td[b] > db.td[current]
  <2> SUFFICES ASSUME current # None PROVE db.td[b] > db.td[current]
    OBVIOUS
  <2>1. Num(b) > Num(current) /\ current \in DOMAIN db.td /\ Num(current) \in Nat
    BY <1>6, <1>7, <1>8, NumNat DEF IInv, Head0
  <2>2. db.td[b] \in Nat /\ db.td[current] \in Nat
    BY <1>5, <2>1 DEF IInv, TypeOK
  <2>3. Num(b) <= Num(current) <=> db.td[b] <= db.td[current]
    BY <1>5, <2>1 DEF IInv, Weights
  <2> QED
    BY <1>3, <2>1, <2>2, <2>3
<1> HIDE DEF b
<1>10. TypeOK'
  BY <1>1, <1>2, <1>3 DEF IInv, TypeOK
<1>11. Weights'
  BY <1>1 DEF IInv, Weights
<1>12. Order'
  <2>1. ASSUME NEW i \in DOMAIN todo', NEW j \in DOMAIN todo', i < j
        PROVE  todo'[i].key # "event"
    BY <1>2, <2>1 DEF IInv, Order
  <2> QED
    BY <1>4, <2>1 DEF Order
<1>13. Updates'
  BY <1>1, <1>2, <1>4, <1>5 DEF Updates
<1>14. Head0'
  <2>1. ~Has("headHash")'
    BY <1>4 DEF Has
  <2>2. node = "starting" => \A i \in DOMAIN todo' : todo'[i].key = "event" /\ todo'[i].blk = Genesis
    <3> SUFFICES ASSUME node = "starting", NEW i \in DOMAIN todo'
                 PROVE  todo'[i].key = "event" /\ todo'[i].blk = Genesis
      OBVIOUS
    <3>1. i + 1 \in DOMAIN todo /\ 1 < i + 1 /\ todo'[i] = todo[i + 1]
      BY <1>2
    <3> QED
      BY <1>2, <1>3, <3>1 DEF IInv, Head0
  <2>3. announced' = announced /\ (node = "starting" => announced = {})
    BY <1>1 DEF IInv, Head0
  <2> QED
    BY <1>1, <1>2, <1>3, <1>5, <1>8, <2>1, <2>2, <2>3 DEF Head0
<1>15. Announced'
  <2>1. announced \subseteq Blocks
    BY DEF IInv, TypeOK
  <2> QED
    BY <1>1, <1>2, <1>5 DEF IInv, Announced
<1>16. Canonical'
  BY <1>1, <1>2, <1>4, <1>5 DEF IInv, Canonical
<1> QED
  BY <1>2, <1>9, <1>10, <1>11, <1>12, <1>13, <1>14, <1>15, <1>16 DEF IInv

\* The event of a new head is sent when the head is in place.
LEMMA DispatchEventKeeps ==
  ASSUME IInv, DispatchEvent PROVE IInv'
<1> DEFINE b == todo[1].blk
<1>1. /\ todo # <<>> /\ todo' = Tail(todo) /\ todo \in Seq(Entries)
      /\ Head(todo).key = "event" /\ announced' = announced \cup {Head(todo).blk}
      /\ node' = "up" /\ db' = db /\ current' = current /\ refused' = refused
  BY DEF IInv, TypeOK, DispatchEvent, Doing
<1>2. /\ todo' \in Seq(Entries)
      /\ todo[1] \in Entries /\ todo[1].key = "event" /\ announced' = announced \cup {b}
      /\ Len(todo) \in Nat \ {0} /\ DOMAIN todo = 1 .. Len(todo)
      /\ DOMAIN todo' = 1 .. Len(todo) - 1
  BY <1>1, Popped
<1>3. 1 \in DOMAIN todo /\ b \in Blocks /\ b # None /\ Num(b) \in Nat
  BY <1>2, NumNat, BlocksAssumption DEF Entries
<1>4. Len(todo) = 1
  <2> SUFFICES ASSUME Len(todo) # 1 PROVE FALSE
    OBVIOUS
  <2>1. 2 \in DOMAIN todo
    BY <1>2
  <2> QED
    BY <1>2, <1>3, <2>1 DEF IInv, Order
<1>5. DOMAIN todo' = {}
  BY <1>2, <1>4
<1>6. current = b /\ db.headHash = b
  <2>1. ~Has("current")
    BY <1>2, <1>4 DEF Has
  <2> QED
    BY <1>2, <1>3, <2>1 DEF IInv, Updates
<1> HIDE DEF b
<1>7. TypeOK'
  BY <1>1, <1>2, <1>3 DEF IInv, TypeOK
<1>8. Weights'
  BY <1>1 DEF IInv, Weights
<1>9. Order' /\ Updates'
  BY <1>5 DEF Order, Updates
<1>10. Head0'
  BY <1>1, <1>3, <1>6 DEF IInv, Head0
<1>11. Announced'
  BY <1>1, <1>2, <1>3, <1>6 DEF IInv, Announced
<1>12. Canonical'
  BY <1>1, <1>5, <1>6 DEF IInv, Canonical
<1> QED
  BY <1>7, <1>8, <1>9, <1>10, <1>11, <1>12 DEF IInv

-----------------------------------------------------------------------------
(* Start, refused writes and crashes *)

\* Nothing is left to do.
LEMMA NothingToDo ==
  ASSUME IInv, db' = db, announced' = announced, refused' \in BOOLEAN, refused => refused',
         todo' = <<>>, node' \in {"down", "starting", "up", "failed"},
         \/ current' = None /\ node' \in {"down", "failed"}
         \/ current' = current /\ node = "up" /\ node' = "up" /\ refused'
         \/ current' = db.headHash /\ db.headHash \in DOMAIN db.td /\ node' = "up"
  PROVE  IInv'
<1>1. DOMAIN todo' = {} /\ todo' \in Seq(Entries)
  OBVIOUS
<1>2. TypeOK'
  BY <1>1 DEF IInv, TypeOK
<1>3. Weights'
  BY DEF IInv, Weights
<1>4. Order' /\ Updates'
  BY <1>1 DEF Order, Updates
<1>5. db.headHash \in DOMAIN db.td => db.headHash # None
  BY BlocksAssumption DEF IInv, TypeOK
<1>6. Head0'
  BY <1>5 DEF IInv, Head0
<1>7. Announced'
  BY DEF IInv, Announced, Head0
<1>8. Canonical'
  BY <1>1 DEF IInv, Canonical
<1> QED
  BY <1>2, <1>3, <1>4, <1>6, <1>7, <1>8 DEF IInv

LEMMA WriteFailsKeeps ==
  ASSUME IInv, WriteFails PROVE IInv'
<1>1. /\ todo # <<>> /\ Head(todo).key \in Writes /\ todo' = <<>> /\ refused' = TRUE
      /\ db' = db /\ current' = current /\ announced' = announced
      /\ node' = IF node = "starting" THEN "failed" ELSE node
  BY DEF WriteFails, Doing
<1>2. node \in {"up", "starting"}
  BY <1>1 DEF IInv, Head0, TypeOK
<1>3. node = "starting" => current = None
  <2>1. 1 \in DOMAIN todo /\ Head(todo) = todo[1]
    BY <1>1, EmptySeq, LenProperties DEF IInv, TypeOK
  <2>2. todo[1].key # "event"
    BY <1>1, <2>1 DEF Writes
  <2> QED
    BY <2>1, <2>2 DEF IInv, Head0
<1> QED
  BY <1>1, <1>2, <1>3, NothingToDo

LEMMA CrashKeeps ==
  ASSUME IInv, Crash PROVE IInv'
BY NothingToDo DEF Crash, IInv, TypeOK

\* On an empty storage the genesis block is written, otherwise the head is read.
LEMMA ComputeGenesisKeeps ==
  ASSUME IInv, ComputeGenesis PROVE IInv'
<1>1. /\ node \in {"down", "failed"} /\ db' = db /\ announced' = announced /\ refused' = refused
      /\ current = None /\ todo = <<>>
  BY DEF ComputeGenesis, IInv, Head0
<1>2. CASE db.headHash # None
  <2>1. todo' = <<>>
    BY <1>1, <1>2 DEF ComputeGenesis
  <2>2. \/ node' = "up" /\ current' = db.headHash /\ db.headHash \in DOMAIN db.td
        \/ node' = "failed" /\ current' = current
    BY <1>2 DEF ComputeGenesis
  <2>3. refused' \in BOOLEAN /\ (refused => refused')
    BY <1>1 DEF IInv, TypeOK
  <2> QED
    BY <1>1, <2>1, <2>2, <2>3, NothingToDo
<1>3. CASE db.headHash = None
  <2> DEFINE g == Genesis
  <2>1. node' = "starting" /\ todo' = GenesisWrites /\ current' = None
    BY <1>1, <1>3 DEF ComputeGenesis
  <2>3. \A key : W(key, g).key = key /\ W(key, g).blk = g
    BY DEF W
  <2>5. /\ todo' \in Seq(Entries) /\ DOMAIN todo' = 1 .. 7
        /\ todo'[1] = W("headers", g) /\ todo'[2] = W("headHash", g)
        /\ todo'[3] = W("headNumber", g) /\ todo'[4] = W("canonical", g) /\ todo'[5] = W("td", g)
        /\ todo'[6] = W("current", g) /\ todo'[7] = W("event", g)
    <3> DEFINE h == <<W("headers", g)>>
               a == AdvanceHead(g)
               s == CanonicalWrites(g)
               e == <<W("event", g)>>
    <3>1. /\ h \in Seq(Entries) /\ Len(h) = 1 /\ h[1] = W("headers", g)
          /\ e \in Seq(Entries) /\ Len(e) = 1 /\ e[1] = W("event", g)
      BY Steps, GenesisNum DEF Writes
    <3>2. /\ a \in Seq(Entries) /\ Len(a) = 5
          /\ a[1] = W("headHash", g) /\ a[2] = W("headNumber", g) /\ a[3] = W("canonical", g)
          /\ a[4] = W("td", g) /\ a[5] = W("current", g)
      BY HeadSteps, GenesisNum
    <3>3. s = h \o a /\ todo' = s \o e
      BY <2>1 DEF CanonicalWrites, GenesisWrites
    <3> HIDE DEF h, a, s, e
    <3>4. Cat(s, h, a, 1, 5)
      BY <3>1, <3>2, <3>3, Joined, Zenon
    <3>5. Cat(todo', s, e, 6, 1)
      <4>1. s \in Seq(Entries) /\ Len(s) = 6
        BY <3>4 DEF Cat
      <4> QED
        BY <3>1, <3>3, <4>1, Joined, Zenon
    <3>6. todo' \in Seq(Entries) /\ Len(todo') = 7 /\ todo'[7] = e[1]
          /\ \A i \in 1 .. 6 : todo'[i] = s[i]
      BY <3>5 DEF Cat
    <3>7. s[1] = h[1] /\ \A i \in 1 .. 5 : s[1 + i] = a[i]
      BY <3>4 DEF Cat
    <3>8. DOMAIN todo' = 1 .. 7
      BY <3>6, LenProperties
    <3>9. s[2] = a[1] /\ s[3] = a[2] /\ s[4] = a[3] /\ s[5] = a[4] /\ s[6] = a[5]
      BY <3>7
    <3> QED
      BY <3>1, <3>2, <3>6, <3>7, <3>8, <3>9
  <2>6. \A i \in DOMAIN todo' :
          /\ todo'[i].blk = g
          /\ todo'[i].key = "event" <=> i = 7
          /\ todo'[i].key = "current" <=> i = 6
          /\ todo'[i].key = "td" <=> i = 5
          /\ todo'[i].key = "canonical" <=> i = 4
          /\ todo'[i].key = "headHash" <=> i = 2
          /\ todo'[i].key # "panic"
    BY <2>3, <2>5
  <2>7. Has("td")' /\ Has("current")' /\ Has("headHash")'
    BY <2>3, <2>5 DEF Has
  <2> HIDE DEF g
  <2>8. announced = {}
    BY <1>3 DEF IInv, Announced
  <2>9. TypeOK'
    BY <1>1, <2>1, <2>5 DEF IInv, TypeOK
  <2>10. Weights'
    BY <1>1 DEF IInv, Weights
  <2>11. Order'
    BY <2>5, <2>6 DEF Order
  <2>12. Updates'
    BY <2>1, <2>5, <2>6, <2>7 DEF Updates, g
  <2>13. Head0'
    BY <1>1, <1>3, <2>1, <2>5, <2>6, <2>8 DEF Head0, g
  <2>14. Announced'
    BY <1>1, <2>8 DEF Announced
  <2>15. Canonical'
    <3>1. ASSUME NEW i \in DOMAIN todo', todo'[i].key = "canonical"
          PROVE  2 \in DOMAIN todo' /\ 2 < i /\ todo'[2] = W("headHash", todo'[i].blk)
      BY <2>5, <2>6, <3>1
    <3>2. ~refused => DOMAIN db.canonical = {}
      BY <1>3 DEF IInv, Canonical
    <3> QED
      BY <1>1, <2>1, <3>1, <3>2 DEF Canonical
  <2> QED
    BY <2>9, <2>10, <2>11, <2>12, <2>13, <2>14, <2>15 DEF IInv
<1> QED
  BY <1>2, <1>3

-----------------------------------------------------------------------------
(* WriteBlock *)

\* A call that does not move the head.
LEMMA SideScript ==
  ASSUME IInv, node = "up", NEW b \in Blocks, todo' \in Seq(Entries),
         db' = db, node' = node, current' = current, announced' = announced, refused' = refused,
         \A i \in DOMAIN todo' :
           /\ todo'[i].key \in {"bodies", "headers", "td", "forks", "receipts", "panic"}
           /\ todo'[i].blk = b
           /\ todo'[i].key = "td" => Parent(b) \in DOMAIN db.td
           /\ todo'[i].key = "panic" => refused,
         ~refused => db.headHash = current
  PROVE  IInv'
<1>1. TypeOK' /\ Weights' /\ Announced'
  BY DEF IInv, TypeOK, Weights, Announced
<1>2. Order' /\ Updates'
  BY DEF Order, Updates
<1>3. Head0'
  BY DEF IInv, Head0
<1>4. Canonical'
  BY DEF IInv, Canonical
<1> QED
  BY <1>1, <1>2, <1>3, <1>4 DEF IInv

\* A call that moves the head to b: after n other updates it advances the head,
\* writes the receipts and sends the event.
LEMMA HeadScript ==
  ASSUME IInv, node = "up", NEW b \in Blocks, NEW n \in Nat, todo' \in Seq(Entries),
         db' = db, node' = node, current' = current, announced' = announced, refused' = refused,
         Len(todo') = n + 7, Parent(b) \in DOMAIN db.td, Num(b) > Num(current),
         \A i \in 1 .. n :
           /\ todo'[i].key \in {"bodies", "headers", "td", "forks", "canonical"}
           /\ todo'[i].key \notin {"forks", "canonical"} => todo'[i].blk = b
           /\ todo'[i].key = "canonical" /\ ~refused => Num(todo'[i].blk) \in DOMAIN db.canonical,
         todo'[n + 1] = W("headHash", b), todo'[n + 2] = W("headNumber", b),
         todo'[n + 3] = W("canonical", b), todo'[n + 4] = W("td", b),
         todo'[n + 5] = W("current", b), todo'[n + 6] = W("receipts", b),
         todo'[n + 7] = W("event", b),
         ~refused => db.headHash = current
  PROVE  IInv'
<1>1. DOMAIN todo' = 1 .. n + 7
  BY LenProperties
<1>2. \A key : W(key, b).key = key /\ W(key, b).blk = b
  BY DEF W
<1>3. ASSUME NEW i \in DOMAIN todo'
      PROVE  \/ i \in 1 .. n \/ i = n + 1 \/ i = n + 2 \/ i = n + 3 \/ i = n + 4
             \/ i = n + 5 \/ i = n + 6 \/ i = n + 7
  <2>1. i \in Int /\ 1 <= i /\ i <= n + 7
    BY <1>1
  <2>2. i <= n \/ i = n + 1 \/ i = n + 2 \/ i = n + 3 \/ i = n + 4
        \/ i = n + 5 \/ i = n + 6 \/ i = n + 7
    BY <2>1
  <2> QED
    BY <2>1, <2>2
<1>4. ASSUME NEW i \in DOMAIN todo'
      PROVE  /\ todo'[i].key \notin {"forks", "canonical"} => todo'[i].blk = b
             /\ todo'[i].key = "event" <=> i = n + 7
             /\ todo'[i].key = "current" <=> i = n + 5
             /\ todo'[i].key = "headHash" <=> i = n + 1
             /\ i = n + 6 => todo'[i].key = "receipts"
             /\ todo'[i].key # "panic"
             /\ todo'[i].key = "canonical" =>
                  (~refused => Num(todo'[i].blk) \in DOMAIN db.canonical) \/ i = n + 3
  BY <1>2, <1>3
<1>5. Has("td")' /\ Has("current")' /\ Has("headHash")'
  BY <1>1, <1>2 DEF Has
<1>6. TypeOK' /\ Weights' /\ Announced'
  BY DEF IInv, TypeOK, Weights, Announced
<1>7. Order'
  <2>1. ASSUME NEW i \in DOMAIN todo', NEW j \in DOMAIN todo', i < j
        PROVE  /\ todo'[i].key # "event"
               /\ todo'[i].key = "current" => todo'[j].key \in {"receipts", "event"}
               /\ todo'[i].key = "headHash" => todo'[j].key # "headHash"
    <3>1. i # n + 7 /\ (i = n + 5 => j \in {n + 6, n + 7}) /\ (i = n + 1 => j # n + 1)
      BY <1>1, <2>1
    <3> QED
      BY <1>4, <3>1
  <2> QED
    BY <1>4, <2>1 DEF Order
<1>8. Updates'
  BY Zenon, <1>4, <1>5 DEF Updates
<1>9. Head0'
  BY DEF IInv, Head0
<1>10. Canonical'
  <2> SUFFICES ASSUME ~refused PROVE Canonical'
    BY DEF Canonical
  <2>1. ASSUME NEW i \in DOMAIN todo', todo'[i].key = "canonical"
        PROVE  \/ Num(todo'[i].blk) \in DOMAIN db.canonical
               \/ \E j \in DOMAIN todo' : j < i /\ todo'[j] = W("headHash", todo'[i].blk)
    <3>1. CASE i = n + 3
      BY <1>1, <1>2, <3>1
    <3> QED
      BY <1>4, <2>1, <3>1
  <2> QED
    BY <2>1 DEF IInv, Canonical
<1> QED
  BY <1>6, <1>7, <1>8, <1>9, <1>10 DEF IInv

\* A heavier chain is a longer one.
LEMMA Heavier ==
  ASSUME IInv, current \in DOMAIN db.td, NEW b \in Blocks, b # Genesis,
         Parent(b) \in DOMAIN db.td, db.td[Parent(b)] + Num(b) > db.td[current]
  PROVE  Num(b) > Num(current)
<1> DEFINE p == Parent(b)
           q == Parent(current)
<1>1. /\ DOMAIN db.td \subseteq Blocks /\ \A c \in DOMAIN db.td : db.td[c] \in Nat
      /\ \A c \in DOMAIN db.td : c # Genesis =>
           Parent(c) \in DOMAIN db.td /\ db.td[c] = db.td[Parent(c)] + Num(c)
      /\ \A c, d \in DOMAIN db.td : Num(c) <= Num(d) <=> db.td[c] <= db.td[d]
  BY DEF IInv, TypeOK, Weights
<1>2. Num(b) \in Nat \ {0} /\ Num(current) \in Nat /\ Num(p) = Num(b) - 1
  BY <1>1, NumNat, OnlyGenesis, ParentFacts
<1> SUFFICES ASSUME Num(b) <= Num(current) PROVE FALSE
  BY <1>2
<1>3. current # Genesis
  BY <1>2, GenesisNum
<1>4. /\ q \in DOMAIN db.td /\ db.td[current] = db.td[q] + Num(current)
      /\ Num(q) = Num(current) - 1
  BY <1>1, <1>3, ParentFacts
<1>5. db.td[p] \in Nat /\ db.td[q] \in Nat /\ (Num(p) <= Num(q) <=> db.td[p] <= db.td[q])
  BY <1>1, <1>4
<1> HIDE DEF p, q
<1>6. db.td[p] + Num(b) > db.td[current]
  BY Zenon DEF p
<1> QED
  BY <1>2, <1>4, <1>5, <1>6

\* The block is on top of the head.
LEMMA FastPathKeeps ==
  ASSUME IInv, NEW b \in Blocks, WriteBlock(b), Parent(b) = current PROVE IInv'
<1>1. /\ node = "up" /\ todo = <<>> /\ b # Genesis /\ current \in DOMAIN db.td
      /\ db' = db /\ node' = node /\ current' = current /\ announced' = announced
      /\ refused' = refused /\ todo' = <<W("bodies", b)>> \o (CanonicalWrites(b) \o Finish(b))
  BY DEF WriteBlock, IInv, Head0, HeaderWrites
<1>2. ~refused => db.headHash = current
  BY <1>1 DEF IInv, Canonical, Has
<1>3. Num(b) > Num(current)
  BY <1>1, ParentFacts, NumNat
<1> DEFINE h == <<W("headers", b)>>
           a == AdvanceHead(b)
           s == CanonicalWrites(b)
           f == Finish(b)
           u == s \o f
           p == <<W("bodies", b)>>
<1>4. /\ h \in Seq(Entries) /\ Len(h) = 1 /\ h[1] = W("headers", b)
      /\ p \in Seq(Entries) /\ Len(p) = 1 /\ p[1] = W("bodies", b)
  BY Steps DEF Writes
<1>5. /\ a \in Seq(Entries) /\ Len(a) = 5
      /\ a[1] = W("headHash", b) /\ a[2] = W("headNumber", b) /\ a[3] = W("canonical", b)
      /\ a[4] = W("td", b) /\ a[5] = W("current", b)
      /\ f \in Seq(Entries) /\ Len(f) = 2 /\ f[1] = W("receipts", b) /\ f[2] = W("event", b)
  BY HeadSteps
<1>6. s = h \o a /\ u = s \o f /\ todo' = p \o u
  BY <1>1 DEF CanonicalWrites
<1> HIDE DEF h, a, s, f, u, p
<1>7. Cat(s, h, a, 1, 5)
  BY <1>4, <1>5, <1>6, Joined, Zenon
<1>8. Cat(u, s, f, 6, 2)
  <2>1. s \in Seq(Entries) /\ Len(s) = 6
    BY <1>7 DEF Cat
  <2> QED
    BY <1>5, <1>6, <2>1, Joined, Zenon
<1>9. Cat(todo', p, u, 1, 8)
  <2>1. u \in Seq(Entries) /\ Len(u) = 8
    BY <1>8 DEF Cat
  <2> QED
    BY <1>4, <1>6, <2>1, Joined, Zenon
<1>10. /\ todo' \in Seq(Entries) /\ Len(todo') = 2 + 7 /\ todo'[1] = p[1]
       /\ \A i \in 1 .. 8 : todo'[1 + i] = u[i]
  BY <1>9 DEF Cat
<1>11. u[7] = f[1] /\ u[8] = f[2] /\ \A i \in 1 .. 6 : u[i] = s[i]
  BY <1>8 DEF Cat
<1>12. s[1] = h[1] /\ s[2] = a[1] /\ s[3] = a[2] /\ s[4] = a[3] /\ s[5] = a[4] /\ s[6] = a[5]
  BY <1>7 DEF Cat
<1>13. /\ todo'[2] = u[1] /\ todo'[3] = u[2] /\ todo'[4] = u[3] /\ todo'[5] = u[4]
       /\ todo'[6] = u[5] /\ todo'[7] = u[6] /\ todo'[8] = u[7] /\ todo'[9] = u[8]
  BY <1>10
<1>14. u[1] = s[1] /\ u[2] = s[2] /\ u[3] = s[3] /\ u[4] = s[4] /\ u[5] = s[5] /\ u[6] = s[6]
  BY <1>11
<1>15. /\ todo'[2 + 1] = W("headHash", b) /\ todo'[2 + 2] = W("headNumber", b)
       /\ todo'[2 + 3] = W("canonical", b) /\ todo'[2 + 4] = W("td", b)
       /\ todo'[2 + 5] = W("current", b) /\ todo'[2 + 6] = W("receipts", b)
       /\ todo'[2 + 7] = W("event", b)
  BY <1>5, <1>11, <1>12, <1>13, <1>14
<1>16. todo'[1] = W("bodies", b) /\ todo'[2] = W("headers", b)
  BY <1>4, <1>10, <1>12, <1>13, <1>14
<1>17. \A i \in 1 .. 2 :
         /\ todo'[i].key \in {"bodies", "headers", "td", "forks", "canonical"}
         /\ todo'[i].key \notin {"forks", "canonical"} => todo'[i].blk = b
         /\ todo'[i].key = "canonical" /\ ~refused => Num(todo'[i].blk) \in DOMAIN db.canonical
  BY <1>16, Steps
<1>18. 2 \in Nat /\ Parent(b) \in DOMAIN db.td
  BY <1>1
<1> QED
  BY Zenon, <1>1, <1>2, <1>3, <1>10, <1>15, <1>17, <1>18, HeadScript

\* The block is elsewhere, and its parent has no difficulty or its chain is not
\* heavier: the head stays.
LEMMA SideKeeps ==
  ASSUME IInv, NEW b \in Blocks, WriteBlock(b), Parent(b) # current,
         Parent(b) \in DOMAIN db.td => ~(db.td[Parent(b)] + Num(b) > db.td[current])
  PROVE  IInv'
<1>1. /\ node = "up" /\ todo = <<>> /\ current \in DOMAIN db.td
      /\ db' = db /\ node' = node /\ current' = current /\ announced' = announced
      /\ refused' = refused /\ todo' = <<W("bodies", b)>> \o SideWrites(b)
  BY DEF WriteBlock, IInv, Head0, HeaderWrites
<1>2. ~refused => db.headHash = current
  BY <1>1 DEF IInv, Canonical, Has
<1> DEFINE p == <<W("bodies", b)>>
<1>3. p \in Seq(Entries) /\ Len(p) = 1 /\ p[1] = W("bodies", b)
  BY Steps DEF Writes
<1>4. CASE Parent(b) \notin DOMAIN db.td
  <2> DEFINE h == <<W("headers", b)>>
  <2>1. h \in Seq(Entries) /\ Len(h) = 1 /\ h[1] = W("headers", b)
    BY Steps DEF Writes
  <2>2. todo' = p \o h
    BY <1>1, <1>4 DEF SideWrites
  <2> HIDE DEF h, p
  <2>3. Cat(todo', p, h, 1, 1)
    BY <1>3, <2>1, <2>2, Joined, Zenon
  <2>4. todo' \in Seq(Entries) /\ Len(todo') = 2 /\ todo'[1] = p[1] /\ todo'[2] = h[1]
    BY <2>3 DEF Cat
  <2>5. \A i \in DOMAIN todo' : todo'[i] \in {W("bodies", b), W("headers", b)}
    BY <1>3, <2>1, <2>4, LenProperties
  <2>6. \A i \in DOMAIN todo' :
          /\ todo'[i].key \in {"bodies", "headers", "td", "forks", "receipts", "panic"}
          /\ todo'[i].blk = b
          /\ todo'[i].key = "td" => Parent(b) \in DOMAIN db.td
          /\ todo'[i].key = "panic" => refused
    BY <2>5, Steps
  <2> QED
    BY <1>1, <1>2, <2>4, <2>6, SideScript
<1>5. CASE Parent(b) \in DOMAIN db.td
  <2> DEFINE h == <<W("headers", b), W("td", b)>>
             f == <<W("forks", b), W("receipts", b)>>
             u == h \o f
  <2>1. /\ h \in Seq(Entries) /\ Len(h) = 2 /\ h[1] = W("headers", b) /\ h[2] = W("td", b)
        /\ f \in Seq(Entries) /\ Len(f) = 2 /\ f[1] = W("forks", b) /\ f[2] = W("receipts", b)
    BY Steps DEF Writes
  <2>2. todo' = p \o u
    BY <1>1, <1>5 DEF SideWrites
  <2>3. u = h \o f
    OBVIOUS
  <2> HIDE DEF h, f, u, p
  <2>4. Cat(u, h, f, 2, 2)
    BY <2>1, <2>3, Joined, Zenon
  <2>5. /\ u \in Seq(Entries) /\ Len(u) = 4
        /\ u[1] = h[1] /\ u[2] = h[2] /\ u[3] = f[1] /\ u[4] = f[2]
    BY <2>4 DEF Cat
  <2>6. Cat(todo', p, u, 1, 4)
    BY <1>3, <2>2, <2>5, Joined, Zenon
  <2>7. /\ todo' \in Seq(Entries) /\ Len(todo') = 5 /\ todo'[1] = p[1]
        /\ todo'[2] = u[1] /\ todo'[3] = u[2] /\ todo'[4] = u[3] /\ todo'[5] = u[4]
    BY <2>6 DEF Cat
  <2>8. \A i \in DOMAIN todo' :
          todo'[i] \in {W("bodies", b), W("headers", b), W("td", b), W("forks", b), W("receipts", b)}
    BY <1>3, <2>1, <2>5, <2>7, LenProperties
  <2>9. \A i \in DOMAIN todo' :
          /\ todo'[i].key \in {"bodies", "headers", "td", "forks", "receipts", "panic"}
          /\ todo'[i].blk = b
          /\ todo'[i].key = "td" => Parent(b) \in DOMAIN db.td
          /\ todo'[i].key = "panic" => refused
    BY <1>5, <2>8, Steps
  <2> QED
    BY <1>1, <1>2, <2>7, <2>9, SideScript
<1> QED
  BY <1>4, <1>5

\* The block is elsewhere on a heavier chain.
LEMMA ReorgKeeps ==
  ASSUME IInv, NEW b \in Blocks, WriteBlock(b), Parent(b) # current, Parent(b) \in DOMAIN db.td,
         db.td[Parent(b)] + Num(b) > db.td[current]
  PROVE  IInv'
<1> DEFINE p == <<W("bodies", b)>>
           h == <<W("headers", b), W("td", b)>>
           r == ReorgWrites(b)
           u == h \o r
<1>1. /\ node = "up" /\ todo = <<>> /\ current \in DOMAIN db.td /\ current \in Blocks
      /\ b # Genesis /\ Num(b) - 1 \in DOMAIN db.canonical
      /\ db' = db /\ node' = node /\ current' = current /\ announced' = announced
      /\ refused' = refused /\ todo' = p \o u
  BY DEF WriteBlock, IInv, Head0, HeaderWrites, SideWrites, Processable, TypeOK
<1>2. ~refused => db.headHash = current
  BY <1>1 DEF IInv, Canonical, Has
<1>3. Num(b) > Num(current) /\ Num(b) \in Nat /\ Num(current) \in Nat
  BY <1>1, Heavier, NumNat
\* Without a refusal no number above the head has a canonical hash.
<1>4. ~refused => Num(b) = Num(current) + 1
  BY <1>1, <1>2, <1>3 DEF IInv, Canonical
<1>5. /\ p \in Seq(Entries) /\ Len(p) = 1 /\ p[1] = W("bodies", b)
      /\ h \in Seq(Entries) /\ Len(h) = 2 /\ h[1] = W("headers", b) /\ h[2] = W("td", b)
  BY Steps DEF Writes
<1>6. u = h \o r
  OBVIOUS
<1> HIDE DEF p, h, u
<1>7. CASE Ancestor(b, Num(current)) = current
  <2>1. refused
    <3> SUFFICES ASSUME ~refused PROVE FALSE
      BY DEF IInv, TypeOK
    <3>1. Num(current) = Num(b) - 1
      BY <1>3, <1>4
    <3> QED
      BY <1>1, <1>7, <3>1, ParentFacts
  <2>2. r = <<W("panic", b)>> /\ r \in Seq(Entries) /\ Len(r) = 1 /\ r[1] = W("panic", b)
    BY <1>7, Steps DEF ReorgWrites
  <2> HIDE DEF r
  <2>3. Cat(u, h, r, 2, 1)
    BY <1>5, <1>6, <2>2, Joined, Zenon
  <2>4. u \in Seq(Entries) /\ Len(u) = 3 /\ u[1] = h[1] /\ u[2] = h[2] /\ u[3] = r[1]
    BY <2>3 DEF Cat
  <2>5. Cat(todo', p, u, 1, 3)
    BY <1>1, <1>5, <2>4, Joined, Zenon
  <2>6. /\ todo' \in Seq(Entries) /\ Len(todo') = 4 /\ todo'[1] = p[1]
        /\ todo'[2] = u[1] /\ todo'[3] = u[2] /\ todo'[4] = u[3]
    BY <2>5 DEF Cat
  <2>7. \A i \in DOMAIN todo' :
          todo'[i] \in {W("bodies", b), W("headers", b), W("td", b), W("panic", b)}
    BY <1>5, <2>2, <2>4, <2>6, LenProperties
  <2>8. \A i \in DOMAIN todo' :
          /\ todo'[i].key \in {"bodies", "headers", "td", "forks", "receipts", "panic"}
          /\ todo'[i].blk = b
          /\ todo'[i].key = "td" => Parent(b) \in DOMAIN db.td
          /\ todo'[i].key = "panic" => refused
    BY <2>1, <2>7, Steps
  <2> QED
    BY <1>1, <1>2, <2>6, <2>8, SideScript
<1>8. CASE Ancestor(b, Num(current)) # current
  <2> DEFINE newChain == Down(b, Num(b) - 1, Num(current))
             m == Num(b) - Num(current)
             k == <<W("forks", current)>>
             c == [i \in DOMAIN newChain |-> W("canonical", newChain[i])]
             a == AdvanceHead(b)
             f == Finish(b)
             s1 == k \o c
             s2 == s1 \o a
  <2>1. r = s2 \o f /\ s2 = s1 \o a /\ s1 = k \o c
    BY <1>8 DEF ReorgWrites
  <2>2. m \in Nat /\ DOMAIN c = 1 .. m /\ Num(b) - 1 - Num(current) + 1 = m
    BY <1>3 DEF Down
  <2>3. ASSUME NEW i \in 1 .. m
        PROVE  c[i] = W("canonical", Ancestor(b, Num(b) - i)) /\ Num(b) - i \in 0 .. Num(b)
    <3>1. Num(b) - 1 - i + 1 = Num(b) - i /\ Num(b) - i \in 0 .. Num(b)
      BY <1>3, <2>2
    <3> QED
      BY <2>2, <3>1 DEF Down
  <2>4. ASSUME NEW i \in 1 .. m
        PROVE  /\ c[i] \in Entries /\ c[i].key = "canonical"
               /\ ~refused => Num(c[i].blk) \in DOMAIN db.canonical
    <3>1. Ancestor(b, Num(b) - i) \in Blocks /\ Num(Ancestor(b, Num(b) - i)) = Num(b) - i
      BY Zenon, <2>3, AncestorFacts
    <3>2. c[i] \in Entries /\ c[i].key = "canonical" /\ Num(c[i].blk) = Num(b) - i
      <4> DEFINE x == Ancestor(b, Num(b) - i)
      <4>1. c[i] = W("canonical", x)
        BY <2>3
      <4> HIDE DEF c, x
      <4>2. W("canonical", x) \in Entries
        BY <3>1, Steps DEF Writes, x
      <4>3. W("canonical", x).key = "canonical" /\ W("canonical", x).blk = x
        BY DEF W
      <4> QED
        BY <3>1, <4>1, <4>2, <4>3 DEF x
    <3>3. ~refused => i = 1
      BY <1>3, <1>4
    <3> QED
      BY Zenon, <1>1, <3>2, <3>3
  <2> HIDE DEF newChain, m
  <2>5. c \in Seq(Entries) /\ Len(c) = m
    <3>1. c \in [1 .. m -> Entries]
      BY <2>2, <2>4
    <3> QED
      BY <2>2, <3>1
  <2>6. k \in Seq(Entries) /\ Len(k) = 1 /\ k[1] = W("forks", current) /\ k[1].key = "forks"
    BY Zenon, <1>1, Steps DEF Writes
  <2>7. /\ a \in Seq(Entries) /\ Len(a) = 5
        /\ a[1] = W("headHash", b) /\ a[2] = W("headNumber", b) /\ a[3] = W("canonical", b)
        /\ a[4] = W("td", b) /\ a[5] = W("current", b)
        /\ f \in Seq(Entries) /\ Len(f) = 2 /\ f[1] = W("receipts", b) /\ f[2] = W("event", b)
    BY HeadSteps
  <2> HIDE DEF k, c, a, f, s1, s2, r
  <2>8. /\ s1 \in Seq(Entries) /\ Len(s1) = 1 + m /\ s1[1] = k[1]
        /\ \A i \in 1 .. m : s1[1 + i] = c[i]
    <3>1. Cat(s1, k, c, 1, m)
      BY <2>1, <2>5, <2>6, Joined, Zenon
    <3> QED
      BY <3>1 DEF Cat
  <2>9. /\ s2 \in Seq(Entries) /\ Len(s2) = m + 6
        /\ \A i \in 1 .. 1 + m : s2[i] = s1[i]
        /\ s2[m + 2] = a[1] /\ s2[m + 3] = a[2] /\ s2[m + 4] = a[3] /\ s2[m + 5] = a[4]
        /\ s2[m + 6] = a[5]
    <3>1. Cat(s2, s1, a, 1 + m, 5)
      BY <2>1, <2>7, <2>8, Joined, Zenon
    <3>2. /\ s2 \in Seq(Entries) /\ Len(s2) = m + 6
          /\ \A i \in 1 .. 1 + m : s2[i] = s1[i]
          /\ s2[1 + m + 1] = a[1] /\ s2[1 + m + 2] = a[2] /\ s2[1 + m + 3] = a[3]
          /\ s2[1 + m + 4] = a[4] /\ s2[1 + m + 5] = a[5]
      BY <2>2, <3>1 DEF Cat
    <3>3. /\ 1 + m + 1 = m + 2 /\ 1 + m + 2 = m + 3 /\ 1 + m + 3 = m + 4 /\ 1 + m + 4 = m + 5
          /\ 1 + m + 5 = m + 6
      BY <2>2
    <3> QED
      BY <3>2, <3>3
  <2>10. /\ r \in Seq(Entries) /\ Len(r) = m + 8
         /\ \A i \in 1 .. m + 6 : r[i] = s2[i]
         /\ r[m + 7] = f[1] /\ r[m + 8] = f[2]
    <3>1. Cat(r, s2, f, m + 6, 2)
      BY <2>1, <2>7, <2>9, Joined, Zenon
    <3>2. /\ r \in Seq(Entries) /\ Len(r) = m + 8 /\ \A i \in 1 .. m + 6 : r[i] = s2[i]
          /\ r[m + 6 + 1] = f[1] /\ r[m + 6 + 2] = f[2]
      BY <2>2, <3>1 DEF Cat
    <3>3. m + 6 + 1 = m + 7 /\ m + 6 + 2 = m + 8
      BY <2>2
    <3> QED
      BY <3>2, <3>3
  <2>11. /\ u \in Seq(Entries) /\ Len(u) = m + 10 /\ u[1] = h[1] /\ u[2] = h[2]
         /\ \A i \in 1 .. m + 8 : u[2 + i] = r[i]
    <3>1. Cat(u, h, r, 2, m + 8)
      BY <1>5, <1>6, <2>10, Joined, Zenon
    <3> QED
      BY <2>2, <3>1 DEF Cat
  <2>12. /\ todo' \in Seq(Entries) /\ Len(todo') = m + 11 /\ todo'[1] = p[1]
         /\ \A i \in 1 .. m + 10 : todo'[1 + i] = u[i]
    <3>1. Cat(todo', p, u, 1, m + 10)
      BY <1>1, <1>5, <2>11, Joined, Zenon
    <3> QED
      BY <2>2, <3>1 DEF Cat
  \* Three updates, the fork, the canonical hashes, and the new head.
  <2>13. ASSUME NEW i \in 1 .. m + 8 PROVE todo'[i + 3] = r[i]
    <3>1. 2 + i \in 1 .. m + 10 /\ 1 + (2 + i) = i + 3
      BY <2>2
    <3> QED
      BY <2>11, <2>12, <3>1
  <2>14. ASSUME NEW i \in 1 .. m + 6 PROVE todo'[i + 3] = s2[i]
    <3>1. i \in 1 .. m + 8
      BY <2>2
    <3> QED
      BY <2>10, <2>13, <3>1
  <2>15. /\ todo'[1] = W("bodies", b) /\ todo'[2] = W("headers", b) /\ todo'[3] = W("td", b)
         /\ todo'[4].key = "forks"
    <3>1. 1 \in 1 .. m + 10 /\ 2 \in 1 .. m + 10 /\ 1 \in 1 .. m + 6 /\ 1 \in 1 .. 1 + m
      BY <2>2
    <3>2. todo'[1 + 1] = u[1] /\ todo'[1 + 2] = u[2] /\ todo'[1 + 3] = s2[1] /\ s2[1] = s1[1]
      BY <2>9, <2>12, <2>14, <3>1
    <3> QED
      BY <1>5, <2>6, <2>8, <2>11, <2>12, <3>2
  <2>16. ASSUME NEW i \in 1 .. m PROVE todo'[i + 4] = c[i]
    <3>1. 1 + i \in 1 .. m + 6 /\ 1 + i \in 1 .. 1 + m /\ (1 + i) + 3 = i + 4
      BY <2>2
    <3> QED
      BY <2>8, <2>9, <2>14, <3>1
  <2> DEFINE n == m + 4
  <2>17. /\ todo'[n + 1] = W("headHash", b) /\ todo'[n + 2] = W("headNumber", b)
         /\ todo'[n + 3] = W("canonical", b) /\ todo'[n + 4] = W("td", b)
         /\ todo'[n + 5] = W("current", b) /\ todo'[n + 6] = W("receipts", b)
         /\ todo'[n + 7] = W("event", b)
    <3>0. /\ m + 2 \in 1 .. m + 6 /\ m + 3 \in 1 .. m + 6 /\ m + 4 \in 1 .. m + 6
          /\ m + 5 \in 1 .. m + 6 /\ m + 6 \in 1 .. m + 6
          /\ m + 7 \in 1 .. m + 8 /\ m + 8 \in 1 .. m + 8
      BY <2>2
    <3>1. /\ (m + 2) + 3 = n + 1 /\ (m + 3) + 3 = n + 2 /\ (m + 4) + 3 = n + 3
          /\ (m + 5) + 3 = n + 4 /\ (m + 6) + 3 = n + 5 /\ (m + 7) + 3 = n + 6
          /\ (m + 8) + 3 = n + 7
      BY <2>2
    <3> HIDE DEF n
    <3>2. /\ todo'[n + 1] = s2[m + 2] /\ todo'[n + 2] = s2[m + 3] /\ todo'[n + 3] = s2[m + 4]
          /\ todo'[n + 4] = s2[m + 5] /\ todo'[n + 5] = s2[m + 6]
      BY <2>14, <3>0, <3>1
    <3>3. todo'[n + 6] = r[m + 7] /\ todo'[n + 7] = r[m + 8]
      BY Zenon, <2>13, <3>0, <3>1
    <3> QED
      BY <2>7, <2>9, <2>10, <3>2, <3>3
  <2>18. ASSUME NEW i \in 1 .. n
         PROVE  /\ todo'[i].key \in {"bodies", "headers", "td", "forks", "canonical"}
                /\ todo'[i].key \notin {"forks", "canonical"} => todo'[i].blk = b
                /\ todo'[i].key = "canonical" /\ ~refused =>
                     Num(todo'[i].blk) \in DOMAIN db.canonical
    <3>1. i = 1 \/ i = 2 \/ i = 3 \/ i = 4 \/ (i - 4 \in 1 .. m /\ (i - 4) + 4 = i)
      BY <2>2
    <3>2. CASE i \in {1, 2, 3, 4}
      BY <2>15, <3>2, Steps
    <3>3. CASE i - 4 \in 1 .. m /\ (i - 4) + 4 = i
      <4>1. todo'[i] = c[i - 4]
        BY <2>16, <3>3
      <4> QED
        BY <2>4, <3>3, <4>1
    <3> QED
      BY <3>1, <3>2, <3>3
  <2>19. n \in Nat /\ Len(todo') = n + 7
    BY <2>2, <2>12
  <2> HIDE DEF n
  <2> QED
    BY Zenon, <1>1, <1>2, <1>3, <2>12, <2>17, <2>18, <2>19, HeadScript
<1> QED
  BY Zenon, <1>7, <1>8

LEMMA WriteBlockKeeps ==
  ASSUME IInv, NEW b \in Blocks, WriteBlock(b) PROVE IInv'
BY FastPathKeeps, SideKeeps, ReorgKeeps

-----------------------------------------------------------------------------
(* Theorems *)

LEMMA InitIInv == Init => IInv
<1> SUFFICES ASSUME Init PROVE IInv
  OBVIOUS
<1>1. todo = <<>> /\ DOMAIN todo = {} /\ todo \in Seq(Entries)
  BY DEF Init
<1>2. /\ DOMAIN db = Fields /\ db.headHash = None
      /\ DOMAIN db.canonical = {} /\ DOMAIN db.td = {}
  BY DEF Init, EmptyDb, Fields
<1>3. TypeOK
  BY Zenon, <1>1, <1>2 DEF Init, TypeOK
<1>4. Weights /\ Order /\ Updates
  BY <1>1, <1>2 DEF Weights, Order, Updates
<1>5. Head0 /\ Announced /\ Canonical
  BY <1>1, <1>2 DEF Init, Head0, Announced, Canonical
<1> QED
  BY <1>3, <1>4, <1>5 DEF IInv

LEMMA NextIInv == IInv /\ [Next]_vars => IInv'
<1> SUFFICES ASSUME IInv, [Next]_vars PROVE IInv'
  OBVIOUS
<1>1. CASE \E b \in Blocks : WriteBlock(b)
  BY <1>1, WriteBlockKeeps
<1>2. CASE WriteKey
  BY <1>2, WriteKeyKeeps
<1>3. CASE SetCurrentHeader
  BY <1>3, SetCurrentHeaderKeeps
<1>4. CASE DispatchEvent
  BY <1>4, DispatchEventKeeps
<1>5. CASE ComputeGenesis
  BY <1>5, ComputeGenesisKeeps
<1>6. CASE WriteFails
  BY <1>6, WriteFailsKeeps
<1>7. CASE Crash
  BY <1>7, CrashKeeps
<1>8. CASE UNCHANGED vars
  <2>1. TypeOK' /\ Weights'
    BY Zenon, <1>8 DEF vars, IInv, TypeOK, Weights
  <2>2. Order'
    BY Zenon, <1>8 DEF vars, IInv, Order
  <2>3. Updates'
    BY <1>8 DEF vars, IInv, Updates, Has
  <2>4. Head0' /\ Announced'
    BY Zenon, <1>8 DEF vars, IInv, Head0, Announced, Has
  <2>5. Canonical'
    BY <1>8 DEF vars, IInv, Canonical, Has
  <2>6. QED
    BY Zenon, <2>1, <2>2, <2>3, <2>4, <2>5 DEF IInv
<1> QED
  BY <1>1, <1>2, <1>3, <1>4, <1>5, <1>6, <1>7, <1>8 DEF Next, Step

\* The inductive invariant holds in every reachable state.
LEMMA Invariance == Spec => []IInv
BY InitIInv, NextIInv, PTL DEF Spec

\* For every tree of blocks, and whatever is refused or cut short by a crash: a
\* node that is up is on a chain at least as long as every head that
\* dispatchEvent has told its subscribers of.
THEOREM AnnouncedIsKept == Spec => []AnnouncedKept
<1>1. IInv => AnnouncedKept
  BY DEF IInv, Announced, Head0, AnnouncedKept
<1> QED
  BY <1>1, Invariance, PTL

\* writeHeaderImpl never misses the difficulty of the head in memory, and
\* handleReorg finds an old header to drop unless set has failed before.
THEOREM PanicsOnlyAfterRefusal == Spec => []NoPanic
<1>1. IInv => NoPanic
  BY DEF IInv, Updates, Head0, NoPanic
<1> QED
  BY <1>1, Invariance, PTL

\* The head of a node that runs changes for a heavier chain only, although the
\* difficulties are compared when the call starts and the head is set at its end.
THEOREM HeadOnlyImproves == Spec => HeadImproves
<1> DEFINE Improves == current # None /\ current' \notin {None, current} =>
                         db.td[current'] > db.td[current]
<1>1. IInv /\ [Next]_vars => [Improves]_vars
  <2> SUFFICES ASSUME IInv, Next PROVE Improves
    OBVIOUS
  <2>1. CASE SetCurrentHeader
    BY Zenon, <2>1, SetCurrentHeaderKeeps
  <2>2. CASE ComputeGenesis
    BY <2>2 DEF ComputeGenesis, IInv, Head0
  <2>3. CASE ~SetCurrentHeader /\ ~ComputeGenesis
    <3>1. current' = current \/ current' = None
      BY Zenon, <2>3 DEF Next, Step, WriteBlock, WriteKey, DispatchEvent, WriteFails, Crash
    <3> QED
      BY <3>1
  <2> QED
    BY <2>1, <2>2, <2>3
<1> QED
  BY <1>1, Invariance, PTL DEF HeadImproves, Spec
=============================================================================
