---------------------------- MODULE QueriesProofs ---------------------------
(***************************************************************************)
(* Proofs about Queries: for every chain, every query and every            *)
(* interleaving with the writer, answers are of blocks on the chain, logs  *)
(* are exact, and estimates are least.                                     *)
(***************************************************************************)
EXTENDS Queries, TLAPS

-----------------------------------------------------------------------------
(* Sequences *)

LEMMA JoinSeqs ==
  ASSUME NEW S, NEW s \in Seq(S), NEW t \in Seq(S)
  PROVE  /\ s \o t \in Seq(S) /\ Len(s \o t) = Len(s) + Len(t)
         /\ \A i \in 1 .. Len(s) : (s \o t)[i] = s[i]
         /\ \A i \in 1 .. Len(t) : (s \o t)[Len(s) + i] = t[i]
OBVIOUS

LEMMA TailSeq ==
  ASSUME NEW S, NEW s \in Seq(S), s # <<>>
  PROVE  /\ Len(s) \in Nat /\ Len(s) >= 1 /\ Head(s) = s[1] /\ s[1] \in S
         /\ Tail(s) \in Seq(S) /\ Len(Tail(s)) = Len(s) - 1
         /\ \A i \in 1 .. Len(s) - 1 : Tail(s)[i] = s[i + 1]
OBVIOUS

LEMMA FunctionSeq ==
  ASSUME NEW S, NEW m \in Nat, NEW f \in [1 .. m -> S]
  PROVE  f \in Seq(S) /\ Len(f) = m
OBVIOUS

LEMMA AppendSeq ==
  ASSUME NEW S, NEW s \in Seq(S), NEW x \in S
  PROVE  /\ Append(s, x) \in Seq(S) /\ Len(s) \in Nat /\ Len(Append(s, x)) = Len(s) + 1
         /\ \A i \in 1 .. Len(s) : Append(s, x)[i] = s[i]
         /\ Append(s, x)[Len(s) + 1] = x
         /\ Range(Append(s, x)) = Range(s) \cup {x}
<1>1. /\ Append(s, x) \in Seq(S) /\ Len(s) \in Nat /\ Len(Append(s, x)) = Len(s) + 1
      /\ \A i \in 1 .. Len(s) : Append(s, x)[i] = s[i]
      /\ Append(s, x)[Len(s) + 1] = x
  OBVIOUS
<1>2. DOMAIN s = 1 .. Len(s) /\ DOMAIN Append(s, x) = 1 .. Len(s) + 1
  OBVIOUS
<1>3. \A i : i \in 1 .. Len(s) + 1 <=> i \in 1 .. Len(s) \/ i = Len(s) + 1
  BY <1>1
<1>4. Range(Append(s, x)) = Range(s) \cup {x}
  BY Zenon, <1>1, <1>2, <1>3 DEF Range
<1>5. QED
  BY Zenon, <1>1, <1>4

-----------------------------------------------------------------------------
(* The writer *)

Keys == {"bodies", "lookup", "headers", "canonical", "current", "receipts", "event"}

\* The order of the writes of a block.
Rank(key) ==
  IF key = "bodies" THEN 1 ELSE IF key = "lookup" THEN 2 ELSE IF key = "headers" THEN 3
  ELSE IF key = "canonical" THEN 4 ELSE IF key = "current" THEN 5 ELSE IF key = "receipts" THEN 6 ELSE 7

StoreInv ==
  /\ latest \in Nat /\ latest <= Len(BlockTxs)
  /\ db \in [headers : SUBSET Nat, canonical : SUBSET Nat, bodies : SUBSET Nat, receipts : SUBSET Nat,
             lookup : [AllTxs -> Int]]
  /\ 0 .. latest \subseteq db.canonical
  /\ db.canonical \subseteq db.headers
  /\ db.canonical \ {0} \subseteq db.bodies
  /\ db.bodies \subseteq Numbers
  /\ db.receipts \subseteq 1 .. latest

Pending(key) == \E i \in 1 .. Len(write) : write[i].key = key
Target == IF Pending("current") THEN latest + 1 ELSE latest
Done(key) == Target \in db[key] \/ Pending(key)

\* What is still to be written is of one block, in order, and what is not any
\* more to be written is in the store.
WriteInv ==
  /\ write \in Seq([key : Keys, n : Nat, tx : Nat])
  /\ \A i, j \in 1 .. Len(write) :
       i < j => \/ Rank(write[i].key) < Rank(write[j].key)
                \/ write[i].key = "lookup" /\ write[j].key = "lookup"
  /\ \A i \in 1 .. Len(write) : write[i].n = Target
  /\ write # <<>> => Target \in Numbers /\ Done("bodies") /\ Done("headers") /\ Done("canonical")

\* Nothing that is in the store leaves it.
Grows ==
  /\ latest' \in Nat /\ latest <= latest'
  /\ db.headers \subseteq db'.headers /\ db.canonical \subseteq db'.canonical
  /\ db.bodies \subseteq db'.bodies /\ db.receipts \subseteq db'.receipts

LEMMA ChainNumbers ==
  /\ Len(BlockTxs) \in Nat /\ Numbers = 1 .. Len(BlockTxs)
  /\ \A n \in Numbers : /\ BlockTxs[n] \in Seq(DOMAIN TxLogs) /\ Len(BlockTxs[n]) \in Nat
                        /\ DOMAIN BlockTxs[n] = 1 .. Len(BlockTxs[n])
BY ChainAssumption DEF Numbers

LEMMA BeginWriteInv == StoreInv /\ WriteInv /\ BeginWrite => WriteInv'
<1> SUFFICES ASSUME StoreInv, BeginWrite PROVE WriteInv'
  OBVIOUS
<1> DEFINE n == latest + 1
<1> DEFINE m == Len(BlockTxs[n])
<1> DEFINE Entry == [key : Keys, n : Nat, tx : Nat]
<1> DEFINE a == writeBody(n)
<1> DEFINE c == <<W("headers", n), W("canonical", n), W("current", n), W("receipts", n), W("event", n)>>
<1>1. /\ n \in Numbers /\ n \in Nat /\ write' = a \o c /\ latest' = latest /\ db' = db
      /\ latest \in Nat
  BY DEF BeginWrite, StoreInv
<1>2. m \in Nat /\ DOMAIN BlockTxs[n] = 1 .. m /\ n = latest + 1
  BY <1>1, ChainNumbers
<1> HIDE DEF n, m
<1>3. /\ a \in Seq(Entry) /\ Len(a) = m + 1 /\ a[1].key = "bodies" /\ a[1].n = n
      /\ \A i \in 2 .. m + 1 : a[i].key = "lookup" /\ a[i].n = n
  <2> DEFINE l == [i \in DOMAIN BlockTxs[n] |-> [W("lookup", n) EXCEPT !.tx = i]]
  <2>1. l \in Seq(Entry) /\ Len(l) = m /\ \A i \in 1 .. m : l[i].key = "lookup" /\ l[i].n = n
    <3>1. \A i \in 1 .. m : [W("lookup", n) EXCEPT !.tx = i] = [key |-> "lookup", n |-> n, tx |-> i]
      BY DEF W
    <3>2. l = [i \in 1 .. m |-> [key |-> "lookup", n |-> n, tx |-> i]]
      BY <1>2, <3>1
    <3> HIDE DEF l
    <3>3. l \in [1 .. m -> Entry]
      BY <1>1, <3>2 DEF Keys
    <3>4. l \in Seq(Entry) /\ Len(l) = m
      BY Zenon, <1>2, <3>3, FunctionSeq
    <3>5. QED
      BY Zenon, <3>2, <3>4
  <2>2. W("bodies", n) \in Entry /\ W("bodies", n).key = "bodies" /\ W("bodies", n).n = n
    BY <1>1 DEF W, Keys
  <2>3. a = <<W("bodies", n)>> \o l
    BY DEF writeBody
  <2> HIDE DEF l, a, Entry
  <2>4. /\ a \in Seq(Entry) /\ Len(a) = m + 1 /\ a[1] = W("bodies", n)
        /\ \A i \in 1 .. m : a[1 + i] = l[i]
    <3> DEFINE h == <<W("bodies", n)>>
    <3>1. h \in Seq(Entry) /\ Len(h) = 1 /\ h[1] = W("bodies", n)
      BY <2>2
    <3> HIDE DEF h
    <3>2. a = h \o l
      BY Zenon, <2>3 DEF h
    <3>3. /\ a \in Seq(Entry) /\ Len(a) = Len(h) + Len(l)
          /\ \A i \in 1 .. Len(h) : a[i] = h[i]
          /\ \A i \in 1 .. Len(l) : a[Len(h) + i] = l[i]
      <4>1. h \in Seq(Entry) /\ l \in Seq(Entry)
        BY Zenon, <2>1, <3>1
      <4>2. /\ h \o l \in Seq(Entry) /\ Len(h \o l) = Len(h) + Len(l)
            /\ \A i \in 1 .. Len(h) : (h \o l)[i] = h[i]
            /\ \A i \in 1 .. Len(l) : (h \o l)[Len(h) + i] = l[i]
        BY <4>1, JoinSeqs
      <4>3. QED
        BY Zenon, <3>2, <4>2
    <3>4. QED
      BY <1>2, <2>1, <3>1, <3>3
  <2>5. \A i \in 2 .. m + 1 : i - 1 \in 1 .. m /\ 1 + (i - 1) = i
    BY <1>2
  <2>6. \A i \in 2 .. m + 1 : a[i] = l[i - 1]
    BY <2>4, <2>5
  <2>7. QED
    BY <2>1, <2>2, <2>4, <2>5, <2>6
<1>4. /\ c \in Seq(Entry) /\ Len(c) = 5
      /\ c[1].key = "headers" /\ c[2].key = "canonical" /\ c[3].key = "current"
      /\ c[4].key = "receipts" /\ c[5].key = "event"
      /\ \A i \in 1 .. 5 : c[i].n = n
  BY <1>1 DEF W, Keys
<1> HIDE DEF a, c, Entry
<1>5. /\ write' \in Seq(Entry) /\ Len(write') = m + 6
      /\ \A i \in 1 .. m + 1 : write'[i] = a[i]
      /\ \A i \in 1 .. 5 : write'[m + 1 + i] = c[i]
  <2>1. /\ write' \in Seq(Entry) /\ Len(write') = Len(a) + Len(c)
        /\ \A i \in 1 .. Len(a) : write'[i] = a[i]
        /\ \A i \in 1 .. Len(c) : write'[Len(a) + i] = c[i]
    <3>1. a \in Seq(Entry) /\ c \in Seq(Entry)
      BY Zenon, <1>3, <1>4
    <3>2. /\ a \o c \in Seq(Entry) /\ Len(a \o c) = Len(a) + Len(c)
          /\ \A i \in 1 .. Len(a) : (a \o c)[i] = a[i]
          /\ \A i \in 1 .. Len(c) : (a \o c)[Len(a) + i] = c[i]
      BY <3>1, JoinSeqs
    <3>3. QED
      BY Zenon, <1>1, <3>2
  <2>2. Len(a) = m + 1 /\ Len(c) = 5
    BY Zenon, <1>3, <1>4
  <2>3. (m + 1) + 5 = m + 6
    BY <1>2
  <2>4. QED
    BY Zenon, <2>1, <2>2, <2>3
<1>6. ASSUME NEW i \in 1 .. m + 6
      PROVE  /\ i = 1 => write'[i].key = "bodies"
             /\ i \in 2 .. m + 1 => write'[i].key = "lookup"
             /\ i = m + 2 => write'[i].key = "headers"
             /\ i = m + 3 => write'[i].key = "canonical"
             /\ i = m + 4 => write'[i].key = "current"
             /\ i = m + 5 => write'[i].key = "receipts"
             /\ i = m + 6 => write'[i].key = "event"
             /\ write'[i].n = n
  <2>1. CASE i \in 1 .. m + 1
    <3>1. write'[i] = a[i] /\ (i = 1 \/ i \in 2 .. m + 1)
      <4>1. i = 1 \/ i \in 2 .. m + 1
        BY <1>2, <2>1
      <4>2. QED
        BY Zenon, <1>5, <2>1, <4>1
    <3>2. /\ i \in 2 .. m + 1 => i # 1
          /\ i # m + 2 /\ i # m + 3 /\ i # m + 4 /\ i # m + 5 /\ i # m + 6
      BY <1>2, <2>1
    <3>3. QED
      BY Zenon, <1>3, <3>1, <3>2
  <2>2. CASE i \notin 1 .. m + 1
    <3>1. PICK j \in 1 .. 5 : i = m + 1 + j
      <4>1. i - (m + 1) \in 1 .. 5 /\ i = m + 1 + (i - (m + 1))
        BY <1>2, <2>2
      <4>2. QED
        BY <4>1
    <3>2. write'[i] = c[j]
      BY <1>5, <3>1
    <3>3. QED
      BY <1>2, <1>4, <3>1, <3>2
  <2>3. QED
    BY <2>1, <2>2
<1>7. \A i \in 1 .. m + 6 :
        Rank(write'[i].key) = IF i = 1 THEN 1 ELSE IF i <= m + 1 THEN 2 ELSE i - m + 1
  BY <1>2, <1>6 DEF Rank
<1>8. Target' = n /\ Pending("headers")' /\ Pending("canonical")' /\ Pending("bodies")'
  <2>1. 1 \in 1 .. m + 6 /\ m + 2 \in 1 .. m + 6 /\ m + 3 \in 1 .. m + 6 /\ m + 4 \in 1 .. m + 6
    BY <1>2
  <2>2. /\ write'[1].key = "bodies" /\ write'[m + 2].key = "headers" /\ write'[m + 3].key = "canonical"
        /\ write'[m + 4].key = "current"
    BY Zenon, <1>6, <2>1
  <2>3. Pending("headers")' /\ Pending("canonical")' /\ Pending("bodies")' /\ Pending("current")'
    BY Zenon, <1>5, <2>1, <2>2 DEF Pending
  <2>4. QED
    BY Zenon, <1>1, <1>2, <2>3 DEF Target
<1>9. ASSUME NEW i \in 1 .. m + 6, NEW j \in 1 .. m + 6, i < j
      PROVE  Rank(write'[i].key) < Rank(write'[j].key)
               \/ (write'[i].key = "lookup" /\ write'[j].key = "lookup")
  <2>1. CASE i \in 2 .. m + 1 /\ j \in 2 .. m + 1
    BY Zenon, <1>6, <2>1
  <2>2. CASE ~(i \in 2 .. m + 1 /\ j \in 2 .. m + 1)
    <3> DEFINE x == Rank(write'[i].key)
    <3> DEFINE y == Rank(write'[j].key)
    <3>1. /\ x = IF i = 1 THEN 1 ELSE IF i <= m + 1 THEN 2 ELSE i - m + 1
          /\ y = IF j = 1 THEN 1 ELSE IF j <= m + 1 THEN 2 ELSE j - m + 1
      BY Zenon, <1>7
    <3> HIDE DEF x, y
    <3>2. x < y
      <4>1. j # 1 /\ i \in Int /\ j \in Int /\ (j <= m + 1 => i = 1)
        BY <1>2, <1>9, <2>2
      <4>2. QED
        BY <1>2, <1>9, <3>1, <4>1
    <3>3. QED
      BY Zenon, <3>2 DEF x, y
  <2>3. QED
    BY <2>1, <2>2
<1>10. QED
  BY Zenon, <1>1, <1>5, <1>6, <1>8, <1>9 DEF WriteInv, Done, Entry

\* The first write is done and taken off the list.
LEMMA DoWriteInv == StoreInv /\ WriteInv /\ DoWrite => StoreInv' /\ WriteInv' /\ Grows
<1> SUFFICES ASSUME StoreInv, WriteInv, DoWrite PROVE StoreInv' /\ WriteInv' /\ Grows
  OBVIOUS
<1> DEFINE w == Head(write)
<1> DEFINE Entry == [key : Keys, n : Nat, tx : Nat]
<1>1. /\ write \in Seq(Entry) /\ write # <<>> /\ Len(write) \in Nat /\ Len(write) >= 1
      /\ w = write[1] /\ w \in Entry /\ 1 \in 1 .. Len(write)
      /\ write' = Tail(write) /\ write' \in Seq(Entry) /\ Len(write') = Len(write) - 1
      /\ \A i \in 1 .. Len(write') : write'[i] = write[i + 1]
  <2>1. write \in Seq(Entry) /\ write # <<>> /\ write' = Tail(write)
    BY Zenon DEF WriteInv, DoWrite
  <2> HIDE DEF Entry
  <2>2. /\ Len(write) \in Nat /\ Len(write) >= 1 /\ w = write[1] /\ w \in Entry
        /\ write' \in Seq(Entry) /\ Len(write') = Len(write) - 1
        /\ \A i \in 1 .. Len(write) - 1 : write'[i] = write[i + 1]
    BY Zenon, <2>1, TailSeq
  <2>3. 1 \in 1 .. Len(write)
    BY <2>2
  <2>4. QED
    BY Zenon, <2>1, <2>2, <2>3
<1>2. \A i \in 1 .. Len(write') : i + 1 \in 1 .. Len(write)
  BY <1>1
<1>3. /\ w.n = Target /\ Target \in Numbers /\ Target \in Nat /\ Target >= 1
      /\ Target <= Len(BlockTxs) /\ latest \in Nat
      /\ w.key \in Keys /\ Done("bodies") /\ Done("headers") /\ Done("canonical")
  BY <1>1, ChainNumbers DEF WriteInv, StoreInv
<1>4. ASSUME NEW key, Pending(key), w.key # key PROVE Pending(key)'
  <2>1. PICK i \in 1 .. Len(write) : write[i].key = key
    BY Zenon, <1>4 DEF Pending
  <2>2. i # 1
    BY Zenon, <1>1, <1>4, <2>1
  <2>3. i - 1 \in 1 .. Len(write') /\ (i - 1) + 1 = i
    BY <1>1, <2>1, <2>2
  <2>4. write'[i - 1].key = key
    BY <1>1, <2>1, <2>3
  <2>5. QED
    BY Zenon, <2>3, <2>4 DEF Pending
<1>5. ASSUME NEW key, Pending(key)' PROVE Pending(key)
  <2>1. PICK i \in 1 .. Len(write') : write'[i].key = key
    BY Zenon, <1>5 DEF Pending
  <2>2. QED
    BY Zenon, <1>1, <1>2, <2>1 DEF Pending
<1>6. ASSUME NEW key \in Keys, Rank(key) <= Rank(w.key), key # "lookup" PROVE ~Pending(key)'
  <2>1. SUFFICES ASSUME NEW i \in 1 .. Len(write'), write'[i].key = key PROVE FALSE
    BY Zenon DEF Pending
  <2>2. i + 1 \in 1 .. Len(write) /\ write[i + 1].key = key /\ 1 < i + 1
    BY <1>1, <1>2, <2>1
  <2>3. Rank(write[1].key) < Rank(key)
    BY <1>1, <1>6, <2>2 DEF WriteInv
  <2>4. Rank(key) \in Nat /\ Rank(w.key) \in Nat
    BY DEF Rank
  <2>5. QED
    BY <1>1, <1>6, <2>3, <2>4
<1>7. ASSUME NEW key \in Keys, Rank(key) < Rank(w.key), key # "lookup" PROVE ~Pending(key)
  <2>1. Rank(key) \in Nat /\ Rank(w.key) \in Nat /\ w.key # key
    BY <1>7 DEF Rank
  <2>2. ~Pending(key)'
    BY <1>6, <1>7, <2>1
  <2>3. QED
    BY Zenon, <1>4, <2>1, <2>2
<1>8. /\ w.key = "canonical" => Target \in db.bodies /\ Target \in db.headers
      /\ w.key = "current" => Target \in db.canonical /\ Target = latest + 1
      /\ w.key = "receipts" => Target = latest
  <2>1. ASSUME w.key = "canonical" PROVE Target \in db.bodies /\ Target \in db.headers
    <3>1. ~Pending("bodies") /\ ~Pending("headers")
      <4>1. /\ "bodies" \in Keys /\ Rank("bodies") < Rank(w.key) /\ "bodies" # "lookup"
            /\ "headers" \in Keys /\ Rank("headers") < Rank(w.key) /\ "headers" # "lookup"
        BY <2>1 DEF Keys, Rank
      <4>2. QED
        BY Zenon, <1>7, <4>1
    <3>2. QED
      BY <1>3, <3>1 DEF Done
  <2>2. ASSUME w.key = "current" PROVE Target \in db.canonical /\ Target = latest + 1
    <3>1. ~Pending("canonical")
      <4>1. "canonical" \in Keys /\ Rank("canonical") < Rank(w.key) /\ "canonical" # "lookup"
        BY <2>2 DEF Keys, Rank
      <4>2. QED
        BY Zenon, <1>7, <4>1
    <3>2. Pending("current")
      BY Zenon, <1>1, <2>2 DEF Pending
    <3>3. QED
      BY <1>3, <3>1, <3>2 DEF Done, Target
  <2>3. ASSUME w.key = "receipts" PROVE Target = latest
    <3>1. "current" \in Keys /\ Rank("current") < Rank(w.key) /\ "current" # "lookup"
      BY <2>3 DEF Keys, Rank
    <3>2. ~Pending("current")
      BY Zenon, <1>7, <3>1
    <3>3. QED
      BY Zenon, <3>2 DEF Target
  <2>4. QED
    BY Zenon, <2>1, <2>2, <2>3
<1>9. /\ latest' = IF w.key = "current" THEN w.n ELSE latest
      /\ db' = CASE w.key \in {"headers", "canonical", "bodies", "receipts"} ->
                      [db EXCEPT ![w.key] = @ \cup {w.n}]
                 [] w.key = "lookup" -> [db EXCEPT !.lookup[BlockTxs[w.n][w.tx]] = w.n]
                 [] OTHER -> db
  BY DEF DoWrite
<1> DEFINE Dbs == [headers : SUBSET Nat, canonical : SUBSET Nat, bodies : SUBSET Nat, receipts : SUBSET Nat,
                   lookup : [AllTxs -> Int]]
<1> HIDE DEF w
<1>10. /\ db' \in Dbs
       /\ db'.headers = IF w.key = "headers" THEN db.headers \cup {Target} ELSE db.headers
       /\ db'.canonical = IF w.key = "canonical" THEN db.canonical \cup {Target} ELSE db.canonical
       /\ db'.bodies = IF w.key = "bodies" THEN db.bodies \cup {Target} ELSE db.bodies
       /\ db'.receipts = IF w.key = "receipts" THEN db.receipts \cup {Target} ELSE db.receipts
  <2>1. db \in Dbs
    BY DEF StoreInv
  <2>2. CASE w.key = "headers"
    BY <1>3, <1>9, <2>1, <2>2
  <2>3. CASE w.key = "canonical"
    BY <1>3, <1>9, <2>1, <2>3
  <2>4. CASE w.key = "bodies"
    BY <1>3, <1>9, <2>1, <2>4
  <2>5. CASE w.key = "receipts"
    BY <1>3, <1>9, <2>1, <2>5
  <2>6. CASE w.key = "lookup"
    <3>1. db' = [db EXCEPT !.lookup[BlockTxs[w.n][w.tx]] = w.n]
      BY <1>9, <2>6
    <3>2. [db.lookup EXCEPT ![BlockTxs[w.n][w.tx]] = w.n] \in [AllTxs -> Int]
      <4>1. db.lookup \in [AllTxs -> Int] /\ w.n \in Int
        BY <1>3, <2>1
      <4>2. QED
        BY Zenon, <4>1
    <3>3. QED
      <4> DEFINE l == [db.lookup EXCEPT ![BlockTxs[w.n][w.tx]] = w.n]
      <4>1. db' = [db EXCEPT !.lookup = l]
        BY Zenon, <3>1
      <4> HIDE DEF l
      <4>2. QED
        BY <2>1, <2>6, <3>2, <4>1 DEF l
  <2>7. CASE w.key \in {"current", "event"}
    BY <1>9, <2>1, <2>7
  <2>8. QED
    BY Zenon, <1>3, <2>2, <2>3, <2>4, <2>5, <2>6, <2>7 DEF Keys
<1>11. latest' \in Nat /\ latest <= latest' /\ latest' <= Len(BlockTxs)
  BY <1>3, <1>8, <1>9 DEF StoreInv
<1>12. Grows
  BY <1>10, <1>11 DEF Grows
<1>13. StoreInv'
  <2>1. 0 .. latest' \subseteq db'.canonical
    <3>1. 0 .. latest \subseteq db.canonical /\ db.canonical \subseteq db'.canonical
      BY <1>12 DEF StoreInv, Grows
    <3>2. w.key = "current" => latest + 1 \in db.canonical
      BY <1>8
    <3>3. QED
      BY <1>3, <1>8, <1>9, <3>1, <3>2
  <2>2. /\ db'.canonical \subseteq db'.headers
        /\ db'.canonical \ {0} \subseteq db'.bodies
    BY <1>8, <1>10 DEF StoreInv
  <2>3. db'.bodies \subseteq Numbers
    BY <1>3, <1>10 DEF StoreInv
  <2>4. db'.receipts \subseteq 1 .. latest'
    BY <1>3, <1>8, <1>10, <1>11 DEF StoreInv
  <2>5. QED
    BY <1>10, <1>11, <2>1, <2>2, <2>3, <2>4 DEF StoreInv
<1>14. Target' = Target
  <2>1. CASE w.key = "current"
    <3>1. "current" \in Keys /\ Rank("current") <= Rank(w.key) /\ "current" # "lookup"
      BY <2>1 DEF Keys, Rank
    <3>2. ~Pending("current")'
      BY Zenon, <1>6, <3>1
    <3>3. QED
      BY <1>3, <1>8, <1>9, <2>1, <3>2 DEF Target
  <2>2. CASE w.key # "current"
    <3>1. Pending("current")' <=> Pending("current")
      BY Zenon, <1>4, <1>5, <2>2
    <3>2. QED
      BY Zenon, <1>9, <2>2, <3>1 DEF Target
  <2>3. QED
    BY <2>1, <2>2
<1>15. ASSUME NEW key \in {"bodies", "headers", "canonical"} PROVE Done(key)'
  <2>1. CASE w.key = key
    BY <1>10, <1>14, <2>1 DEF Done
  <2>2. CASE w.key # key
    <3>1. Target \in db[key] => Target' \in db'[key]
      BY <1>12, <1>14 DEF Grows
    <3>2. QED
      BY Zenon, <1>3, <1>4, <2>2, <3>1 DEF Done
  <2>3. QED
    BY <2>1, <2>2
<1>16. WriteInv'
  <2>1. \A i \in 1 .. Len(write') : write'[i].n = Target'
    BY Zenon, <1>1, <1>2, <1>14 DEF WriteInv
  <2>2. ASSUME NEW i \in 1 .. Len(write'), NEW j \in 1 .. Len(write'), i < j
        PROVE  Rank(write'[i].key) < Rank(write'[j].key)
                 \/ (write'[i].key = "lookup" /\ write'[j].key = "lookup")
    <3>1. i + 1 \in 1 .. Len(write) /\ j + 1 \in 1 .. Len(write) /\ i + 1 < j + 1
      BY <1>1, <1>2, <2>2
    <3>2. QED
      BY Zenon, <1>1, <3>1 DEF WriteInv
  <2>3. QED
    BY Zenon, <1>1, <1>3, <1>14, <1>15, <2>1, <2>2 DEF WriteInv
<1>17. QED
  BY <1>12, <1>13, <1>16

-----------------------------------------------------------------------------
(* Places of logs *)

LEMMA PlaceIn ==
  ASSUME NEW f, NEW lo, NEW hi, NEW p
  PROVE  p \in LogsOf(f, lo, hi) <=>
           \E n \in Numbers : lo <= n /\ n <= hi /\ p \in Matching(f, n)
<1> DEFINE S == {m \in Numbers : lo <= m /\ m <= hi}
<1>1. \A n : n \in S <=> n \in Numbers /\ lo <= n /\ n <= hi
  OBVIOUS
<1>2. LogsOf(f, lo, hi) = UNION {Matching(f, n) : n \in S}
  BY Zenon DEF LogsOf
<1> HIDE DEF S
<1>3. p \in UNION {Matching(f, n) : n \in S} <=> \E n \in S : p \in Matching(f, n)
  BY Zenon
<1>4. QED
  BY Zenon, <1>1, <1>2, <1>3

LEMMA MatchIn ==
  ASSUME NEW f, NEW n, NEW p
  PROVE  p \in Matching(f, n) <=>
           \E i \in DOMAIN BlockTxs[n] : \E j \in DOMAIN TxLogs[BlockTxs[n][i]] :
             p = <<n, i, j>> /\ Match(f, TxLogs[BlockTxs[n][i]][j])
<1> DEFINE Logs(i) == {l \in DOMAIN TxLogs[BlockTxs[n][i]] : Match(f, TxLogs[BlockTxs[n][i]][l])}
<1> DEFINE In(i) == {<<n, i, j>> : j \in Logs(i)}
<1>1. \A i : p \in In(i) <=> \E j \in DOMAIN TxLogs[BlockTxs[n][i]] :
                             p = <<n, i, j>> /\ Match(f, TxLogs[BlockTxs[n][i]][j])
  BY Zenon
<1>2. Matching(f, n) = UNION {In(i) : i \in DOMAIN BlockTxs[n]}
  BY Zenon DEF Matching
<1> HIDE DEF In
<1>3. p \in UNION {In(i) : i \in DOMAIN BlockTxs[n]} <=> \E i \in DOMAIN BlockTxs[n] : p \in In(i)
  BY Zenon
<1>4. QED
  BY Zenon, <1>1, <1>2, <1>3

LEMMA LogNumbers ==
  ASSUME NEW n \in Numbers, NEW i \in DOMAIN BlockTxs[n]
  PROVE  /\ BlockTxs[n][i] \in DOMAIN TxLogs
         /\ Len(TxLogs[BlockTxs[n][i]]) \in Nat
         /\ DOMAIN TxLogs[BlockTxs[n][i]] = 1 .. Len(TxLogs[BlockTxs[n][i]])
<1>1. BlockTxs[n] \in Seq(DOMAIN TxLogs)
  BY Zenon, ChainNumbers
<1>2. BlockTxs[n][i] \in DOMAIN TxLogs
  BY <1>1
<1>3. TxLogs[BlockTxs[n][i]] \in Seq(Range(TxLogs[BlockTxs[n][i]]))
  BY Zenon, <1>2, ChainAssumption
<1>4. QED
  BY <1>2, <1>3

LEMMA Places ==
  ASSUME NEW f, NEW lo, NEW hi, NEW p \in LogsOf(f, lo, hi)
  PROVE  /\ p[1] \in Numbers /\ lo <= p[1] /\ p[1] <= hi
         /\ p[2] \in DOMAIN BlockTxs[p[1]] /\ p[3] \in DOMAIN TxLogs[BlockTxs[p[1]][p[2]]]
         /\ p = <<p[1], p[2], p[3]>>
         /\ p[1] \in Nat /\ p[2] \in Nat \ {0} /\ p[3] \in Nat \ {0}
<1>1. PICK n \in Numbers : lo <= n /\ n <= hi /\ p \in Matching(f, n)
  BY Zenon, PlaceIn
<1>2. PICK i \in DOMAIN BlockTxs[n] : \E j \in DOMAIN TxLogs[BlockTxs[n][i]] :
        p = <<n, i, j>> /\ Match(f, TxLogs[BlockTxs[n][i]][j])
  BY Zenon, <1>1, MatchIn
<1>3. PICK j \in DOMAIN TxLogs[BlockTxs[n][i]] : p = <<n, i, j>>
  BY Zenon, <1>2
<1>4. p[1] = n /\ p[2] = i /\ p[3] = j
  BY <1>3
<1>5. n \in Nat /\ i \in Nat \ {0} /\ j \in Nat \ {0}
  <2>1. DOMAIN BlockTxs[n] = 1 .. Len(BlockTxs[n]) /\ Len(BlockTxs[n]) \in Nat /\ n \in Nat
    BY ChainNumbers
  <2>2. /\ DOMAIN TxLogs[BlockTxs[n][i]] = 1 .. Len(TxLogs[BlockTxs[n][i]])
        /\ Len(TxLogs[BlockTxs[n][i]]) \in Nat
    BY Zenon, LogNumbers
  <2>3. i \in 1 .. Len(BlockTxs[n]) /\ j \in 1 .. Len(TxLogs[BlockTxs[n][i]])
    BY Zenon, <2>1, <2>2
  <2>4. QED
    BY <2>1, <2>2, <2>3
<1>6. QED
  BY Zenon, <1>1, <1>3, <1>4, <1>5

\* Whether a log is among the ones of a range is decided by its block and Match.
LEMMA PlaceOf ==
  ASSUME NEW f, NEW lo, NEW hi, NEW n \in Numbers, lo <= n, n <= hi,
         NEW i \in DOMAIN BlockTxs[n], NEW j \in DOMAIN TxLogs[BlockTxs[n][i]]
  PROVE  <<n, i, j>> \in LogsOf(f, lo, hi) <=> Match(f, TxLogs[BlockTxs[n][i]][j])
<1>1. ASSUME Match(f, TxLogs[BlockTxs[n][i]][j]) PROVE <<n, i, j>> \in LogsOf(f, lo, hi)
  BY Zenon, <1>1, PlaceIn, MatchIn
<1>2. ASSUME <<n, i, j>> \in LogsOf(f, lo, hi) PROVE Match(f, TxLogs[BlockTxs[n][i]][j])
  <2>1. PICK m \in Numbers : <<n, i, j>> \in Matching(f, m)
    BY Zenon, <1>2, PlaceIn
  <2>2. PICK k \in DOMAIN BlockTxs[m] : \E l \in DOMAIN TxLogs[BlockTxs[m][k]] :
          <<n, i, j>> = <<m, k, l>> /\ Match(f, TxLogs[BlockTxs[m][k]][l])
    BY Zenon, <2>1, MatchIn
  <2>3. PICK l \in DOMAIN TxLogs[BlockTxs[m][k]] :
          <<n, i, j>> = <<m, k, l>> /\ Match(f, TxLogs[BlockTxs[m][k]][l])
    BY Zenon, <2>2
  <2>4. n = m /\ i = k /\ j = l
    BY <2>3
  <2>5. QED
    BY Zenon, <2>3, <2>4
<1>3. QED
  BY Zenon, <1>1, <1>2

LEMMA Narrow ==
  ASSUME NEW f, NEW lo \in Int, NEW hi \in Int, NEW last \in Int, last <= hi, NEW p
  PROVE  p \in LogsOf(f, lo, last) <=> p \in LogsOf(f, lo, hi) /\ p[1] <= last
<1>1. ASSUME p \in LogsOf(f, lo, last) PROVE p \in LogsOf(f, lo, hi) /\ p[1] <= last
  <2>1. PICK n \in Numbers : lo <= n /\ n <= last /\ p \in Matching(f, n)
    BY Zenon, <1>1, PlaceIn
  <2>2. n <= hi
    BY <2>1, ChainNumbers
  <2>3. p \in LogsOf(f, lo, hi)
    BY Zenon, <2>1, <2>2, PlaceIn
  <2>4. QED
    BY Zenon, <1>1, <2>3, Places
<1>2. ASSUME p \in LogsOf(f, lo, hi), p[1] <= last PROVE p \in LogsOf(f, lo, last)
  <2>1. PICK n \in Numbers : lo <= n /\ n <= hi /\ p \in Matching(f, n)
    BY Zenon, <1>2, PlaceIn
  <2>2. p[1] = n
    BY <2>1, MatchIn
  <2>3. QED
    BY Zenon, <1>2, <2>1, <2>2, PlaceIn
<1>3. QED
  BY Zenon, <1>1, <1>2

-----------------------------------------------------------------------------
(* The invariant of the reader and of the answers *)

Fields == {"pc", "q", "arg", "blk", "nonce", "lo", "hi", "cap", "tx", "log", "logs", "asked"}
BlockNumbers == -SignBit .. SignBit - 1 \cup {PendingBlockNumber, LatestBlockNumber, EarliestBlockNumber}

\* The logs found are the ones before the place GetLogs has come to; a block it
\* has passed that is not older than the head has none.
Here(r) == <<r.blk, r.tx, r.log>>
Seen(r) == {p \in LogsOf(r.arg, r.lo, r.hi) : Before(p, Here(r))}
LogsInv(r) ==
  /\ r.lo \in Nat /\ r.hi \in Nat /\ r.blk \in Nat /\ r.tx \in Nat /\ r.log \in Nat
  /\ r.lo <= r.blk
  /\ r.logs \in Seq(Nat \X Nat \X Nat)
  /\ \A k, l \in 1 .. Len(r.logs) : k < l => Before(r.logs[k], r.logs[l])
  /\ Range(r.logs) = Seen(r)
  /\ \A n \in Numbers : r.lo <= n /\ n < r.blk /\ latest < n => BlockTxs[n] = <<>>
  /\ r.pc # "parse" => r.tx = 0 /\ r.log = 0
  /\ r.pc = "logblock" => r.arg.hash = Missing
  /\ r.pc # "logblock" => r.blk \in Numbers /\ r.blk <= r.hi
  /\ r.pc = "parse" => r.blk <= latest /\ r.tx >= 1 /\ r.log >= 1
  /\ r.arg.hash # Missing => r.lo = r.hi /\ r.blk = r.hi

\* Below lo no gas is enough; above hi, if it was lowered, the next one is.
Suffices(r, gas) == ApplyTxn(r.arg, r.nonce, r.blk, gas) = "done"
SearchInv(r) ==
  /\ r.lo \in Int /\ r.hi \in Int /\ r.cap \in Int /\ r.hi <= r.cap
  /\ standardGas(r.arg) <= r.lo
  /\ \A g \in standardGas(r.arg) .. r.lo - 1 : ~Suffices(r, g)
  /\ r.hi < r.cap => r.lo <= r.hi + 1 /\ Suffices(r, r.hi + 1)

Running(r) ==
  /\ DOMAIN r = Fields
  /\ r.asked \in Nat /\ r.asked <= latest
  /\ r.pc = "header" => /\ DOMAIN r.arg = {"ok", "number", "hash"}
                        /\ r.arg.hash # Missing => r.arg.number = 0
  /\ r.pc = "range" => /\ r.logs = <<>> /\ r.tx = 0 /\ r.log = 0
                       /\ r.arg.from \in BlockNumbers /\ r.arg.to \in BlockNumbers
  /\ r.pc \in {"logblock", "logreceipts", "parse"} => LogsInv(r)
  /\ r.pc \in {"decode", "ends", "search"} => Estimated(r.arg)
  /\ r.pc = "search" => SearchInv(r)

ReaderInv == reader.pc = "idle" \/ Running(reader)

AnswerInv ==
  /\ answer.kind = "receipt" => answer.block \in db.receipts
  /\ answer.kind = "state" /\ answer.last => answer.block >= answer.asked
  /\ answer.kind = "logs" => answer.hi \in Int /\ answer.lo \in Int /\ answer.asked \in Int
  /\ LogsExact
  /\ EstimateLeast

QueryInv == StoreInv /\ WriteInv /\ ReaderInv /\ AnswerInv

LEMMA QueryInitInv == QueryInit => QueryInv
<1> SUFFICES ASSUME QueryInit PROVE QueryInv
  OBVIOUS
<1>1. StoreInv
  BY ChainNumbers DEF QueryInit, StoreInv, Missing
<1>2. WriteInv
  BY DEF QueryInit, WriteInv
<1>3. ReaderInv
  BY DEF QueryInit, ReaderInv, NoQuery
<1>4. AnswerInv
  BY DEF QueryInit, AnswerInv, Nil, LogsExact, EstimateLeast
<1>5. QED
  BY <1>1, <1>2, <1>3, <1>4 DEF QueryInv

-----------------------------------------------------------------------------
(* Steps of the writer, and of a reader that goes on or answers *)

LEMMA GrowsKeeps ==
  ASSUME StoreInv, ReaderInv, AnswerInv, Grows, reader' = reader, answer' = answer
  PROVE  ReaderInv' /\ AnswerInv'
<1>1. latest \in Nat /\ latest' \in Nat /\ latest <= latest' /\ db.receipts \subseteq db'.receipts
  BY DEF StoreInv, Grows
<1>2. ASSUME LogsInv(reader) PROVE LogsInv(reader)'
  <2>1. \A n \in Numbers : latest' < n => latest < n
    BY <1>1, ChainNumbers
  <2>2. reader.blk \in Nat /\ reader.blk <= latest => reader.blk <= latest'
    BY <1>1
  <2>3. QED
    BY Zenon, <1>2, <2>1, <2>2 DEF LogsInv, Seen, Here
<1>3. ReaderInv'
  <2>1. reader.asked \in Nat /\ reader.asked <= latest => reader.asked <= latest'
    BY <1>1
  <2>2. Running(reader) => Running(reader)'
    BY Zenon, <1>2, <2>1 DEF Running, SearchInv, Suffices
  <2>3. QED
    BY Zenon, <2>2 DEF ReaderInv
<1>4. LogsExact'
  <2>1. SUFFICES ASSUME answer.kind = "logs"
                 PROVE  \E last \in Lesser(answer.hi, answer.asked) .. Lesser(answer.hi, latest') :
                          Range(answer.logs) = LogsOf(answer.f, answer.lo, last)
    BY Zenon DEF LogsExact, AnswerInv
  <2>2. PICK last \in Lesser(answer.hi, answer.asked) .. Lesser(answer.hi, latest) :
          Range(answer.logs) = LogsOf(answer.f, answer.lo, last)
    BY Zenon, <2>1 DEF LogsExact, AnswerInv
  <2>3. answer.hi \in Int /\ answer.asked \in Int
    BY Zenon, <2>1 DEF AnswerInv
  <2>4. last \in Lesser(answer.hi, answer.asked) .. Lesser(answer.hi, latest')
    <3>1. /\ Lesser(answer.hi, latest) \in Int /\ Lesser(answer.hi, latest') \in Int
          /\ Lesser(answer.hi, latest) <= Lesser(answer.hi, latest')
          /\ Lesser(answer.hi, answer.asked) \in Int
      BY <1>1, <2>3 DEF Lesser
    <3>2. QED
      BY <3>1
  <2>5. QED
    BY Zenon, <2>2, <2>4
<1>5. EstimateLeast'
  BY Zenon DEF EstimateLeast, AnswerInv
<1>6. QED
  BY Zenon, <1>1, <1>3, <1>4, <1>5 DEF AnswerInv

LEMMA GotoAnswer == ASSUME NEW pc, NEW r, Goto(pc, r) PROVE AnswerInv'
BY DEF Goto, AnswerInv, Nil, LogsExact, EstimateLeast

LEMMA AnsweredReader == ASSUME NEW a, Answered(a) PROVE ReaderInv' /\ answer' = a
BY DEF Answered, ReaderInv, NoQuery

LEMMA PlainAnswer ==
  ASSUME NEW a, Answered(a), a.kind \notin {"receipt", "state", "logs", "gas"}
  PROVE  ReaderInv' /\ AnswerInv'
BY DEF Answered, ReaderInv, NoQuery, AnswerInv, LogsExact, EstimateLeast

LEMMA PlainGoto ==
  ASSUME NEW pc, NEW r, Goto(pc, r), DOMAIN r = Fields, latest' = latest,
         r.asked \in Nat, r.asked <= latest,
         pc \in {"lookup", "txblock", "pool", "receipts", "block"}
  PROVE  ReaderInv' /\ AnswerInv'
<1>1. DOMAIN reader' = Fields /\ reader'.pc = pc /\ reader'.asked = r.asked
  BY DEF Goto, Fields
<1>2. Running(reader)'
  BY <1>1 DEF Running
<1>3. QED
  BY Zenon, <1>2, GotoAnswer DEF ReaderInv

-----------------------------------------------------------------------------
(* A query arrives *)

LEMMA BeginShape ==
  ASSUME NEW q, NEW pc, NEW a, Begin(q, pc, a), StoreInv, OnlyReads
  PROVE  /\ AnswerInv'
         /\ DOMAIN reader' = Fields /\ reader'.pc = pc /\ reader'.arg = a
         /\ reader'.logs = <<>> /\ reader'.tx = 0 /\ reader'.log = 0
         /\ reader'.asked \in Nat /\ reader'.asked <= latest'
<1> DEFINE r == [pc |-> pc, q |-> q, arg |-> a, blk |-> Missing, nonce |-> 0, lo |-> 0, hi |-> 0, cap |-> 0,
                 tx |-> 0, log |-> 0, logs |-> <<>>, asked |-> latest]
<1>1. Goto(pc, r)
  BY Zenon DEF Begin
<1>2. AnswerInv'
  BY Zenon, <1>1, GotoAnswer
<1>3. reader' = r
  BY <1>1 DEF Goto
<1>4. latest \in Nat /\ latest' = latest
  BY DEF StoreInv, OnlyReads
<1>5. QED
  BY <1>2, <1>3, <1>4 DEF Fields

LEMMA Spells ==
  ASSUME NEW s, s.text \in {"pending", "latest", "earliest", "number"}, s.n \in 0 .. 2 * SignBit - 1
  PROVE  stringToBlockNumber(s) \in BlockNumbers
<1>1. SignBit \in Nat
  BY AskedAssumption
<1>2. BlockNumber(s.n) \in -SignBit .. SignBit - 1
  BY <1>1 DEF BlockNumber
<1>3. QED
  BY <1>2 DEF stringToBlockNumber, BlockNumbers

LEMMA CheckedAnswer ==
  ASSUME NEW q, NEW pc, NEW a, Checked(q, pc, a), StoreInv, OnlyReads,
         Begin(q, pc, a) => Running(reader)'
  PROVE  ReaderInv' /\ AnswerInv'
<1>1. CASE Begin(q, pc, a)
  BY Zenon, <1>1, BeginShape DEF ReaderInv
<1>2. CASE Answered(Failed)
  <2>1. Failed.kind \notin {"receipt", "state", "logs", "gas"}
    BY DEF Failed
  <2>2. QED
    BY Zenon, <1>2, <2>1, PlainAnswer
<1>3. QED
  BY Zenon, <1>1, <1>2 DEF Checked

LEMMA AskInv ==
  ASSUME NEW q \in Asked, StoreInv, Ask(q)
  PROVE  ReaderInv' /\ AnswerInv'
<1>1. OnlyReads
  BY DEF Ask
<1>2. CASE q.kind \in {"tx", "receipt"}
  <2>1. Begin(q, "lookup", q)
    BY Zenon, <1>2 DEF Ask
  <2>2. /\ AnswerInv' /\ DOMAIN reader' = Fields /\ reader'.pc = "lookup"
        /\ reader'.asked \in Nat /\ reader'.asked <= latest'
    BY Zenon, <1>1, <2>1, BeginShape
  <2>3. QED
    BY <2>2 DEF ReaderInv, Running
<1>3. CASE q.kind = "block"
  <2>1. Begin(q, "block", stringToBlockNumber(q.at))
    BY <1>3 DEF Ask
  <2>2. /\ AnswerInv' /\ DOMAIN reader' = Fields /\ reader'.pc = "block"
        /\ reader'.asked \in Nat /\ reader'.asked <= latest'
    BY Zenon, <1>1, <2>1, BeginShape
  <2>3. QED
    BY <2>2 DEF ReaderInv, Running
<1>4. CASE q.kind = "state"
  <2> DEFINE a == DecodeWhere(q.at)
  <2>1. Checked(q, "header", a)
    BY <1>4 DEF Ask
  <2>2. DOMAIN a = {"ok", "number", "hash"} /\ (a.hash # Missing => a.number = 0)
    <3>1. q.at.form \in {"absent", "number", "hash", "both", "neither"}
      BY Zenon, <1>4, AskedAssumption
    <3>2. QED
      BY <3>1 DEF DecodeWhere
  <2> HIDE DEF a
  <2>3. ASSUME Begin(q, "header", a) PROVE Running(reader)'
    <3>1. /\ DOMAIN reader' = Fields /\ reader'.pc = "header" /\ reader'.arg = a
          /\ reader'.asked \in Nat /\ reader'.asked <= latest'
      BY Zenon, <1>1, <2>3, BeginShape
    <3>2. QED
      BY <2>2, <3>1 DEF Running
  <2>4. QED
    BY Zenon, <1>1, <2>1, <2>3, CheckedAnswer
<1>5. CASE q.kind = "logs"
  <2> DEFINE a == LogFilter(q)
  <2>1. Checked(q, "range", a)
    BY <1>5 DEF Ask
  <2>2. a.from \in BlockNumbers /\ a.to \in BlockNumbers
    <3>1. q.from \in Spelled /\ q.to \in Spelled
      BY Zenon, <1>5, AskedAssumption
    <3>2. stringToBlockNumber(q.from) \in BlockNumbers /\ stringToBlockNumber(q.to) \in BlockNumbers
      BY <3>1, Spells DEF Spelled
    <3>3. a.from = stringToBlockNumber(q.from) /\ a.to = stringToBlockNumber(q.to)
      BY DEF LogFilter
    <3>4. QED
      BY Zenon, <3>2, <3>3
  <2> HIDE DEF a
  <2>3. ASSUME Begin(q, "range", a) PROVE Running(reader)'
    <3>1. /\ DOMAIN reader' = Fields /\ reader'.pc = "range" /\ reader'.arg = a
          /\ reader'.logs = <<>> /\ reader'.tx = 0 /\ reader'.log = 0
          /\ reader'.asked \in Nat /\ reader'.asked <= latest'
      BY Zenon, <1>1, <2>3, BeginShape
    <3>2. QED
      BY <2>2, <3>1 DEF Running
  <2>4. QED
    BY Zenon, <1>1, <2>1, <2>3, CheckedAnswer
<1>6. CASE q.kind = "gas"
  <2> DEFINE a == q.at
  <2>1. Checked(q, "decode", a)
    BY <1>6 DEF Ask
  <2>2. Estimated(a)
    BY Zenon, <1>6, AskedAssumption
  <2> HIDE DEF a
  <2>3. ASSUME Begin(q, "decode", a) PROVE Running(reader)'
    <3>1. /\ DOMAIN reader' = Fields /\ reader'.pc = "decode" /\ reader'.arg = a
          /\ reader'.asked \in Nat /\ reader'.asked <= latest'
      BY Zenon, <1>1, <2>3, BeginShape
    <3>2. QED
      BY <2>2, <3>1 DEF Running
  <2>4. QED
    BY Zenon, <1>1, <2>1, <2>3, CheckedAnswer
<1>7. QED
  BY Zenon, <1>2, <1>3, <1>4, <1>5, <1>6, AskedAssumption

-----------------------------------------------------------------------------
(* Transactions, receipts, blocks and states *)

\* A step of a query that has not ended reads the store and leaves it.
LEMMA ReaderRuns ==
  ASSUME StoreInv, ReaderInv, reader.pc # "idle", OnlyReads
  PROVE  /\ Running(reader) /\ DOMAIN reader = Fields
         /\ latest' = latest /\ db' = db /\ latest \in Nat
         /\ reader.asked \in Nat /\ reader.asked <= latest
BY DEF ReaderInv, Running, OnlyReads, StoreInv

LEMMA LookupInv == StoreInv /\ ReaderInv /\ Lookup => ReaderInv' /\ AnswerInv'
<1> SUFFICES ASSUME StoreInv, ReaderInv, Lookup PROVE ReaderInv' /\ AnswerInv'
  OBVIOUS
<1> DEFINE h == ReadTxLookup(reader.arg.tx)
<1>1. DOMAIN reader = Fields /\ latest' = latest /\ reader.asked \in Nat /\ reader.asked <= latest
  <2>1. reader.pc # "idle" /\ OnlyReads
    BY DEF Lookup
  <2>2. QED
    BY Zenon, <2>1, ReaderRuns
<1>2. \/ Goto("txblock", [reader EXCEPT !.blk = h]) \/ Goto("pool", reader) \/ Answered(Nil)
  BY Zenon DEF Lookup
<1>3. CASE Goto("txblock", [reader EXCEPT !.blk = h])
  <2> DEFINE r == [reader EXCEPT !.blk = h]
  <2>1. DOMAIN r = Fields /\ r.asked = reader.asked
    BY <1>1 DEF Fields
  <2> HIDE DEF r, h
  <2>2. Goto("txblock", r)
    BY Zenon, <1>3 DEF r
  <2>3. QED
    BY <1>1, <2>1, <2>2, PlainGoto
<1>4. CASE Goto("pool", reader)
  BY <1>1, <1>4, PlainGoto
<1>5. CASE Answered(Nil)
  BY <1>5, PlainAnswer DEF Nil
<1>6. QED
  BY Zenon, <1>2, <1>3, <1>4, <1>5

LEMMA TxBlockInv == StoreInv /\ ReaderInv /\ TxBlock => ReaderInv' /\ AnswerInv'
<1> SUFFICES ASSUME StoreInv, ReaderInv, TxBlock PROVE ReaderInv' /\ AnswerInv'
  OBVIOUS
<1> DEFINE a == [kind |-> "tx", block |-> reader.blk, i |-> IndexIn(reader.arg.tx, reader.blk)]
<1>1. DOMAIN reader = Fields /\ latest' = latest /\ reader.asked \in Nat /\ reader.asked <= latest
  <2>1. reader.pc # "idle" /\ OnlyReads
    BY DEF TxBlock
  <2>2. QED
    BY Zenon, <2>1, ReaderRuns
<1>2. Answered(a) \/ Goto("receipts", reader) \/ Goto("pool", reader) \/ Answered(Nil)
  BY Zenon DEF TxBlock
<1>3. a.kind = "tx"
  OBVIOUS
<1> HIDE DEF a
<1>4. CASE Answered(a)
  BY <1>3, <1>4, PlainAnswer
<1>5. CASE Goto("receipts", reader) \/ Goto("pool", reader)
  BY <1>1, <1>5, PlainGoto
<1>6. CASE Answered(Nil)
  BY <1>6, PlainAnswer DEF Nil
<1>7. QED
  BY Zenon, <1>2, <1>4, <1>5, <1>6

LEMMA PoolInv == findPendingTx => ReaderInv' /\ AnswerInv'
BY PlainAnswer DEF findPendingTx, Nil

LEMMA ReceiptInv == GetTransactionReceipt => ReaderInv' /\ AnswerInv'
<1> SUFFICES ASSUME GetTransactionReceipt PROVE ReaderInv' /\ AnswerInv'
  OBVIOUS
<1> DEFINE a == [kind |-> "receipt", block |-> reader.blk, i |-> IndexIn(reader.arg.tx, reader.blk)]
<1>1. /\ db' = db
      /\ IF reader.blk \in db.receipts THEN Answered(a) ELSE Answered(Nil)
  BY Zenon DEF GetTransactionReceipt, OnlyReads
<1>2. a.kind = "receipt" /\ a.block = reader.blk
  OBVIOUS
<1> HIDE DEF a
<1>3. CASE reader.blk \in db.receipts /\ Answered(a)
  <2>1. ReaderInv' /\ answer' = a
    BY Zenon, <1>3, AnsweredReader
  <2>2. QED
    BY <1>1, <1>2, <1>3, <2>1 DEF AnswerInv, LogsExact, EstimateLeast
<1>4. CASE Answered(Nil)
  BY <1>4, PlainAnswer DEF Nil
<1>5. QED
  BY Zenon, <1>1, <1>3, <1>4

LEMMA BlockInv == EthGetBlockByNumber => ReaderInv' /\ AnswerInv'
<1> SUFFICES ASSUME EthGetBlockByNumber PROVE ReaderInv' /\ AnswerInv'
  OBVIOUS
<1>1. PICK n : \/ Answered(Failed) \/ Answered([kind |-> "block", block |-> n]) \/ Answered(Nil)
  BY Zenon DEF EthGetBlockByNumber
<1>2. QED
  BY <1>1, PlainAnswer DEF Nil, Failed

LEMMA HeaderInv == StoreInv /\ ReaderInv /\ StateHeader => ReaderInv' /\ AnswerInv'
<1> SUFFICES ASSUME StoreInv, ReaderInv, StateHeader PROVE ReaderInv' /\ AnswerInv'
  OBVIOUS
<1> DEFINE h == getHeaderFromBlockNumberOrHash(reader.arg)
<1> DEFINE r == [reader EXCEPT !.arg.number = h, !.arg.hash = Missing]
<1> DEFINE a == [kind |-> "state", block |-> h, asked |-> reader.asked,
                 last |-> reader.arg.number = LatestBlockNumber]
<1>1. reader.pc = "header" /\ OnlyReads
  BY DEF StateHeader
<1>2. /\ DOMAIN reader = Fields /\ latest' = latest /\ reader.asked \in Nat /\ reader.asked <= latest
      /\ latest \in Nat /\ db' = db /\ Running(reader)
  BY Zenon, <1>1, ReaderRuns
<1>3. DOMAIN reader.arg = {"ok", "number", "hash"} /\ (reader.arg.hash # Missing => reader.arg.number = 0)
  BY Zenon, <1>1, <1>2 DEF Running
<1>4. \/ Goto("header", r) \/ Answered([kind |-> "pool"]) \/ Answered(Failed) \/ Answered(a)
  BY Zenon DEF StateHeader
<1>5. CASE Goto("header", r)
  <2>1. /\ DOMAIN r = Fields /\ r.asked = reader.asked
        /\ DOMAIN r.arg = {"ok", "number", "hash"} /\ r.arg.hash = Missing
    BY Zenon, <1>2, <1>3 DEF Fields
  <2> HIDE DEF r, h
  <2>2. /\ DOMAIN reader' = Fields /\ reader'.pc = "header" /\ reader'.asked = reader.asked
        /\ DOMAIN reader'.arg = {"ok", "number", "hash"} /\ reader'.arg.hash = Missing
    BY <1>2, <1>5, <2>1 DEF Goto, Fields
  <2>3. Running(reader)'
    BY <1>2, <2>2 DEF Running
  <2>4. QED
    BY Zenon, <1>5, <2>3, GotoAnswer DEF ReaderInv
<1>6. CASE Answered([kind |-> "pool"])
  BY <1>6, PlainAnswer
<1>7. CASE Answered(Failed)
  BY <1>7, PlainAnswer DEF Failed
<1>8. CASE Answered(a)
  <2>1. a.last => a.block >= a.asked
    <3>1. SUFFICES ASSUME reader.arg.number = LatestBlockNumber PROVE h >= reader.asked
      BY Zenon
    <3>2. reader.arg.hash = Missing
      BY <1>3, <3>1 DEF LatestBlockNumber
    <3>3. h = latest
      BY <3>1, <3>2 DEF getHeaderFromBlockNumberOrHash, getBlockHeader, LatestBlockNumber,
                        EarliestBlockNumber, PendingBlockNumber
    <3>4. QED
      BY <1>2, <3>3
  <2>2. a.kind = "state"
    OBVIOUS
  <2>3. ReaderInv' /\ answer' = a
    BY Zenon, <1>8, AnsweredReader
  <2> HIDE DEF a, h
  <2>4. QED
    BY <2>1, <2>2, <2>3 DEF AnswerInv, LogsExact, EstimateLeast
<1>9. QED
  BY Zenon, <1>4, <1>5, <1>6, <1>7, <1>8

-----------------------------------------------------------------------------
(* GetLogs *)

LEMMA Resolved == ASSUME StoreInv, NEW n \in BlockNumbers PROVE resolveNum(n) \in Nat
<1>1. SignBit \in Nat /\ latest \in Nat
  BY AskedAssumption DEF StoreInv
<1>2. CASE n \in {PendingBlockNumber, LatestBlockNumber, EarliestBlockNumber}
  BY <1>1, <1>2 DEF resolveNum, PendingBlockNumber, LatestBlockNumber, EarliestBlockNumber
<1>3. CASE n \notin {PendingBlockNumber, LatestBlockNumber, EarliestBlockNumber}
  <2>1. n \in -SignBit .. SignBit - 1
    BY <1>3 DEF BlockNumbers
  <2>2. Unsigned(n) \in Nat
    BY <1>1, <2>1 DEF Unsigned
  <2>3. QED
    BY <1>3, <2>2 DEF resolveNum
<1>4. QED
  BY <1>2, <1>3

LEMMA LogsGoto ==
  ASSUME NEW pc \in {"logblock", "logreceipts", "parse"}, NEW r, Goto(pc, r), DOMAIN r = Fields,
         r.asked \in Nat, r.asked <= latest, latest' = latest, LogsInv(reader)'
  PROVE  ReaderInv' /\ AnswerInv'
<1>1. DOMAIN reader' = Fields /\ reader'.pc = pc /\ reader'.asked = r.asked
  BY DEF Goto, Fields
<1>2. Running(reader)'
  BY <1>1 DEF Running
<1>3. QED
  BY Zenon, <1>2, GotoAnswer DEF ReaderInv

\* A log that was found is of a block of the chain.
LEMMA SeenOnChain ==
  ASSUME StoreInv, NEW r, LogsInv(r), NEW p \in Seen(r)
  PROVE  p[1] <= latest
<1>1. p \in LogsOf(r.arg, r.lo, r.hi) /\ Before(p, Here(r))
  BY Zenon DEF Seen
<1>2. /\ p[1] \in Numbers /\ p[2] \in DOMAIN BlockTxs[p[1]] /\ r.lo <= p[1]
      /\ p[1] \in Nat /\ p[2] \in Nat \ {0} /\ p[3] \in Nat \ {0}
  BY Zenon, <1>1, Places
<1>3. /\ latest \in Nat /\ r.blk \in Nat /\ r.tx \in Nat /\ r.log \in Nat
      /\ r.pc # "parse" => r.tx = 0 /\ r.log = 0
      /\ r.pc = "parse" => r.blk <= latest
      /\ r.lo <= p[1] /\ p[1] < r.blk /\ latest < p[1] => BlockTxs[p[1]] = <<>>
  BY Zenon, <1>2 DEF StoreInv, LogsInv
<1>4. BlockTxs[p[1]] # <<>>
  BY <1>2
<1>5. p[1] < r.blk \/ (p[1] = r.blk /\ r.tx # 0)
  <2>1. Here(r)[1] = r.blk /\ Here(r)[2] = r.tx
    BY DEF Here
  <2>2. QED
    BY <1>1, <1>2, <1>3, <2>1 DEF Before
<1>6. QED
  BY <1>2, <1>3, <1>4, <1>5

\* GetLogs may answer when it has passed all logs of the blocks of the chain.
LEMMA LogsEnd ==
  ASSUME StoreInv, NEW r, LogsInv(r), r.asked \in Nat, r.asked <= latest, OnlyReads,
         \A p \in LogsOf(r.arg, r.lo, r.hi) : p[1] <= latest => Before(p, Here(r)),
         Answered(LogsAnswer(r))
  PROVE  ReaderInv' /\ AnswerInv'
<1> DEFINE a == LogsAnswer(r)
<1> DEFINE last == Lesser(r.hi, latest)
<1>1. /\ a.kind = "logs" /\ a.logs = r.logs /\ a.f = r.arg /\ a.lo = r.lo /\ a.hi = r.hi /\ a.asked = r.asked
  BY DEF LogsAnswer
<1>2. ReaderInv' /\ answer' = a /\ latest' = latest
  BY Zenon, AnsweredReader DEF OnlyReads
<1> HIDE DEF a
<1>3. /\ r.lo \in Nat /\ r.hi \in Nat /\ r.logs \in Seq(Nat \X Nat \X Nat)
      /\ \A k, l \in 1 .. Len(r.logs) : k < l => Before(r.logs[k], r.logs[l])
      /\ Range(r.logs) = Seen(r) /\ latest \in Nat
  BY Zenon DEF LogsInv, StoreInv
<1>4. /\ last \in Int /\ last <= r.hi /\ last <= latest
      /\ last \in Lesser(r.hi, r.asked) .. Lesser(r.hi, latest)
      /\ \A m \in Nat : m <= r.hi /\ m <= latest => m <= last
  BY <1>3 DEF Lesser
<1> HIDE DEF last
<1>5. Range(r.logs) = LogsOf(r.arg, r.lo, last)
  <2>1. ASSUME NEW p \in LogsOf(r.arg, r.lo, last) PROVE p \in Seen(r)
    <3>1. p \in LogsOf(r.arg, r.lo, r.hi) /\ p[1] <= last
      BY <1>3, <1>4, Narrow
    <3>2. p[1] \in Nat
      BY Zenon, <3>1, Places
    <3>3. p[1] <= latest
      BY <1>3, <1>4, <3>1, <3>2
    <3>4. QED
      BY Zenon, <3>1, <3>3 DEF Seen
  <2>2. ASSUME NEW p \in Seen(r) PROVE p \in LogsOf(r.arg, r.lo, last)
    <3>1. p \in LogsOf(r.arg, r.lo, r.hi)
      BY Zenon DEF Seen
    <3>2. p[1] \in Nat /\ p[1] <= r.hi
      BY Zenon, <3>1, Places
    <3>3. p[1] <= latest
      BY Zenon, SeenOnChain
    <3>4. p[1] <= last
      BY Zenon, <1>4, <3>2, <3>3
    <3>5. QED
      BY <1>3, <1>4, <3>1, <3>4, Narrow
  <2>3. QED
    BY Zenon, <1>3, <2>1, <2>2
<1>6. LogsExact'
  <2>1. DOMAIN answer'.logs = 1 .. Len(r.logs)
    BY <1>1, <1>2, <1>3
  <2>2. last \in Lesser(answer'.hi, answer'.asked) .. Lesser(answer'.hi, latest')
    BY Zenon, <1>1, <1>2, <1>4 DEF Lesser
  <2>3. Range(answer'.logs) = LogsOf(answer'.f, answer'.lo, last)
    BY Zenon, <1>1, <1>2, <1>5
  <2>4. \A k, l \in DOMAIN answer'.logs : k < l => Before(answer'.logs[k], answer'.logs[l])
    BY Zenon, <1>1, <1>2, <1>3, <2>1
  <2>5. QED
    BY Zenon, <2>2, <2>3, <2>4 DEF LogsExact
<1>7. QED
  BY <1>1, <1>2, <1>3, <1>6 DEF AnswerInv, EstimateLeast

\* What is before the place of a block's beginning.
LEMMA BeforeBlock ==
  ASSUME NEW f, NEW lo, NEW hi, NEW p \in LogsOf(f, lo, hi), NEW b \in Nat
  PROVE  Before(p, <<b, 0, 0>>) <=> p[1] < b
<1>1. p[1] \in Nat /\ p[2] \in Nat \ {0} /\ p[3] \in Nat \ {0}
  BY Zenon, Places
<1>2. QED
  BY <1>1 DEF Before

LEMMA LogRangeInv == StoreInv /\ ReaderInv /\ LogRange => ReaderInv' /\ AnswerInv'
<1> SUFFICES ASSUME StoreInv, ReaderInv, LogRange PROVE ReaderInv' /\ AnswerInv'
  OBVIOUS
<1> DEFINE h == reader.arg.hash
<1> DEFINE from == resolveNum(reader.arg.from)
<1> DEFINE to == resolveNum(reader.arg.to)
<1>1. reader.pc = "range" /\ OnlyReads
  BY DEF LogRange
<1>2. /\ DOMAIN reader = Fields /\ latest' = latest /\ reader.asked \in Nat /\ reader.asked <= latest
      /\ latest \in Nat /\ db' = db /\ Running(reader)
  BY Zenon, <1>1, ReaderRuns
<1>3. /\ reader.logs = <<>> /\ reader.tx = 0 /\ reader.log = 0
      /\ reader.arg.from \in BlockNumbers /\ reader.arg.to \in BlockNumbers
  BY Zenon, <1>1, <1>2 DEF Running
<1>4. from \in Nat /\ to \in Nat
  BY Zenon, <1>3, Resolved
<1> HIDE DEF from, to
<1>5. \/ Answered(Failed)
      \/ /\ h # Missing /\ h \in Numbers /\ BlockTxs[h] = <<>>
         /\ Answered(LogsAnswer([reader EXCEPT !.lo = h, !.hi = h]))
      \/ h # Missing /\ h \in Numbers /\ Goto("logreceipts", [reader EXCEPT !.blk = h, !.lo = h, !.hi = h])
      \/ h = Missing /\ ~(to < from) /\ Goto("logblock", [reader EXCEPT !.blk = from, !.lo = from, !.hi = to])
  <2>1. GetBlockByHash(h, TRUE) => h \in Numbers
    BY Zenon DEF GetBlockByHash, StoreInv
  <2>2. QED
    BY Zenon, <2>1 DEF LogRange, from, to
<1>6. CASE Answered(Failed)
  BY <1>6, PlainAnswer DEF Failed
<1>7. CASE /\ h # Missing /\ h \in Numbers /\ BlockTxs[h] = <<>>
           /\ Answered(LogsAnswer([reader EXCEPT !.lo = h, !.hi = h]))
  <2> DEFINE a == LogsAnswer([reader EXCEPT !.lo = h, !.hi = h])
  <2>1. /\ a.kind = "logs" /\ a.logs = <<>> /\ a.f = reader.arg
        /\ a.lo = h /\ a.hi = h /\ a.asked = reader.asked
    BY <1>2, <1>3 DEF LogsAnswer, Fields
  <2>2. ReaderInv' /\ answer' = a
    BY Zenon, <1>7, AnsweredReader
  <2> HIDE DEF a
  <2>3. h \in Nat
    BY <1>7, ChainNumbers
  <2> DEFINE last == Lesser(h, latest)
  <2>4. last \in Lesser(h, reader.asked) .. Lesser(h, latest) /\ last \in Int /\ last <= h
    BY <1>2, <2>3 DEF Lesser
  <2> HIDE DEF last
  <2>5. LogsOf(reader.arg, h, last) = {}
    <3>1. SUFFICES ASSUME NEW p \in LogsOf(reader.arg, h, last) PROVE FALSE
      BY Zenon
    <3>2. p[1] \in Nat /\ h <= p[1] /\ p[1] <= last /\ p[2] \in DOMAIN BlockTxs[p[1]]
      BY Zenon, Places
    <3>3. p[1] = h
      BY <2>3, <2>4, <3>2
    <3>4. QED
      BY <1>7, <3>2, <3>3
  <2>6. Range(answer'.logs) = {} /\ DOMAIN answer'.logs = {}
    BY <2>1, <2>2 DEF Range
  <2>7. LogsExact'
    <3>1. last \in Lesser(answer'.hi, answer'.asked) .. Lesser(answer'.hi, latest')
      BY Zenon, <1>2, <2>1, <2>2, <2>4
    <3>2. Range(answer'.logs) = LogsOf(answer'.f, answer'.lo, last)
      BY Zenon, <2>1, <2>2, <2>5, <2>6
    <3>3. \A k, l \in DOMAIN answer'.logs : k < l => Before(answer'.logs[k], answer'.logs[l])
      BY Zenon, <2>6
    <3>4. QED
      BY Zenon, <3>1, <3>2, <3>3 DEF LogsExact
  <2>8. QED
    BY <1>2, <2>1, <2>2, <2>3, <2>7 DEF AnswerInv, EstimateLeast
<1>8. CASE h # Missing /\ h \in Numbers /\ Goto("logreceipts", [reader EXCEPT !.blk = h, !.lo = h, !.hi = h])
  <2> DEFINE r == [reader EXCEPT !.blk = h, !.lo = h, !.hi = h]
  <2>1. DOMAIN r = Fields /\ r.asked = reader.asked
    BY <1>2 DEF Fields
  <2>2. /\ reader'.pc = "logreceipts" /\ reader'.arg = reader.arg /\ reader'.logs = <<>>
        /\ reader'.blk = h /\ reader'.lo = h /\ reader'.hi = h /\ reader'.tx = 0 /\ reader'.log = 0
    BY <1>2, <1>3, <1>8 DEF Goto, Fields
  <2> HIDE DEF r
  <2>3. h \in Nat
    BY <1>8, ChainNumbers
  <2>4. Seen(reader)' = {}
    <3>1. SUFFICES ASSUME NEW p \in LogsOf(reader.arg, h, h) PROVE ~Before(p, <<h, 0, 0>>)
      BY Zenon, <2>2 DEF Seen, Here
    <3>2. p[1] \in Nat /\ h <= p[1]
      BY Zenon, Places
    <3>3. QED
      BY <2>3, <3>2, BeforeBlock
  <2>5. Range(reader'.logs) = {} /\ reader'.logs \in Seq(Nat \X Nat \X Nat) /\ Len(reader'.logs) = 0
    BY <2>2 DEF Range
  <2>6. \A n \in Numbers : ~(h <= n /\ n < h)
    BY <2>3, ChainNumbers
  <2>7. LogsInv(reader)'
    BY <1>8, <2>2, <2>3, <2>4, <2>5, <2>6 DEF LogsInv
  <2>8. QED
    BY Zenon, <1>2, <1>8, <2>1, <2>7, LogsGoto DEF r
<1>9. CASE /\ h = Missing /\ ~(to < from)
           /\ Goto("logblock", [reader EXCEPT !.blk = from, !.lo = from, !.hi = to])
  <2> DEFINE r == [reader EXCEPT !.blk = from, !.lo = from, !.hi = to]
  <2>1. DOMAIN r = Fields /\ r.asked = reader.asked
    BY <1>2 DEF Fields
  <2>2. /\ reader'.pc = "logblock" /\ reader'.arg = reader.arg /\ reader'.logs = <<>>
        /\ reader'.blk = from /\ reader'.lo = from /\ reader'.hi = to /\ reader'.tx = 0 /\ reader'.log = 0
    BY <1>2, <1>3, <1>9 DEF Goto, Fields
  <2> HIDE DEF r
  <2>4. Seen(reader)' = {}
    <3>1. SUFFICES ASSUME NEW p \in LogsOf(reader.arg, from, to) PROVE ~Before(p, <<from, 0, 0>>)
      BY Zenon, <2>2 DEF Seen, Here
    <3>2. p[1] \in Nat /\ from <= p[1]
      BY Zenon, Places
    <3>3. QED
      BY <1>4, <3>2, BeforeBlock
  <2>5. Range(reader'.logs) = {} /\ reader'.logs \in Seq(Nat \X Nat \X Nat) /\ Len(reader'.logs) = 0
    BY <2>2 DEF Range
  <2>6. \A n \in Numbers : ~(from <= n /\ n < from)
    BY <1>4, ChainNumbers
  <2>7. LogsInv(reader)'
    BY <1>4, <1>9, <2>2, <2>4, <2>5, <2>6 DEF LogsInv
  <2>8. QED
    BY Zenon, <1>2, <1>9, <2>1, <2>7, LogsGoto DEF r
<1>10. QED
  BY Zenon, <1>5, <1>6, <1>7, <1>8, <1>9

\* The place moves and passes no log.
LEMMA SeenSame ==
  ASSUME NEW r, NEW s, s.arg = r.arg, s.lo = r.lo, s.hi = r.hi,
         \A p \in LogsOf(r.arg, r.lo, r.hi) : Before(p, Here(s)) <=> Before(p, Here(r))
  PROVE  Seen(s) = Seen(r)
BY Zenon DEF Seen

LEMMA LogBlockInv == StoreInv /\ ReaderInv /\ LogBlock => ReaderInv' /\ AnswerInv'
<1> SUFFICES ASSUME StoreInv, ReaderInv, LogBlock PROVE ReaderInv' /\ AnswerInv'
  OBVIOUS
<1> DEFINE b == reader.blk
<1>1. reader.pc = "logblock" /\ OnlyReads
  BY DEF LogBlock
<1>2. /\ DOMAIN reader = Fields /\ latest' = latest /\ reader.asked \in Nat /\ reader.asked <= latest
      /\ latest \in Nat /\ db' = db /\ Running(reader)
  BY Zenon, <1>1, ReaderRuns
<1>3. LogsInv(reader)
  BY <1>1, <1>2 DEF Running
<1>4. /\ b \in Nat /\ reader.lo \in Nat /\ reader.hi \in Nat /\ reader.lo <= b
      /\ reader.tx = 0 /\ reader.log = 0 /\ reader.arg.hash = Missing
  BY <1>1, <1>3 DEF LogsInv
<1>5. \A p \in LogsOf(reader.arg, reader.lo, reader.hi) :
        p[1] \in Nat /\ p[1] <= reader.hi /\ (Before(p, Here(reader)) <=> p[1] < b)
  <2>1. Here(reader) = <<b, 0, 0>>
    BY Zenon, <1>4 DEF Here
  <2>2. SUFFICES ASSUME NEW p \in LogsOf(reader.arg, reader.lo, reader.hi)
                 PROVE  p[1] \in Nat /\ p[1] <= reader.hi /\ (Before(p, Here(reader)) <=> p[1] < b)
    BY Zenon
  <2>3. p[1] \in Nat /\ p[1] <= reader.hi
    BY Zenon, Places
  <2>4. Before(p, <<b, 0, 0>>) <=> p[1] < b
    BY Zenon, <1>4, BeforeBlock
  <2>5. QED
    BY Zenon, <2>1, <2>3, <2>4
<1>6. CASE (b > reader.hi \/ ~GetBlockByNumber(b)) /\ Answered(LogsAnswer(reader))
  <2>1. b > reader.hi \/ b > latest
    <3>1. SUFFICES ASSUME ~GetBlockByNumber(b), b <= latest PROVE FALSE
      BY <1>2, <1>4, <1>6
    <3>2. b \in db.canonical
      BY <1>2, <1>4, <3>1 DEF StoreInv
    <3>3. b \in db.headers /\ (b # 0 => b \in db.bodies) /\ b # Missing
      BY <1>4, <3>2 DEF StoreInv, Missing
    <3>4. QED
      BY Zenon, <3>1, <3>2, <3>3 DEF GetBlockByNumber, GetBlockByHash, ReadCanonicalHash
  <2>2. ASSUME NEW p \in LogsOf(reader.arg, reader.lo, reader.hi), p[1] <= latest
        PROVE  Before(p, Here(reader))
    <3>1. p[1] \in Nat /\ p[1] <= reader.hi /\ (Before(p, Here(reader)) <=> p[1] < b)
      BY Zenon, <1>5
    <3>2. p[1] < b
      BY <1>2, <1>4, <2>1, <2>2, <3>1
    <3>3. QED
      BY Zenon, <3>1, <3>2
  <2>3. QED
    BY Zenon, <1>1, <1>2, <1>3, <1>6, <2>2, LogsEnd
<1>7. CASE /\ b = 0 \/ BlockTxs[b] = <<>>
           /\ Goto("logblock", [reader EXCEPT !.blk = @ + 1])
  <2> DEFINE r == [reader EXCEPT !.blk = @ + 1]
  <2>1. DOMAIN r = Fields /\ r.asked = reader.asked
    BY <1>2 DEF Fields
  <2>2. /\ reader'.pc = "logblock" /\ reader'.arg = reader.arg /\ reader'.logs = reader.logs
        /\ reader'.blk = b + 1 /\ reader'.lo = reader.lo /\ reader'.hi = reader.hi
        /\ reader'.tx = 0 /\ reader'.log = 0
    BY <1>2, <1>4, <1>7 DEF Goto, Fields
  <2>3. b + 1 \in Nat /\ reader.lo <= b + 1
    BY <1>4
  <2>4. Here(reader') = <<b + 1, 0, 0>>
    BY Zenon, <2>2 DEF Here
  <2> HIDE DEF r, b
  <2>5. Seen(reader') = Seen(reader)
    <3>1. ASSUME NEW p \in LogsOf(reader.arg, reader.lo, reader.hi)
          PROVE  Before(p, Here(reader')) <=> Before(p, Here(reader))
      <4>1. p[1] \in Nat /\ (Before(p, Here(reader)) <=> p[1] < b)
        BY Zenon, <1>5
      <4>2. Before(p, Here(reader')) <=> p[1] < b + 1
        BY Zenon, <2>3, <2>4, BeforeBlock
      <4>3. p[1] # b
        <5>1. p[1] \in Numbers /\ p[2] \in DOMAIN BlockTxs[p[1]]
          BY Zenon, Places
        <5>2. 0 \notin Numbers
          BY ChainNumbers
        <5>3. QED
          BY <1>7, <5>1, <5>2
      <4>4. QED
        BY <1>4, <4>1, <4>2, <4>3
    <3>2. QED
      BY Zenon, <2>2, <3>1, SeenSame
  <2>6. \A n \in Numbers : reader.lo <= n /\ n < b + 1 /\ latest < n => BlockTxs[n] = <<>>
    <3>1. SUFFICES ASSUME NEW n \in Numbers, reader.lo <= n, n < b + 1, latest < n PROVE BlockTxs[n] = <<>>
      BY Zenon
    <3>2. n < b \/ (n = b /\ b # 0)
      BY <1>4, <3>1, ChainNumbers
    <3>3. QED
      BY Zenon, <1>3, <1>7, <3>1, <3>2 DEF LogsInv, b
  <2>7. LogsInv(reader')
    BY Zenon, <1>3, <1>4, <2>2, <2>3, <2>5, <2>6 DEF LogsInv
  <2>8. LogsInv(reader)'
    BY Zenon, <1>2, <2>7 DEF LogsInv
  <2>9. QED
    BY Zenon, <1>2, <1>7, <2>1, <2>8, LogsGoto DEF r
<1>8. CASE /\ ~(b > reader.hi) /\ GetBlockByNumber(b) /\ b # 0
           /\ Goto("logreceipts", reader)
  <2>1. /\ reader'.pc = "logreceipts" /\ reader'.arg = reader.arg /\ reader'.logs = reader.logs
        /\ reader'.blk = b /\ reader'.lo = reader.lo /\ reader'.hi = reader.hi
        /\ reader'.tx = 0 /\ reader'.log = 0
    BY <1>2, <1>4, <1>8 DEF Goto, Fields
  <2>2. b <= reader.hi /\ b \in Numbers
    BY <1>4, <1>8 DEF GetBlockByNumber, GetBlockByHash, StoreInv
  <2>3. Here(reader') = Here(reader)
    BY Zenon, <1>4, <2>1 DEF Here
  <2>4. Seen(reader') = Seen(reader)
    BY Zenon, <2>1, <2>3, SeenSame
  <2>5. reader'.pc # "parse" /\ reader'.pc # "logblock"
    BY <2>1
  <2>6. LogsInv(reader')
    BY Zenon, <1>3, <1>4, <2>1, <2>2, <2>4, <2>5 DEF LogsInv
  <2>7. LogsInv(reader)'
    BY Zenon, <1>2, <2>6 DEF LogsInv
  <2>8. QED
    BY <1>2, <1>8, <2>7, LogsGoto
<1>9. QED
  BY Zenon, <1>6, <1>7, <1>8 DEF LogBlock

LEMMA LogReceiptsInv == StoreInv /\ ReaderInv /\ LogReceipts => ReaderInv' /\ AnswerInv'
<1> SUFFICES ASSUME StoreInv, ReaderInv, LogReceipts PROVE ReaderInv' /\ AnswerInv'
  OBVIOUS
<1> DEFINE b == reader.blk
<1> DEFINE r == [reader EXCEPT !.tx = 1, !.log = 1]
<1>1. reader.pc = "logreceipts" /\ OnlyReads
  BY DEF LogReceipts
<1>2. /\ DOMAIN reader = Fields /\ latest' = latest /\ reader.asked \in Nat /\ reader.asked <= latest
      /\ latest \in Nat /\ db' = db /\ Running(reader)
  BY Zenon, <1>1, ReaderRuns
<1>3. LogsInv(reader)
  BY <1>1, <1>2 DEF Running
<1>4. /\ b \in Nat /\ reader.lo \in Nat /\ reader.hi \in Nat /\ reader.lo <= b
      /\ reader.tx = 0 /\ reader.log = 0 /\ b \in Numbers /\ b <= reader.hi
  BY <1>1, <1>3 DEF LogsInv
<1>5. CASE Answered(Failed)
  BY <1>5, PlainAnswer DEF Failed
<1>6. CASE b \in db.receipts /\ Goto("parse", r)
  <2>1. DOMAIN r = Fields /\ r.asked = reader.asked
    BY <1>2 DEF Fields
  <2>2. /\ reader'.pc = "parse" /\ reader'.arg = reader.arg /\ reader'.logs = reader.logs
        /\ reader'.blk = b /\ reader'.lo = reader.lo /\ reader'.hi = reader.hi
        /\ reader'.tx = 1 /\ reader'.log = 1
    BY <1>2, <1>4, <1>6 DEF Goto, Fields
  <2>3. b <= latest
    BY <1>2, <1>6 DEF StoreInv
  <2>4. Here(reader') = <<b, 1, 1>> /\ Here(reader) = <<b, 0, 0>>
    BY Zenon, <1>4, <2>2 DEF Here
  <2> HIDE DEF r, b
  <2>5. Seen(reader') = Seen(reader)
    <3>1. ASSUME NEW p \in LogsOf(reader.arg, reader.lo, reader.hi)
          PROVE  Before(p, <<b, 1, 1>>) <=> Before(p, <<b, 0, 0>>)
      <4>1. p[1] \in Nat /\ p[2] \in Nat \ {0} /\ p[3] \in Nat \ {0}
        BY Zenon, Places
      <4>2. QED
        BY <1>4, <4>1 DEF Before
    <3>2. QED
      BY Zenon, <2>2, <2>4, <3>1, SeenSame
  <2>6. reader'.pc # "logblock" /\ 1 \in Nat /\ 1 >= 1
    BY <2>2
  <2>7. LogsInv(reader')
    BY Zenon, <1>1, <1>3, <1>4, <2>2, <2>3, <2>5, <2>6 DEF LogsInv, b
  <2>8. LogsInv(reader)'
    BY Zenon, <1>2, <2>7 DEF LogsInv
  <2>9. QED
    BY <1>2, <1>6, <2>1, <2>8, LogsGoto
<1>7. QED
  BY Zenon, <1>5, <1>6 DEF LogReceipts

LEMMA ParseInv == StoreInv /\ ReaderInv /\ parseReceipts => ReaderInv' /\ AnswerInv'
<1> SUFFICES ASSUME StoreInv, ReaderInv, parseReceipts PROVE ReaderInv' /\ AnswerInv'
  OBVIOUS
<1> DEFINE b == reader.blk
<1> DEFINE t == reader.tx
<1> DEFINE j == reader.log
<1> DEFINE All == LogsOf(reader.arg, reader.lo, reader.hi)
<1> DEFINE logs == TxLogs[BlockTxs[b][t]]
<1>1. reader.pc = "parse" /\ OnlyReads
  BY DEF parseReceipts
<1>2. /\ DOMAIN reader = Fields /\ latest' = latest /\ reader.asked \in Nat /\ reader.asked <= latest
      /\ latest \in Nat /\ db' = db /\ Running(reader)
  BY Zenon, <1>1, ReaderRuns
<1>3. LogsInv(reader)
  BY <1>1, <1>2 DEF Running
<1>4. /\ b \in Nat /\ t \in Nat /\ j \in Nat /\ reader.lo \in Nat /\ reader.hi \in Nat /\ reader.lo <= b
      /\ b \in Numbers /\ b <= reader.hi /\ b <= latest /\ t >= 1 /\ j >= 1
      /\ reader.arg.hash # Missing => reader.lo = reader.hi /\ b = reader.hi
      /\ Len(BlockTxs[b]) \in Nat /\ DOMAIN BlockTxs[b] = 1 .. Len(BlockTxs[b])
  BY <1>1, <1>3, ChainNumbers DEF LogsInv
<1>5. Here(reader) = <<b, t, j>>
  BY DEF Here
<1>6. \A p \in All : /\ p[1] \in Nat /\ p[2] \in Nat \ {0} /\ p[3] \in Nat \ {0}
                     /\ reader.lo <= p[1] /\ p[1] <= reader.hi
                     /\ p[2] \in DOMAIN BlockTxs[p[1]] /\ p[3] \in DOMAIN TxLogs[BlockTxs[p[1]][p[2]]]
                     /\ p = <<p[1], p[2], p[3]>>
  BY Zenon, Places
<1>7. \A n \in Numbers : reader.lo <= n /\ n < b /\ latest < n => BlockTxs[n] = <<>>
  BY Zenon, <1>3 DEF LogsInv
<1> HIDE DEF b, t, j, All, logs
<1>8. CASE t > Len(BlockTxs[b])
  <2>1. \A p \in All : p[1] <= b => Before(p, <<b, t, j>>)
    <3>1. SUFFICES ASSUME NEW p \in All, p[1] <= b PROVE Before(p, <<b, t, j>>)
      BY Zenon
    <3>2. p[1] \in Nat /\ p[2] \in Nat /\ p[2] \in DOMAIN BlockTxs[p[1]]
      BY Zenon, <1>6
    <3>3. p[1] = b => p[2] < t
      BY <1>4, <1>8, <3>2
    <3>4. QED
      BY <1>4, <3>1, <3>2, <3>3 DEF Before
  <2>2. CASE reader.arg.hash # Missing /\ Answered(LogsAnswer(reader))
    <3>1. ASSUME NEW p \in All, p[1] <= latest PROVE Before(p, Here(reader))
      <4>1. p[1] <= b
        BY Zenon, <1>4, <1>6, <2>2
      <4>2. QED
        BY Zenon, <1>5, <2>1, <4>1
    <3>2. QED
      BY Zenon, <1>1, <1>2, <1>3, <2>2, <3>1, LogsEnd DEF All
  <2>3. CASE /\ reader.arg.hash = Missing
             /\ Goto("logblock", [reader EXCEPT !.blk = @ + 1, !.tx = 0, !.log = 0])
    <3> DEFINE r == [reader EXCEPT !.blk = @ + 1, !.tx = 0, !.log = 0]
    <3>1. DOMAIN r = Fields /\ r.asked = reader.asked
      BY <1>2 DEF Fields
    <3>2. /\ reader'.pc = "logblock" /\ reader'.arg = reader.arg /\ reader'.logs = reader.logs
          /\ reader'.blk = b + 1 /\ reader'.lo = reader.lo /\ reader'.hi = reader.hi
          /\ reader'.tx = 0 /\ reader'.log = 0
      BY <1>2, <2>3 DEF Goto, Fields, b
    <3>3. b + 1 \in Nat /\ reader.lo <= b + 1 /\ 0 \in Nat /\ reader'.pc # "parse"
      BY <1>4, <3>2
    <3>4. Here(reader') = <<b + 1, 0, 0>>
      BY Zenon, <3>2 DEF Here
    <3> HIDE DEF r
    <3>5. Seen(reader') = Seen(reader)
      <4>1. ASSUME NEW p \in All PROVE Before(p, Here(reader')) <=> Before(p, Here(reader))
        <5>1. Before(p, Here(reader')) <=> p[1] < b + 1
          BY Zenon, <3>3, <3>4, BeforeBlock DEF All
        <5>2. p[1] \in Nat
          BY Zenon, <1>6
        <5>3. Before(p, <<b, t, j>>) => p[1] <= b
          BY <1>4, <5>2 DEF Before
        <5>4. p[1] < b + 1 <=> p[1] <= b
          BY <1>4, <5>2
        <5>5. QED
          BY Zenon, <1>5, <2>1, <5>1, <5>3, <5>4
      <4>2. QED
        BY Zenon, <3>2, <4>1, SeenSame DEF All
    <3>6. \A n \in Numbers : reader.lo <= n /\ n < b + 1 /\ latest < n => BlockTxs[n] = <<>>
      <4>1. \A n \in Numbers : n < b + 1 /\ latest < n => n < b
        BY <1>2, <1>4, ChainNumbers
      <4>2. QED
        BY Zenon, <1>7, <4>1
    <3>7. LogsInv(reader')
      BY Zenon, <1>3, <2>3, <3>2, <3>3, <3>5, <3>6 DEF LogsInv
    <3>8. LogsInv(reader)'
      BY Zenon, <1>2, <3>7 DEF LogsInv
    <3>9. QED
      BY Zenon, <1>2, <2>3, <3>1, <3>8, LogsGoto DEF r
  <2>4. QED
    BY Zenon, <1>8, <2>2, <2>3 DEF parseReceipts, b, t
<1>9. CASE ~(t > Len(BlockTxs[b]))
  <2>1. t \in DOMAIN BlockTxs[b]
    BY <1>4, <1>9
  <2>2. Len(logs) \in Nat /\ DOMAIN logs = 1 .. Len(logs)
    BY Zenon, <1>4, <2>1, LogNumbers DEF logs
  <2>3. CASE j > Len(logs) /\ Goto("parse", [reader EXCEPT !.tx = @ + 1, !.log = 1])
    <3> DEFINE r == [reader EXCEPT !.tx = @ + 1, !.log = 1]
    <3>1. DOMAIN r = Fields /\ r.asked = reader.asked
      BY <1>2 DEF Fields
    <3>2. /\ reader'.pc = "parse" /\ reader'.arg = reader.arg /\ reader'.logs = reader.logs
          /\ reader'.blk = b /\ reader'.lo = reader.lo /\ reader'.hi = reader.hi
          /\ reader'.tx = t + 1 /\ reader'.log = 1
      BY <1>2, <2>3 DEF Goto, Fields, b, t
    <3>3. t + 1 \in Nat /\ t + 1 >= 1 /\ 1 \in Nat /\ 1 >= 1 /\ reader'.pc # "logblock"
      BY <1>4, <3>2
    <3>4. Here(reader') = <<b, t + 1, 1>>
      BY Zenon, <3>2 DEF Here
    <3> HIDE DEF r
    <3>5. Seen(reader') = Seen(reader)
      <4>1. ASSUME NEW p \in All PROVE Before(p, <<b, t + 1, 1>>) <=> Before(p, <<b, t, j>>)
        <5>1. p[1] \in Nat /\ p[2] \in Nat \ {0} /\ p[3] \in Nat \ {0}
          BY Zenon, <1>6
        <5>2. p[1] = b /\ p[2] = t => p[3] < j
          <6>1. SUFFICES ASSUME p[1] = b, p[2] = t PROVE p[3] < j
            BY Zenon
          <6>2. p[3] \in DOMAIN logs
            BY Zenon, <1>6, <6>1 DEF logs
          <6>3. QED
            BY <1>4, <2>2, <2>3, <6>2
        <5>3. QED
          BY <1>4, <5>1, <5>2 DEF Before
      <4>2. QED
        BY Zenon, <1>5, <3>2, <3>4, <4>1, SeenSame DEF All
    <3>6. LogsInv(reader')
      BY Zenon, <1>3, <1>4, <1>7, <3>2, <3>3, <3>5 DEF LogsInv
    <3>7. LogsInv(reader)'
      BY Zenon, <1>2, <3>6 DEF LogsInv
    <3>8. QED
      BY Zenon, <1>2, <2>3, <3>1, <3>7, LogsGoto DEF r
  <2>4. CASE /\ ~(j > Len(logs))
             /\ Goto("parse", [reader EXCEPT
                  !.logs = IF Match(reader.arg, logs[j]) THEN Append(@, <<b, t, j>>) ELSE @, !.log = @ + 1])
    <3> DEFINE found == IF Match(reader.arg, logs[j]) THEN Append(reader.logs, <<b, t, j>>) ELSE reader.logs
    <3> DEFINE r == [reader EXCEPT !.logs = found, !.log = @ + 1]
    <3>1. Goto("parse", r)
      BY Zenon, <2>4
    <3> HIDE DEF found
    <3>2. DOMAIN r = Fields /\ r.asked = reader.asked
      BY <1>2 DEF Fields
    <3>3. /\ reader'.pc = "parse" /\ reader'.arg = reader.arg /\ reader'.logs = found
          /\ reader'.blk = b /\ reader'.lo = reader.lo /\ reader'.hi = reader.hi
          /\ reader'.tx = t /\ reader'.log = j + 1
      BY <1>2, <3>1 DEF Goto, Fields, b, t, j
    <3>4. j + 1 \in Nat /\ j + 1 >= 1 /\ reader'.pc # "logblock" /\ j \in DOMAIN logs
      BY <1>4, <2>2, <2>4, <3>3
    <3>5. Here(reader') = <<b, t, j + 1>>
      BY Zenon, <3>3 DEF Here
    <3> HIDE DEF r
    <3>6. <<b, t, j>> \in All <=> Match(reader.arg, logs[j])
      BY Zenon, <1>4, <2>1, <3>4, PlaceOf DEF All, logs
    <3>7. ASSUME NEW p
          PROVE  p \in Seen(reader') <=> p \in Seen(reader) \/ (Match(reader.arg, logs[j]) /\ p = <<b, t, j>>)
      <4>1. CASE p \in All
        <5>1. p[1] \in Nat /\ p[2] \in Nat /\ p[3] \in Nat /\ p = <<p[1], p[2], p[3]>>
          BY Zenon, <1>6, <4>1
        <5>2. Before(p, <<b, t, j + 1>>) <=> Before(p, <<b, t, j>>) \/ (p[1] = b /\ p[2] = t /\ p[3] = j)
          BY <1>4, <5>1 DEF Before
        <5>3. (p[1] = b /\ p[2] = t /\ p[3] = j) <=> p = <<b, t, j>>
          BY <5>1
        <5>4. QED
          BY Zenon, <1>5, <3>3, <3>5, <3>6, <4>1, <5>2, <5>3 DEF Seen, All
      <4>2. CASE p \notin All
        BY Zenon, <3>3, <3>6, <4>2 DEF Seen, All
      <4>3. QED
        BY <4>1, <4>2
    <3>8. /\ found \in Seq(Nat \X Nat \X Nat)
          /\ \A k, l \in 1 .. Len(found) : k < l => Before(found[k], found[l])
          /\ Range(found) = Seen(reader')
      <4>1. /\ reader.logs \in Seq(Nat \X Nat \X Nat) /\ Range(reader.logs) = Seen(reader)
            /\ \A k, l \in 1 .. Len(reader.logs) : k < l => Before(reader.logs[k], reader.logs[l])
        BY Zenon, <1>3 DEF LogsInv
      <4>2. CASE ~Match(reader.arg, logs[j])
        BY Zenon, <3>7, <4>1, <4>2 DEF found
      <4>3. CASE Match(reader.arg, logs[j])
        <5> DEFINE x == <<b, t, j>>
        <5> DEFINE S == Nat \X Nat \X Nat
        <5>1. found = Append(reader.logs, x) /\ x \in S
          BY <1>4, <4>3 DEF found
        <5>2. \A p : p \in Seen(reader) => Before(p, x)
          BY Zenon, <1>5 DEF Seen
        <5> HIDE DEF x, S
        <5>3. /\ found \in Seq(S) /\ Len(reader.logs) \in Nat /\ Len(found) = Len(reader.logs) + 1
              /\ \A i \in 1 .. Len(reader.logs) : found[i] = reader.logs[i]
              /\ found[Len(reader.logs) + 1] = x
              /\ Range(found) = Range(reader.logs) \cup {x}
          <6> DEFINE s == reader.logs
          <6>1. s \in Seq(S) /\ x \in S
            BY Zenon, <4>1, <5>1 DEF S
          <6> HIDE DEF s
          <6>2. /\ Append(s, x) \in Seq(S) /\ Len(s) \in Nat /\ Len(Append(s, x)) = Len(s) + 1
                /\ \A i \in 1 .. Len(s) : Append(s, x)[i] = s[i]
                /\ Append(s, x)[Len(s) + 1] = x
                /\ Range(Append(s, x)) = Range(s) \cup {x}
            BY <6>1, AppendSeq
          <6>3. QED
            BY Zenon, <5>1, <6>2 DEF s
        <5>4. Range(found) = Seen(reader')
          <6>1. \A p : p \in Seen(reader') <=> p \in Range(reader.logs) \/ p = x
            BY Zenon, <3>7, <4>1, <4>3 DEF x
          <6>2. QED
            BY Zenon, <5>3, <6>1
        <5>5. ASSUME NEW k \in 1 .. Len(found), NEW l \in 1 .. Len(found), k < l
              PROVE  Before(found[k], found[l])
          <6>1. k \in 1 .. Len(reader.logs) /\ (l \in 1 .. Len(reader.logs) \/ l = Len(reader.logs) + 1)
            BY <5>3, <5>5
          <6>2. CASE l \in 1 .. Len(reader.logs)
            BY Zenon, <4>1, <5>3, <5>5, <6>1, <6>2
          <6>3. CASE l = Len(reader.logs) + 1
            <7>1. reader.logs[k] \in Range(reader.logs)
              <8>1. DOMAIN reader.logs = 1 .. Len(reader.logs)
                BY <4>1
              <8>2. QED
                BY Zenon, <6>1, <8>1 DEF Range
            <7>2. QED
              BY Zenon, <4>1, <5>2, <5>3, <6>1, <6>3, <7>1
          <6>4. QED
            BY Zenon, <6>1, <6>2, <6>3
        <5>6. QED
          BY Zenon, <5>3, <5>4, <5>5 DEF S
      <4>4. QED
        BY <4>2, <4>3
    <3>9. LogsInv(reader')
      BY Zenon, <1>3, <1>4, <1>7, <3>3, <3>4, <3>8 DEF LogsInv
    <3>10. LogsInv(reader)'
      BY Zenon, <1>2, <3>9 DEF LogsInv
    <3>11. QED
      BY <1>2, <3>1, <3>2, <3>10, LogsGoto
  <2>5. QED
    BY Zenon, <1>9, <2>3, <2>4 DEF parseReceipts, b, t, j, logs
<1>10. QED
  BY <1>8, <1>9

-----------------------------------------------------------------------------
(* EstimateGas *)

LEMMA DecodeInv == StoreInv /\ ReaderInv /\ decodeTxn => ReaderInv' /\ AnswerInv'
<1> SUFFICES ASSUME StoreInv, ReaderInv, decodeTxn PROVE ReaderInv' /\ AnswerInv'
  OBVIOUS
<1> DEFINE r == [reader EXCEPT !.nonce = NonceOf(reader.arg, latest)]
<1>1. reader.pc = "decode" /\ OnlyReads /\ Goto("ends", r)
  BY DEF decodeTxn
<1>2. /\ DOMAIN reader = Fields /\ latest' = latest /\ reader.asked \in Nat /\ reader.asked <= latest
      /\ Running(reader)
  BY Zenon, <1>1, ReaderRuns
<1>3. /\ DOMAIN reader' = Fields /\ reader'.pc = "ends"
      /\ reader'.asked = reader.asked /\ reader'.arg = reader.arg
  BY <1>1, <1>2 DEF Goto, Fields
<1>4. Estimated(reader.arg)
  BY <1>1, <1>2 DEF Running
<1>5. Estimated(reader.arg)'
  BY Zenon, <1>3, <1>4 DEF Estimated
<1>6. Running(reader)'
  BY <1>2, <1>3, <1>5 DEF Running
<1>7. QED
  BY Zenon, <1>1, <1>6, GotoAnswer DEF ReaderInv

\* A header that getBlockHeader finds is of the chain.
LEMMA HeaderNumber ==
  ASSUME StoreInv, NEW n
  PROVE  getBlockHeader(n) = Missing \/ getBlockHeader(n) \in 0 .. Len(BlockTxs)
<1>1. latest \in 0 .. Len(BlockTxs) /\ 0 \in 0 .. Len(BlockTxs)
  BY DEF StoreInv
<1>2. db.canonical \subseteq 0 .. Len(BlockTxs)
  BY DEF StoreInv, Numbers
<1>3. \A m : GetHeaderByNumber(m) => m \in 0 .. Len(BlockTxs)
  BY Zenon, <1>2 DEF GetHeaderByNumber
<1>4. QED
  BY <1>1, <1>3 DEF getBlockHeader

LEMMA EndsInv == StoreInv /\ ReaderInv /\ SearchEnds => ReaderInv' /\ AnswerInv'
<1> SUFFICES ASSUME StoreInv, ReaderInv, SearchEnds PROVE ReaderInv' /\ AnswerInv'
  OBVIOUS
<1> DEFINE a == reader.arg
<1> DEFINE h == getBlockHeader(stringToBlockNumber(reader.q.block))
<1> DEFINE limit == IF a.gas # 0 /\ a.gas >= standardGas(a) THEN a.gas ELSE GasLimit
<1> DEFINE paid == a.sender /\ a.price # 0
<1> DEFINE high == Lesser(GasCap, IF paid THEN Lesser(limit, (BalanceAt[h] - a.value) \div a.price)
                                  ELSE limit)
<1> DEFINE r == [reader EXCEPT !.blk = h, !.lo = standardGas(a), !.hi = high, !.cap = high]
<1>1. /\ reader.pc = "ends" /\ OnlyReads
      /\ Answered(Failed) \/ (h # Missing /\ Goto("search", r))
  BY Zenon DEF SearchEnds
<1>2. /\ DOMAIN reader = Fields /\ latest' = latest /\ reader.asked \in Nat /\ reader.asked <= latest
      /\ Running(reader) /\ latest \in Nat
  BY Zenon, <1>1, ReaderRuns
<1>3. Estimated(a)
  BY <1>1, <1>2 DEF Running
<1>4. standardGas(a) \in Int
  BY GasAssumption DEF standardGas
<1>5. ASSUME h # Missing PROVE high \in Int
  <2>0. h \in 0 .. Len(BlockTxs)
    BY Zenon, <1>5, HeaderNumber
  <2> HIDE DEF h
  <2>1. limit \in Int /\ GasCap \in Int
    BY <1>3, GasAssumption DEF Estimated
  <2>2. BalanceAt[h] \in Nat /\ a.price \in Nat /\ a.value \in Nat
    BY <1>3, <2>0, GasAssumption DEF Estimated
  <2> HIDE DEF limit
  <2>3. paid => (BalanceAt[h] - a.value) \div a.price \in Int
    BY <2>2
  <2>4. QED
    BY <2>1, <2>3 DEF Lesser
<1> HIDE DEF high, limit, paid, h
<1>6. CASE Answered(Failed)
  BY <1>6, PlainAnswer DEF Failed
<1>7. CASE h # Missing /\ Goto("search", r)
  <2>1. /\ DOMAIN reader' = Fields /\ reader'.pc = "search" /\ reader'.asked = reader.asked /\ reader'.arg = a
        /\ reader'.lo = standardGas(a) /\ reader'.hi = high /\ reader'.cap = high
    BY <1>2, <1>7 DEF Goto, Fields
  <2> HIDE DEF r, a
  <2>2. Estimated(reader.arg)'
    BY Zenon, <1>3, <2>1 DEF Estimated
  <2>3. SearchInv(reader')
    BY <1>4, <1>5, <1>7, <2>1 DEF SearchInv
  <2>4. SearchInv(reader)'
    BY Zenon, <2>3 DEF SearchInv, Suffices
  <2>5. Running(reader)'
    BY <1>2, <2>1, <2>2, <2>4 DEF Running
  <2>6. QED
    BY Zenon, <1>7, <2>5, GotoAnswer DEF ReaderInv
<1>8. QED
  BY Zenon, <1>1, <1>6, <1>7

\* Where a test fails for want of gas, less gas is not enough.
LEMMA FailedBelow ==
  ASSUME NEW a, Estimated(a), NEW nonce, NEW n, NEW mid \in Int, NEW g \in Int, g <= mid,
         ApplyTxn(a, nonce, n, mid) = "failed"
  PROVE  ApplyTxn(a, nonce, n, g) # "done"
<1>1. a.needs \in Nat
  BY DEF Estimated
<1>2. mid < a.needs
  BY DEF ApplyTxn
<1>3. g < a.needs
  BY <1>1, <1>2
<1>4. QED
  BY <1>3 DEF ApplyTxn

LEMMA SearchStepInv == StoreInv /\ ReaderInv /\ SearchStep => ReaderInv' /\ AnswerInv'
<1> SUFFICES ASSUME StoreInv, ReaderInv, SearchStep PROVE ReaderInv' /\ AnswerInv'
  OBVIOUS
<1> DEFINE a == reader.arg
<1> DEFINE lo == reader.lo
<1> DEFINE hi == reader.hi
<1> DEFINE cap == reader.cap
<1> DEFINE least == standardGas(a)
<1> DEFINE mid == (reader.lo + reader.hi) \div 2
<1> DEFINE tested == ApplyTxn(reader.arg, reader.nonce, reader.blk, mid)
<1>1. reader.pc = "search" /\ OnlyReads
  BY DEF SearchStep
<1>2. /\ DOMAIN reader = Fields /\ latest' = latest /\ reader.asked \in Nat /\ reader.asked <= latest
      /\ Running(reader)
  BY Zenon, <1>1, ReaderRuns
<1>3. Estimated(a) /\ SearchInv(reader)
  BY <1>1, <1>2 DEF Running
<1>4. /\ lo \in Int /\ hi \in Int /\ cap \in Int /\ hi <= cap /\ least <= lo /\ least \in Int
      /\ \A g \in least .. lo - 1 : ~Suffices(reader, g)
      /\ hi < cap => lo <= hi + 1 /\ Suffices(reader, hi + 1)
  BY <1>3, GasAssumption DEF SearchInv, standardGas
<1>5. lo <= hi => mid \in Int /\ lo <= mid /\ mid <= hi
  BY <1>4
<1> HIDE DEF lo, hi, cap, least, mid
<1>6. CASE Answered(Failed)
  BY <1>6, PlainAnswer DEF Failed
<1>7. CASE lo > hi /\ Answered(Estimate(reader, hi + 1))
  <2> DEFINE e == Estimate(reader, hi + 1)
  <2>1. /\ e.kind = "gas" /\ e.gas = hi + 1 /\ e.a = a /\ e.nonce = reader.nonce /\ e.block = reader.blk
        /\ e.cap = cap
    BY DEF Estimate, cap
  <2>2. ReaderInv' /\ answer' = e
    BY Zenon, <1>7, AnsweredReader
  <2> HIDE DEF e
  <2> DEFINE enough == {g \in least .. cap : Suffices(reader, g)}
  <2>3. \A g \in enough : g \in Int /\ lo <= g /\ g <= cap
    BY <1>4
  <2>4. enough # {} => hi + 1 \in enough /\ \A g \in enough : hi + 1 <= g
    <3>1. CASE hi = cap
      <4>1. enough = {}
        <5> HIDE DEF enough
        <5>1. QED
          BY <1>4, <1>7, <2>3, <3>1
      <4>2. QED
        BY Zenon, <3>1, <4>1
    <3>2. CASE hi < cap
      <4>1. lo = hi + 1 /\ hi + 1 \in least .. cap /\ Suffices(reader, hi + 1)
        BY <1>4, <1>7, <3>2
      <4>2. hi + 1 \in enough
        BY Zenon, <4>1
      <4> HIDE DEF enough
      <4>3. QED
        BY Zenon, <2>3, <4>1, <4>2
    <3>3. QED
      BY <1>4, <3>1, <3>2
  <2>5. enough = Enough(e)
    BY Zenon, <2>1 DEF Suffices, least, Enough
  <2> HIDE DEF enough
  <2>6. EstimateLeast'
    <3>1. Enough(answer)' = enough
      BY Zenon, <2>2, <2>5 DEF Enough
    <3>2. QED
      BY Zenon, <2>1, <2>2, <2>4, <3>1 DEF EstimateLeast
  <2>7. QED
    BY <2>1, <2>2, <2>6 DEF AnswerInv, LogsExact
<1>8. CASE /\ ~(lo > hi) /\ tested = "failed"
           /\ Goto("search", [reader EXCEPT !.lo = mid + 1])
  <2>1. /\ DOMAIN reader' = Fields /\ reader'.pc = "search" /\ reader'.asked = reader.asked
        /\ reader'.arg = a /\ reader'.nonce = reader.nonce /\ reader'.blk = reader.blk
        /\ reader'.lo = mid + 1 /\ reader'.hi = hi /\ reader'.cap = cap
    BY <1>2, <1>8 DEF Goto, Fields, hi, cap
  <2>2. mid \in Int /\ mid + 1 \in Int /\ least <= mid + 1 /\ mid + 1 <= hi + 1
    BY <1>4, <1>5, <1>8
  <2>3. \A g \in least .. (mid + 1) - 1 : ~Suffices(reader, g)
    <3>1. SUFFICES ASSUME NEW g \in least .. (mid + 1) - 1 PROVE ~Suffices(reader, g)
      BY Zenon
    <3>2. g \in Int /\ g <= mid
      BY <1>4, <2>2
    <3>3. QED
      BY <1>3, <1>8, <2>2, <3>2, FailedBelow DEF Suffices
  <2>4. SearchInv(reader')
    BY Zenon, <1>4, <2>1, <2>2, <2>3 DEF SearchInv, Suffices, least
  <2>5. SearchInv(reader)' /\ Estimated(reader.arg)'
    BY Zenon, <1>3, <2>1, <2>4 DEF SearchInv, Suffices, Estimated
  <2>6. Running(reader)'
    BY <1>2, <2>1, <2>5 DEF Running
  <2>7. QED
    BY Zenon, <1>8, <2>6, GotoAnswer DEF ReaderInv
<1>9. CASE /\ ~(lo > hi) /\ tested = "done"
           /\ Goto("search", [reader EXCEPT !.hi = mid - 1])
  <2>1. /\ DOMAIN reader' = Fields /\ reader'.pc = "search" /\ reader'.asked = reader.asked
        /\ reader'.arg = a /\ reader'.nonce = reader.nonce /\ reader'.blk = reader.blk
        /\ reader'.lo = lo /\ reader'.hi = mid - 1 /\ reader'.cap = cap
    BY <1>2, <1>9 DEF Goto, Fields, lo, cap
  <2>2. mid \in Int /\ mid - 1 \in Int /\ mid - 1 <= cap /\ (mid - 1) + 1 = mid /\ lo <= mid
    BY <1>4, <1>5, <1>9
  <2>3. Suffices(reader, mid)
    BY Zenon, <1>9 DEF Suffices
  <2>4. SearchInv(reader')
    BY Zenon, <1>4, <2>1, <2>2, <2>3 DEF SearchInv, Suffices, least
  <2>5. SearchInv(reader)' /\ Estimated(reader.arg)'
    BY Zenon, <1>3, <2>1, <2>4 DEF SearchInv, Suffices, Estimated
  <2>6. Running(reader)'
    BY <1>2, <2>1, <2>5 DEF Running
  <2>7. QED
    BY Zenon, <1>9, <2>6, GotoAnswer DEF ReaderInv
<1>10. tested \in {"error", "failed", "done"}
  BY DEF ApplyTxn
<1>11. QED
  <2>1. CASE lo > hi
    BY Zenon, <1>6, <1>7, <2>1 DEF SearchStep, lo, hi
  <2>2. CASE ~(lo > hi)
    <3>1. CASE tested = "error"
      BY Zenon, <1>6, <2>2, <3>1 DEF SearchStep, lo, hi, mid
    <3>2. CASE tested = "failed"
      <4>1. "failed" # "error"
        OBVIOUS
      <4>2. QED
        BY Zenon, <1>8, <2>2, <3>2, <4>1 DEF SearchStep, lo, hi, mid
    <3>3. CASE tested = "done"
      <4>1. "done" # "error" /\ "done" # "failed"
        OBVIOUS
      <4>2. QED
        BY Zenon, <1>9, <2>2, <3>3, <4>1 DEF SearchStep, lo, hi, mid
    <3>4. QED
      BY Zenon, <1>10, <3>1, <3>2, <3>3
  <2>3. QED
    BY Zenon, <2>1, <2>2

-----------------------------------------------------------------------------
(* The theorems *)

LEMMA QueryNextInv == QueryInv /\ [QueryNext]_queryVars => QueryInv'
<1> SUFFICES ASSUME QueryInv, [QueryNext]_queryVars PROVE QueryInv'
  OBVIOUS
<1>1. StoreInv /\ WriteInv /\ ReaderInv /\ AnswerInv
  BY DEF QueryInv
<1>2. ASSUME UNCHANGED <<db, latest, write>> PROVE StoreInv' /\ WriteInv'
  BY Zenon, <1>1, <1>2 DEF StoreInv, WriteInv, Target, Pending, Done
<1>3. CASE BeginWrite
  <2>1. UNCHANGED <<db, latest, reader, answer>>
    BY <1>3 DEF BeginWrite
  <2>2. StoreInv' /\ Grows
    BY <1>1, <2>1 DEF StoreInv, Grows
  <2>3. ReaderInv' /\ AnswerInv'
    BY Zenon, <1>1, <2>1, <2>2, GrowsKeeps
  <2>4. QED
    BY Zenon, <1>1, <1>3, <2>2, <2>3, BeginWriteInv DEF QueryInv
<1>4. CASE DoWrite
  <2>1. StoreInv' /\ WriteInv' /\ Grows
    BY Zenon, <1>1, <1>4, DoWriteInv
  <2>2. reader' = reader /\ answer' = answer
    BY <1>4 DEF DoWrite
  <2>3. QED
    BY Zenon, <1>1, <2>1, <2>2, GrowsKeeps DEF QueryInv
<1>5. ASSUME OnlyReads, ReaderInv' /\ AnswerInv' PROVE QueryInv'
  BY Zenon, <1>2, <1>5 DEF OnlyReads, QueryInv
<1>6. ASSUME NEW q \in Asked, Ask(q) PROVE QueryInv'
  BY Zenon, <1>1, <1>5, <1>6, AskInv DEF Ask
<1>7. CASE Lookup
  BY Zenon, <1>1, <1>5, <1>7, LookupInv DEF Lookup
<1>8. CASE TxBlock
  BY Zenon, <1>1, <1>5, <1>8, TxBlockInv DEF TxBlock
<1>9. CASE findPendingTx
  BY Zenon, <1>1, <1>5, <1>9, PoolInv DEF findPendingTx
<1>10. CASE GetTransactionReceipt
  BY Zenon, <1>1, <1>5, <1>10, ReceiptInv DEF GetTransactionReceipt
<1>11. CASE EthGetBlockByNumber
  BY Zenon, <1>1, <1>5, <1>11, BlockInv DEF EthGetBlockByNumber
<1>12. CASE StateHeader
  BY Zenon, <1>1, <1>5, <1>12, HeaderInv DEF StateHeader
<1>13. CASE LogRange
  BY Zenon, <1>1, <1>5, <1>13, LogRangeInv DEF LogRange
<1>14. CASE LogBlock
  BY Zenon, <1>1, <1>5, <1>14, LogBlockInv DEF LogBlock
<1>15. CASE LogReceipts
  BY Zenon, <1>1, <1>5, <1>15, LogReceiptsInv DEF LogReceipts
<1>16. CASE parseReceipts
  BY Zenon, <1>1, <1>5, <1>16, ParseInv DEF parseReceipts
<1>17. CASE decodeTxn
  BY Zenon, <1>1, <1>5, <1>17, DecodeInv DEF decodeTxn
<1>18. CASE SearchEnds
  BY Zenon, <1>1, <1>5, <1>18, EndsInv DEF SearchEnds
<1>19. CASE SearchStep
  BY Zenon, <1>1, <1>5, <1>19, SearchStepInv DEF SearchStep
<1>20. CASE UNCHANGED queryVars
  <2>1. UNCHANGED <<db, latest, write, reader, answer>>
    BY <1>20 DEF queryVars
  <2>2. StoreInv' /\ WriteInv' /\ Grows
    BY <1>1, <1>2, <2>1 DEF StoreInv, Grows
  <2>3. QED
    BY Zenon, <1>1, <2>1, <2>2, GrowsKeeps DEF QueryInv
<1>21. QED
  BY Zenon, <1>3, <1>4, <1>6, <1>7, <1>8, <1>9, <1>10, <1>11, <1>12, <1>13, <1>14, <1>15, <1>16,
     <1>17, <1>18, <1>19, <1>20 DEF QueryNext

LEMMA QueryInvHolds == QuerySpec => []QueryInv
BY QueryInitInv, QueryNextInv, PTL DEF QuerySpec

\* GetTransactionReceipt answers after current header, canonical hash and body
\* of the block are in the store, as WriteBlock writes the receipts last; GetLogs
\* needs the receipts too, and "latest" is resolved after the query arrived.
\* Hence what a client learns is of blocks it can ask for.
THEOREM AnswersOnChainHolds == QuerySpec => []AnswersOnChain
<1>1. QueryInv => AnswersOnChain
  <2> SUFFICES ASSUME QueryInv PROVE AnswersOnChain
    OBVIOUS
  <2>1. StoreInv /\ AnswerInv
    BY DEF QueryInv
  <2>2. ASSUME answer.kind = "receipt" PROVE answer.block <= latest /\ GetBlockByNumber(answer.block)
    <3>1. answer.block \in 1 .. latest /\ latest \in Nat
      BY <2>1, <2>2 DEF AnswerInv, StoreInv
    <3>2. answer.block <= latest /\ answer.block \in 0 .. latest /\ answer.block # 0 /\ answer.block # Missing
      BY <3>1 DEF Missing
    <3>3. answer.block \in db.canonical /\ answer.block \in db.headers /\ answer.block \in db.bodies
      BY <2>1, <3>2 DEF StoreInv
    <3>4. QED
      BY Zenon, <3>2, <3>3 DEF GetBlockByNumber, GetBlockByHash, ReadCanonicalHash
  <2>3. ASSUME answer.kind = "logs", NEW i \in DOMAIN answer.logs PROVE answer.logs[i][1] <= latest
    <3>1. PICK last \in Lesser(answer.hi, answer.asked) .. Lesser(answer.hi, latest) :
            Range(answer.logs) = LogsOf(answer.f, answer.lo, last)
      BY Zenon, <2>1, <2>3 DEF AnswerInv, LogsExact
    <3>2. answer.logs[i] \in LogsOf(answer.f, answer.lo, last)
      BY Zenon, <2>3, <3>1 DEF Range
    <3>3. answer.logs[i][1] \in Nat /\ answer.logs[i][1] <= last
      BY Zenon, <3>2, Places
    <3>4. answer.hi \in Int /\ answer.asked \in Int /\ latest \in Nat
      BY <2>1, <2>3 DEF AnswerInv, StoreInv
    <3>5. QED
      BY <3>1, <3>3, <3>4 DEF Lesser
  <2>4. answer.kind = "state" /\ answer.last => answer.block >= answer.asked
    BY Zenon, <2>1 DEF AnswerInv
  <2>5. QED
    BY Zenon, <2>2, <2>3, <2>4 DEF AnswersOnChain
<1>2. QED
  BY <1>1, QueryInvHolds, PTL

\* GetLogs reads block after block without a lock.  A block that is not there
\* ends the range, and one without receipts ends the query with an error, so no
\* log of a block that was in the chain when it was asked is left out, whatever
\* is written meanwhile, and none is out of order.
THEOREM LogsExactHolds == QuerySpec => []LogsExact
<1>1. QueryInv => LogsExact
  BY Zenon DEF QueryInv, AnswerInv
<1>2. QED
  BY <1>1, QueryInvHolds, PTL

\* EstimateGas halves the interval between the standard gas and the ceiling and
\* answers with the least gas that is enough: below lo none is, and one more than
\* a lowered hi is.
THEOREM EstimateLeastHolds == QuerySpec => []EstimateLeast
<1>1. QueryInv => EstimateLeast
  BY Zenon DEF QueryInv, AnswerInv
<1>2. QED
  BY <1>1, QueryInvHolds, PTL
=============================================================================
