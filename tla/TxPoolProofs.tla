---------------------------- MODULE TxPoolProofs ----------------------------
(***************************************************************************)
(* Proofs about the transaction pool: what the consensus loop takes out of *)
(* the pool is there, for any number of accounts, transactions, callers    *)
(* and handlers, and what is promoted is below the nonce that is expected. *)
(***************************************************************************)
EXTENDS TxPool, FiniteSetTheorems, WellFoundedInduction, TLAPS

-----------------------------------------------------------------------------
(* Numbers *)

\* The smallest of a set of naturals.
LEMMA LeastNatural ==
  ASSUME NEW T \in SUBSET Nat, T # {}
  PROVE  \E x \in T : \A y \in T : x <= y
<1>1. \E x \in T : \A y \in T : ~(<<y, x>> \in OpToRel(<, Nat))
  BY Zenon, NatLessThanWellFounded, WFMin
<1>2. PICK x \in T : \A y \in T : ~(<<y, x>> \in OpToRel(<, Nat))
  BY Zenon, <1>1
<1>3. ASSUME NEW y \in T, ~(x <= y) PROVE FALSE
  <2>1. x \in Nat /\ y \in Nat /\ y < x
    BY <1>3
  <2>2. <<y, x>> \in {ss \in Nat \X Nat : ss[1] < ss[2]}
    BY <2>1
  <2>3. QED
    BY <1>2, <2>2, Zenon DEF OpToRel
<1>4. QED
  BY <1>3

\* The largest of a set of naturals that are no larger than n.
LEMMA MaxBelow ==
  ASSUME NEW n \in Nat, NEW S \in SUBSET (0 .. n), S # {}
  PROVE  Max(S) \in S
<1> DEFINE T == {n - x : x \in S}
<1>0. \A x \in S : n - x \in Nat
  OBVIOUS
<1>1. T \in SUBSET Nat /\ T # {}
  BY Zenon, <1>0
<1>a. \E y \in T : \A z \in T : y <= z
  BY Zenon, <1>1, LeastNatural
<1>2. PICK y \in T : \A z \in T : y <= z
  BY Zenon, <1>a
<1>3. PICK x \in S : y = n - x
  BY <1>2
<1>4. \A z \in S : x >= z
  <2> SUFFICES ASSUME NEW z \in S PROVE x >= z
    OBVIOUS
  <2>1. n - z \in T
    OBVIOUS
  <2>2. n - x <= n - z
    BY <1>2, <1>3, <2>1
  <2>3. QED
    BY <2>2
<1>5. QED
  BY <1>4 DEF Max

-----------------------------------------------------------------------------
(* Queues *)

\* The queues of an account: transactions of the account.
Queue(a) == Seq({t \in Txs : t.from = a})

LEMMA InQueue == \A a : \A q \in Queue(a) : Range(q) \subseteq Txs
BY DEF Queue, Range

\* heap.Push keeps what is in the queue and adds what is pushed, no more.
LEMMA PushesKeep ==
  ASSUME NEW a, NEW q \in Queue(a), NEW ts \in Queue(a), NEW p \in Pushes(q, ts)
  PROVE  /\ p \in Queue(a)
         /\ Range(p) = Range(q) \cup Range(ts)
<1> DEFINE X == {t \in Txs : t.from = a}
           s == q \o ts
<1>1. /\ s \in Seq(X) /\ Len(s) = Len(q) + Len(ts)
      /\ \A i \in 1 .. Len(q) : s[i] = q[i]
      /\ \A i \in 1 .. Len(ts) : s[Len(q) + i] = ts[i]
  BY DEF Queue
<1> HIDE DEF s
<1>2. PICK f \in [DOMAIN s -> DOMAIN s] :
        /\ \A i \in DOMAIN s : \E j \in DOMAIN s : f[j] = i
        /\ p = [i \in DOMAIN s |-> s[f[i]]]
  <2>1. PICK f \in Bijection(DOMAIN s, DOMAIN s) : p = [i \in DOMAIN s |-> s[f[i]]]
    BY Zenon DEF Pushes, s
  <2>2. QED
    BY Zenon, <2>1 DEF Bijection, Surjection
<1>3. DOMAIN s = 1 .. Len(s) /\ Len(s) \in Nat
  BY <1>1
<1>4. p \in [1 .. Len(s) -> X]
  <2>1. \A i \in 1 .. Len(s) : s[i] \in X
    BY <1>1, <1>3
  <2>2. QED
    BY Zenon, <1>2, <1>3, <2>1
<1>5. p \in Seq(X)
  BY <1>3, <1>4
<1>6. Range(p) = Range(s)
  BY <1>2, <1>3 DEF Range
<1>7. Range(s) = Range(q) \cup Range(ts)
  <2>1. DOMAIN q = 1 .. Len(q) /\ Len(q) \in Nat /\ DOMAIN ts = 1 .. Len(ts) /\ Len(ts) \in Nat
    BY DEF Queue
  <2>2. ASSUME NEW i \in DOMAIN s PROVE s[i] \in Range(q) \cup Range(ts)
    <3>1. CASE i <= Len(q)
      BY <1>1, <1>3, <2>1, <3>1 DEF Range
    <3>2. CASE i > Len(q)
      <4>1. i - Len(q) \in 1 .. Len(ts) /\ Len(q) + (i - Len(q)) = i
        BY <1>1, <1>3, <2>1, <3>2
      <4>2. s[i] = ts[i - Len(q)]
        BY <1>1, <4>1
      <4>3. QED
        BY <2>1, <4>1, <4>2 DEF Range
    <3>3. QED
      BY <1>3, <2>1, <3>1, <3>2
  <2>3. ASSUME NEW i \in DOMAIN q PROVE q[i] \in Range(s)
    BY <1>1, <1>3, <2>1 DEF Range
  <2>4. ASSUME NEW i \in DOMAIN ts PROVE ts[i] \in Range(s)
    <3>1. Len(q) + i \in DOMAIN s /\ s[Len(q) + i] = ts[i]
      BY <1>1, <1>3, <2>1
    <3>2. QED
      BY <3>1 DEF Range
  <2>5. QED
    BY <2>2, <2>3, <2>4 DEF Range
<1>8. QED
  BY <1>5, <1>6, <1>7 DEF Queue

\* A part of a queue.
LEMMA SubQueue ==
  ASSUME NEW a, NEW q \in Queue(a), NEW m \in Nat, NEW n \in Nat, m >= 1, n <= Len(q)
  PROVE  /\ SubSeq(q, m, n) \in Queue(a)
         /\ Range(SubSeq(q, m, n)) \subseteq Range(q)
<1> DEFINE s == SubSeq(q, m, n)
<1>1. s \in Seq({t \in Txs : t.from = a}) /\ \A i \in 1 .. Len(s) : s[i] = q[m + i - 1] /\ m + i - 1 \in 1 .. Len(q)
  BY DEF Queue
<1>2. DOMAIN q = 1 .. Len(q) /\ DOMAIN s = 1 .. Len(s)
  BY <1>1 DEF Queue
<1> HIDE DEF s
<1>3. Range(s) \subseteq Range(q)
  BY <1>1, <1>2 DEF Range
<1>4. QED
  BY <1>1, <1>3 DEF Queue, s

\* prune takes transactions from the head and leaves the others.
LEMMA KeptIsQueue ==
  ASSUME NEW a, NEW q \in Queue(a), NEW nonce
  PROVE  Kept(q, nonce) \in Queue(a) /\ Range(Kept(q, nonce)) \subseteq Range(q)
<1> DEFINE S == {k \in 0 .. Len(q) : \A i \in 1 .. k : q[i].nonce < nonce}
           k == Max(S)
<1>1. Len(q) \in Nat
  BY DEF Queue
<1>2. S \in SUBSET (0 .. Len(q))
  BY Zenon
<1>3. 0 \in S
  BY <1>1
<1>4. k \in 0 .. Len(q)
  BY <1>1, <1>2, <1>3, MaxBelow
<1>5. Kept(q, nonce) = SubSeq(q, k + 1, Len(q))
  BY Zenon DEF Kept, Stale
<1> HIDE DEF k
<1> DEFINE m == k + 1
<1>6. m \in Nat /\ m >= 1
  BY <1>4
<1> HIDE DEF m
<1>7. SubSeq(q, m, Len(q)) \in Queue(a) /\ Range(SubSeq(q, m, Len(q))) \subseteq Range(q)
  BY <1>1, <1>6, SubQueue
<1>8. QED
  BY Zenon, <1>5, <1>7 DEF m

\* The transactions that promote moves are a run of nonces from the head.
LEMMA RunOfNonces ==
  ASSUME NEW a, NEW q \in Queue(a), q # <<>>
  PROVE  /\ RunLength(q) \in 1 .. Len(q)
         /\ \A i \in 1 .. RunLength(q) : q[i].nonce = q[1].nonce + i - 1
<1> DEFINE S == {k \in 1 .. Len(q) : \A i \in 1 .. k : q[i].nonce = q[1].nonce + i - 1}
<1>1. Len(q) \in Nat /\ Len(q) >= 1
  BY DEF Queue
<1>2. S \in SUBSET (0 .. Len(q))
  BY <1>1
<1>3. q[1] \in Txs
  BY <1>1 DEF Queue
<1>4. 1 \in S
  BY <1>1, <1>3, TxsAssumption
<1>5. Max(S) \in S
  BY <1>1, <1>2, <1>4, MaxBelow
<1>6. QED
  BY Zenon, <1>5 DEF RunLength
-----------------------------------------------------------------------------
(* The inductive invariant *)

\* A call of createAccountOnce.
Call(c) == c.tx \in Txs /\ c.nonce \in Nat

\* The queues hold transactions of their account, the block and what is
\* executable transactions of callers.
PoolTyped ==
  /\ accounts \in [Accounts -> {"none", "stored", "ready"}]
  /\ nextNonce \in [Accounts -> Nat]
  /\ nonces \in [Accounts -> Nat]
  /\ enqueued \in [Accounts -> Seq(Txs)] /\ \A a \in Accounts : enqueued[a] \in Queue(a)
  /\ promoted \in [Accounts -> Seq(Txs)] /\ \A a \in Accounts : promoted[a] \in Queue(a)
  /\ \A c \in creating : Call(c)
  /\ executables \subseteq Txs
  /\ block \subseteq [tx : Txs, ok : BOOLEAN]

\* The queues of an account are empty until init.Do has made them.
QueuesMade ==
  \A a \in Accounts : accounts[a] # "ready" => enqueued[a] = <<>> /\ promoted[a] = <<>>

\* What is promoted is below the nonce that is expected next ("promoted -
\* transactions lower than the nextNonce", txpool/account.go): setNonce in
\* promote, Drop and resetAccount never leaves a promoted transaction above.
PromotedBelowNonce ==
  \A a \in Accounts : \A t \in Range(promoted[a]) : t.nonce < nextNonce[a]

PoolInv == PoolTyped /\ QueuesMade /\ PromotedBelowNonce /\ ExecutablesPromoted

\* The part of the state that PoolInv is about.
invVars == <<accounts, nextNonce, enqueued, promoted, creating, nonces, node, executables, block>>

LEMMA PoolInvSame == PoolInv /\ UNCHANGED invVars => PoolInv'
<1> SUFFICES ASSUME PoolInv, UNCHANGED invVars PROVE PoolInv'
  OBVIOUS
<1>1. PoolTyped'
  BY Zenon DEF PoolInv, PoolTyped, invVars, Queue
<1>2. QueuesMade'
  BY Zenon DEF PoolInv, QueuesMade, invVars
<1>3. PromotedBelowNonce'
  BY Zenon DEF PoolInv, PromotedBelowNonce, invVars
<1>4. ExecutablesPromoted'
  BY Zenon DEF PoolInv, ExecutablesPromoted, invVars
<1>5. QED
  BY Zenon, <1>1, <1>2, <1>3, <1>4 DEF PoolInv

LEMMA FromIsAccount == \A t \in Txs : t.from \in Accounts
BY Zenon DEF Accounts

LEMMA EmptyQueue == \A a : <<>> \in Queue(a) /\ Range(<<>>) = {}
BY DEF Queue, Range

LEMMA PoolInvInit == Init => PoolInv
<1> SUFFICES ASSUME Init PROVE PoolInv
  OBVIOUS
<1>1. PoolTyped
  <2>1. <<>> \in Seq(Txs)
    OBVIOUS
  <2>2. QED
    BY Zenon, <2>1, EmptyQueue, 0 \in Nat DEF Init, PoolTyped
<1>2. QueuesMade
  BY Zenon DEF Init, QueuesMade
<1>3. PromotedBelowNonce
  BY Zenon, EmptyQueue DEF Init, PromotedBelowNonce
<1>4. ExecutablesPromoted
  BY DEF Init, ExecutablesPromoted
<1>5. QED
  BY Zenon, <1>1, <1>2, <1>3, <1>4 DEF PoolInv
-----------------------------------------------------------------------------
(* Callers and handlers *)

\* A step that only changes the calls of createAccountOnce and takes no account
\* from "ready".
LEMMA CallsChange ==
  ASSUME PoolInv, UNCHANGED <<nextNonce, enqueued, promoted, nonces, node, executables, block>>,
         \A c \in creating' : Call(c),
         accounts' \in [Accounts -> {"none", "stored", "ready"}] \/ UNCHANGED accounts,
         \A a \in Accounts : accounts[a] = "ready" => accounts'[a] = "ready"
  PROVE  PoolInv'
<1>1. PoolTyped'
  <2>1. accounts' \in [Accounts -> {"none", "stored", "ready"}]
    BY Zenon DEF PoolInv, PoolTyped
  <2>2. \A c \in creating' : Call(c)'
    BY Zenon DEF Call
  <2>3. \A b : Queue(b)' = Queue(b)
    BY Zenon DEF Queue
  <2>4. QED
    BY Zenon, <2>1, <2>2, <2>3 DEF PoolInv, PoolTyped
<1>2. QueuesMade'
  BY Zenon DEF PoolInv, QueuesMade
<1>3. PromotedBelowNonce' /\ ExecutablesPromoted'
  BY Zenon DEF PoolInv, PromotedBelowNonce, ExecutablesPromoted
<1>4. QED
  BY Zenon, <1>1, <1>2, <1>3 DEF PoolInv

LEMMA AddTxKeeps ==
  ASSUME PoolInv, NEW t \in Txs, AddTx(t)
  PROVE  PoolInv'
<1> DEFINE a == t.from
<1>0. a \in Accounts
  BY Zenon, FromIsAccount
<1>1. UNCHANGED <<nextNonce, enqueued, promoted, nonces, node, executables, block>>
  BY Zenon DEF AddTx, nodeVars, poolVars
<1>2. CASE accounts[a] # "none"
  <2>1. UNCHANGED invVars
    BY Zenon, <1>1, <1>2 DEF AddTx, invVars, poolVars
  <2>2. QED
    BY Zenon, <2>1, PoolInvSame
<1>3. CASE accounts[a] = "none"
  <2> DEFINE c == [tx |-> t, nonce |-> nonces[a], stored |-> FALSE, id |-> NewId]
  <2>1. UNCHANGED accounts /\ creating' = creating \cup {c}
    BY Zenon, <1>3 DEF AddTx, poolVars
  <2>2. Call(c)
    BY <1>0 DEF PoolInv, PoolTyped, Call
  <2> HIDE DEF c
  <2>3. QED
    <3>1. \A d \in creating' : Call(d)
      BY Zenon, <2>1, <2>2 DEF PoolInv, PoolTyped
    <3>2. QED
      BY Zenon, <1>1, <2>1, <3>1, CallsChange
<1>4. QED
  BY Zenon, <1>2, <1>3

LEMMA StoreAccountKeeps ==
  ASSUME PoolInv, NEW c \in creating, StoreAccount(c)
  PROVE  PoolInv'
<1> DEFINE a == c.tx.from
           d == [tx |-> c.tx, nonce |-> c.nonce, stored |-> TRUE, id |-> c.id]
<1>1. UNCHANGED <<nextNonce, enqueued, promoted, nonces, node, executables, block>>
  BY Zenon DEF StoreAccount, nodeVars
<1>2. /\ creating' = (creating \ {c}) \cup {d}
      /\ accounts' = [accounts EXCEPT ![a] = IF @ = "none" THEN "stored" ELSE @]
  BY Zenon DEF StoreAccount
<1>3. Call(c)
  BY Zenon DEF PoolInv, PoolTyped
<1>4. Call(d)
  BY <1>3 DEF Call
<1> HIDE DEF d
<1>5. \A e \in creating' : Call(e)
  BY Zenon, <1>2, <1>4 DEF PoolInv, PoolTyped
<1>6. accounts \in [Accounts -> {"none", "stored", "ready"}] /\ a \in Accounts
  BY Zenon, <1>3, FromIsAccount DEF PoolInv, PoolTyped, Call
<1>7. accounts' \in [Accounts -> {"none", "stored", "ready"}]
  BY <1>2, <1>6
<1>8. \A b \in Accounts : accounts[b] = "ready" => accounts'[b] = "ready"
  BY <1>2, <1>6
<1>9. QED
  BY Zenon, <1>1, <1>5, <1>7, <1>8, CallsChange

\* The nonce that createAccountOnce read before is set while the queues are
\* still empty, or it is not set.
LEMMA InitAccountKeeps ==
  ASSUME PoolInv, NEW c \in creating, InitAccount(c)
  PROVE  PoolInv'
<1> DEFINE a == c.tx.from
<1>1. UNCHANGED <<enqueued, promoted, nonces, node, executables, block>>
  BY Zenon DEF InitAccount, nodeVars
<1>2. c.tx \in Txs /\ c.nonce \in Nat
  BY Zenon DEF PoolInv, PoolTyped, Call
<1>3. a \in Accounts
  BY Zenon, <1>2, FromIsAccount
<1>4. /\ creating' = creating \ {c}
      /\ accounts' = [accounts EXCEPT ![a] = "ready"]
      /\ nextNonce' = [nextNonce EXCEPT ![a] =
                         IF accounts[a] = "ready" THEN @ ELSE c.nonce]
  BY Zenon DEF InitAccount
<1>5. /\ accounts \in [Accounts -> {"none", "stored", "ready"}]
      /\ nextNonce \in [Accounts -> Nat]
  BY Zenon DEF PoolInv, PoolTyped
<1>6. /\ accounts' \in [Accounts -> {"none", "stored", "ready"}]
      /\ nextNonce' \in [Accounts -> Nat]
  BY <1>2, <1>3, <1>4, <1>5
<1>7. \A b \in Accounts : accounts'[b] = (IF b = a THEN "ready" ELSE accounts[b])
  BY Zenon, <1>4, <1>5
<1>8. \A b \in Accounts : nextNonce'[b] = nextNonce[b] \/ (b = a /\ accounts[a] # "ready")
  <2>1. \A b \in Accounts : b # a => nextNonce'[b] = nextNonce[b]
    BY Zenon, <1>4, <1>5
  <2>2. nextNonce'[a] = (IF accounts[a] = "ready" THEN nextNonce[a] ELSE c.nonce)
    BY Zenon, <1>3, <1>4, <1>5
  <2>3. QED
    BY Zenon, <2>1, <2>2
<1>9. PoolTyped'
  <2>1. \A b : Queue(b)' = Queue(b)
    BY Zenon DEF Queue
  <2>2. \A d \in creating' : Call(d)'
    BY Zenon, <1>4 DEF PoolInv, PoolTyped, Call
  <2>3. QED
    BY Zenon, <1>1, <1>6, <2>1, <2>2 DEF PoolInv, PoolTyped
<1>10. QueuesMade'
  BY Zenon, <1>1, <1>7 DEF PoolInv, QueuesMade
<1>11. PromotedBelowNonce'
  <2>1. accounts[a] # "ready" => Range(promoted[a]) = {}
    BY Zenon, <1>3, EmptyQueue DEF PoolInv, QueuesMade
  <2>2. QED
    BY Zenon, <1>1, <1>8, <2>1 DEF PoolInv, PromotedBelowNonce
<1>12. ExecutablesPromoted'
  BY Zenon, <1>1 DEF PoolInv, ExecutablesPromoted
<1>13. QED
  BY Zenon, <1>9, <1>10, <1>11, <1>12 DEF PoolInv

LEMMA EnqueueKeeps ==
  ASSUME PoolInv, NEW t \in Txs, Enqueue(t)
  PROVE  PoolInv'
<1> DEFINE a == t.from
<1>0. a \in Accounts /\ accounts[a] = "ready"
  BY Zenon, FromIsAccount DEF Enqueue
<1>1. UNCHANGED <<accounts, nextNonce, promoted, creating, nonces, node, executables, block>>
  BY Zenon DEF Enqueue, nodeVars
<1>2. CASE UNCHANGED enqueued
  <2>1. UNCHANGED invVars
    BY Zenon, <1>1, <1>2 DEF invVars
  <2>2. QED
    BY Zenon, <2>1, PoolInvSame
<1>3. CASE \E q \in Pushes(enqueued[a], <<t>>) : enqueued' = [enqueued EXCEPT ![a] = q]
  <2>1. PICK q \in Pushes(enqueued[a], <<t>>) : enqueued' = [enqueued EXCEPT ![a] = q]
    BY Zenon, <1>3
  <2>2. enqueued[a] \in Queue(a)
    BY Zenon, <1>0 DEF PoolInv, PoolTyped
  <2>3. <<t>> \in Queue(a)
    BY DEF Queue
  <2>4. q \in Queue(a)
    BY Zenon, <2>1, <2>2, <2>3, PushesKeep
  <2>5. q \in Seq(Txs)
    BY <2>4 DEF Queue
  <2>6. \A b \in Accounts : enqueued'[b] = (IF b = a THEN q ELSE enqueued[b])
    BY Zenon, <2>1 DEF PoolInv, PoolTyped
  <2>7. PoolTyped'
    <3>1. enqueued' \in [Accounts -> Seq(Txs)]
      BY Zenon, <2>1, <2>5 DEF PoolInv, PoolTyped
    <3>2. \A b \in Accounts : enqueued'[b] \in Queue(b)
      BY Zenon, <2>4, <2>6 DEF PoolInv, PoolTyped
    <3>3. \A b : Queue(b)' = Queue(b)
      BY Zenon DEF Queue
    <3>4. QED
      BY Zenon, <1>1, <3>1, <3>2, <3>3 DEF PoolInv, PoolTyped
  <2>8. QueuesMade'
    BY Zenon, <1>0, <1>1, <2>6 DEF PoolInv, QueuesMade
  <2>9. PromotedBelowNonce' /\ ExecutablesPromoted'
    BY Zenon, <1>1 DEF PoolInv, PromotedBelowNonce, ExecutablesPromoted
  <2>10. QED
    BY Zenon, <2>7, <2>8, <2>9 DEF PoolInv
<1>4. QED
  BY Zenon, <1>2, <1>3 DEF Enqueue
\* The run that promote moves is below the nonce it sets, and what was promoted
\* before stays promoted, wherever the heap puts it.
LEMMA PromoteKeeps ==
  ASSUME PoolInv, NEW a \in Accounts, Promote(a)
  PROVE  PoolInv'
<1>1. UNCHANGED <<accounts, creating, nonces, node, executables, block>>
  BY Zenon DEF Promote, nodeVars
<1>2. CASE UNCHANGED <<nextNonce, enqueued, promoted>>
  <2>1. UNCHANGED invVars
    BY Zenon, <1>1, <1>2 DEF invVars
  <2>2. QED
    BY Zenon, <2>1, PoolInvSame
<1>3. CASE Promotable(a) /\ ~UNCHANGED <<nextNonce, enqueued, promoted>>
  <2> DEFINE q == enqueued[a]
             k == RunLength(q)
             ts == SubSeq(q, 1, k)
             rest == SubSeq(q, k + 1, Len(q))
             n == Max({nextNonce[a], q[1].nonce + k})
  <2>1. PICK p \in Pushes(promoted[a], ts) :
          /\ promoted' = [promoted EXCEPT ![a] = p]
          /\ enqueued' = [enqueued EXCEPT ![a] = rest]
          /\ nextNonce' = [nextNonce EXCEPT ![a] = n]
    BY Zenon, <1>3 DEF Promote
  <2>2. q \in Queue(a) /\ promoted[a] \in Queue(a) /\ nextNonce[a] \in Nat
    BY Zenon DEF PoolInv, PoolTyped
  <2>3. q # <<>>
    BY Zenon, <1>3 DEF Promotable
  <2>4. k \in 1 .. Len(q) /\ \A i \in 1 .. k : q[i].nonce = q[1].nonce + i - 1
    BY Zenon, <2>2, <2>3, RunOfNonces
  <2>5. Len(q) \in Nat /\ Len(q) >= 1 /\ q[1] \in Txs
    BY <2>2, <2>3 DEF Queue
  <2> HIDE DEF q, k
  <2>6. q[1].nonce \in Nat /\ k \in Nat
    BY <2>4, <2>5, TxsAssumption
  <2>7. n \in Nat /\ n >= nextNonce[a] /\ n >= q[1].nonce + k
    <3> DEFINE x == nextNonce[a]
               y == q[1].nonce + k
    <3>1. x \in Nat /\ y \in Nat
      BY <2>2, <2>6
    <3> HIDE DEF x, y
    <3>2. \E m \in {x, y} : \A z \in {x, y} : m >= z
      BY <3>1
    <3>3. Max({x, y}) \in {x, y} /\ \A z \in {x, y} : Max({x, y}) >= z
      BY Zenon, <3>2 DEF Max
    <3>4. QED
      BY <3>1, <3>3 DEF x, y
  <2>8. ts \in Queue(a) /\ \A t \in Range(ts) : t.nonce < n
    <3>1. ts \in Queue(a)
      BY <2>2, <2>4, <2>5, <2>6, SubQueue
    <3>2. Len(ts) = k /\ (\A i \in 1 .. k : ts[i] = q[i]) /\ DOMAIN ts = 1 .. k
      BY <2>2, <2>4, <2>5, <2>6 DEF Queue
    <3>3. ASSUME NEW i \in 1 .. k PROVE ts[i].nonce < n
      <4>1. q[i].nonce = q[1].nonce + i - 1
        BY Zenon, <2>4
      <4>2. ts[i].nonce = q[i].nonce
        BY Zenon, <3>2
      <4> HIDE DEF ts, n
      <4>3. QED
        BY <2>6, <2>7, <4>1, <4>2
    <3>4. QED
      BY Zenon, <3>1, <3>2, <3>3 DEF Range
  <2>9. rest \in Queue(a)
    <3> DEFINE m == k + 1
    <3>1. m \in Nat /\ m >= 1
      BY <2>6
    <3> HIDE DEF m
    <3>2. SubSeq(q, m, Len(q)) \in Queue(a)
      BY <2>2, <2>5, <3>1, SubQueue
    <3>3. QED
      BY Zenon, <3>2 DEF m
  <2> HIDE DEF ts, rest, n
  <2>10. p \in Queue(a) /\ Range(p) = Range(promoted[a]) \cup Range(ts)
    <3>1. promoted[a] \in Queue(a) /\ ts \in Queue(a) /\ p \in Pushes(promoted[a], ts)
      BY Zenon, <2>1, <2>2, <2>8
    <3>2. QED
      BY <3>1, PushesKeep
  <2>11. \A b \in Accounts : /\ promoted'[b] = (IF b = a THEN p ELSE promoted[b])
                             /\ enqueued'[b] = (IF b = a THEN rest ELSE enqueued[b])
                             /\ nextNonce'[b] = (IF b = a THEN n ELSE nextNonce[b])
    <3>1. /\ promoted \in [Accounts -> Seq(Txs)] /\ enqueued \in [Accounts -> Seq(Txs)]
          /\ nextNonce \in [Accounts -> Nat]
      BY Zenon DEF PoolInv, PoolTyped
    <3>2. \A b \in Accounts : promoted'[b] = (IF b = a THEN p ELSE promoted[b])
      BY Zenon, <2>1, <3>1
    <3>3. \A b \in Accounts : enqueued'[b] = (IF b = a THEN rest ELSE enqueued[b])
      BY Zenon, <2>1, <3>1
    <3>4. \A b \in Accounts : nextNonce'[b] = (IF b = a THEN n ELSE nextNonce[b])
      BY Zenon, <2>1, <3>1
    <3>5. QED
      BY Zenon, <3>2, <3>3, <3>4
  <2>12. PoolTyped'
    <3>1. p \in Seq(Txs) /\ rest \in Seq(Txs)
      BY <2>9, <2>10 DEF Queue
    <3>2. /\ promoted' \in [Accounts -> Seq(Txs)]
          /\ enqueued' \in [Accounts -> Seq(Txs)]
          /\ nextNonce' \in [Accounts -> Nat]
      BY Zenon, <2>1, <2>7, <3>1 DEF PoolInv, PoolTyped
    <3>3. \A b \in Accounts : promoted'[b] \in Queue(b) /\ enqueued'[b] \in Queue(b)
      BY Zenon, <2>9, <2>10, <2>11 DEF PoolInv, PoolTyped
    <3>4. \A b : Queue(b)' = Queue(b)
      BY Zenon DEF Queue
    <3>5. QED
      BY Zenon, <1>1, <3>2, <3>3, <3>4 DEF PoolInv, PoolTyped
  <2>13. accounts[a] = "ready"
    BY Zenon, <2>3 DEF PoolInv, QueuesMade, q
  <2>14. QueuesMade'
    BY Zenon, <1>1, <2>11, <2>13 DEF PoolInv, QueuesMade
  <2>15. PromotedBelowNonce'
    <3>1. \A t \in Range(p) : t.nonce < n
      <4>1. \A t \in Range(promoted[a]) : t.nonce < nextNonce[a] /\ t \in Txs
        BY Zenon, <2>2, InQueue DEF PoolInv, PromotedBelowNonce
      <4>2. \A t \in Range(promoted[a]) : t.nonce < n
        BY <2>2, <2>7, <4>1, TxsAssumption
      <4>3. QED
        BY Zenon, <2>8, <2>10, <4>2
    <3>2. QED
      BY Zenon, <2>11, <3>1 DEF PoolInv, PromotedBelowNonce
  <2>16. ExecutablesPromoted'
    <3>1. \A b \in Accounts : Range(promoted[b]) \subseteq Range(promoted'[b])
      BY Zenon, <2>10, <2>11
    <3>2. QED
      BY Zenon, <1>1, <3>1, FromIsAccount DEF PoolInv, PoolTyped, ExecutablesPromoted
  <2>17. QED
    BY Zenon, <2>12, <2>14, <2>15, <2>16 DEF PoolInv
<1>4. QED
  BY Zenon, <1>2, <1>3 DEF Promote
-----------------------------------------------------------------------------
(* The consensus loop *)

LEMMA PrepareKeeps == PoolInv /\ Prepare => PoolInv'
<1> SUFFICES ASSUME PoolInv, Prepare PROVE PoolInv'
  OBVIOUS
<1>1. /\ UNCHANGED <<accounts, nextNonce, enqueued, promoted, creating, nonces>>
      /\ executables' = Heads /\ block' = {}
  BY Zenon DEF Prepare, poolVars, handlerVars
<1>2. ASSUME NEW t \in Heads
      PROVE  \E a \in Accounts : /\ t \in Txs /\ t.from = a /\ t \in Range(promoted[a])
                                 /\ promoted[a] # <<>> /\ t = promoted[a][1]
  <2>1. PICK a \in Accounts : promoted[a] # <<>> /\ t = promoted[a][1]
    BY Zenon DEF Heads
  <2>2. promoted[a] \in Queue(a)
    BY Zenon DEF PoolInv, PoolTyped
  <2>3. promoted[a][1] \in Txs /\ promoted[a][1].from = a /\ 1 \in DOMAIN promoted[a]
    BY <2>1, <2>2 DEF Queue
  <2>4. QED
    BY Zenon, <2>1, <2>3 DEF Range
<1>3. PoolTyped'
  <2>1. Heads \subseteq Txs
    BY Zenon, <1>2
  <2>2. \A b : Queue(b)' = Queue(b)
    BY Zenon DEF Queue
  <2>3. QED
    BY Zenon, <1>1, <2>1, <2>2 DEF PoolInv, PoolTyped
<1>4. QueuesMade' /\ PromotedBelowNonce'
  BY Zenon, <1>1 DEF PoolInv, QueuesMade, PromotedBelowNonce
<1>5. ExecutablesPromoted'
  <2>1. \A t \in Heads : t \in Range(promoted[t.from])
    BY Zenon, <1>2
  <2>2. \A t \in Heads : t = promoted[t.from][1]
    BY Zenon, <1>2
  <2>3. QED
    BY Zenon, <1>1, <2>1, <2>2 DEF ExecutablesPromoted
<1>6. QED
  BY Zenon, <1>3, <1>4, <1>5 DEF PoolInv

\* Pop takes the head of the promoted queue, whichever transaction was written,
\* and makes the next head executable in its place.
LEMMA WriteTxKeeps ==
  ASSUME PoolInv, NEW t \in executables, WriteTx(t)
  PROVE  PoolInv'
<1> DEFINE a == t.from
           q == promoted[a]
           p == Tail(q)
           next == IF Len(q) > 1 THEN {q[2]} ELSE {}
<1>1. /\ UNCHANGED <<accounts, nextNonce, enqueued, creating, nonces, node>>
      /\ node = "building"
      /\ block' = block \cup {[tx |-> t, ok |-> TRUE]}
      /\ promoted' = [promoted EXCEPT ![a] = p]
      /\ executables' = (executables \ {t}) \cup next
  BY Zenon DEF WriteTx, handlerVars
<1>2. t \in Txs /\ a \in Accounts
  BY Zenon, FromIsAccount DEF PoolInv, PoolTyped
<1>3. q \in Queue(a) /\ t \in Range(q) /\ \A u \in executables : u.from = a => u = t
  BY Zenon, <1>1, <1>2 DEF PoolInv, PoolTyped, ExecutablesPromoted
<1>4. q # <<>>
  BY Zenon, <1>3, EmptyQueue
<1>5. /\ p \in Queue(a) /\ Range(p) \subseteq Range(q)
      /\ \A u \in next : u \in Txs /\ u.from = a /\ u \in Range(p)
  <2>1. /\ p \in Seq({x \in Txs : x.from = a}) /\ Len(p) = Len(q) - 1
        /\ \A i \in 1 .. Len(p) : p[i] = q[i + 1] /\ i + 1 \in 1 .. Len(q)
        /\ DOMAIN q = 1 .. Len(q) /\ DOMAIN p = 1 .. Len(p) /\ Len(q) \in Nat
    BY <1>3, <1>4 DEF Queue
  <2> HIDE DEF p
  <2>2. Range(p) \subseteq Range(q)
    BY <2>1 DEF Range
  <2>3. ASSUME Len(q) > 1 PROVE q[2] \in Txs /\ q[2].from = a /\ q[2] \in Range(p)
    <3>1. 1 \in DOMAIN p /\ p[1] = q[2]
      BY <2>1, <2>3
    <3>2. p[1] \in {x \in Txs : x.from = a}
      BY <2>1, <3>1
    <3>3. QED
      BY Zenon, <3>1, <3>2 DEF Range
  <2>4. QED
    BY Zenon, <2>1, <2>2, <2>3 DEF Queue
<1>6. \A b \in Accounts : promoted'[b] = (IF b = a THEN p ELSE promoted[b])
  BY Zenon, <1>1 DEF PoolInv, PoolTyped
<1> HIDE DEF p, next, q
<1>7. PoolTyped'
  <2>1. p \in Seq(Txs)
    BY <1>5 DEF Queue
  <2>2. promoted' \in [Accounts -> Seq(Txs)]
    BY Zenon, <1>1, <2>1 DEF PoolInv, PoolTyped
  <2>3. \A b \in Accounts : promoted'[b] \in Queue(b)
    BY Zenon, <1>5, <1>6 DEF PoolInv, PoolTyped
  <2>4. \A b : Queue(b)' = Queue(b)
    BY Zenon DEF Queue
  <2>5. executables' \subseteq Txs
    BY Zenon, <1>1, <1>5 DEF PoolInv, PoolTyped
  <2>6. block' \subseteq [tx : Txs, ok : BOOLEAN]
    <3>1. [tx |-> t, ok |-> TRUE] \in [tx : Txs, ok : BOOLEAN]
      BY <1>2
    <3>2. QED
      BY Zenon, <1>1, <3>1 DEF PoolInv, PoolTyped
  <2>7. QED
    BY Zenon, <1>1, <2>2, <2>3, <2>4, <2>5, <2>6 DEF PoolInv, PoolTyped
<1>8. QueuesMade'
  <2>1. accounts[a] = "ready"
    BY Zenon, <1>2, <1>4 DEF PoolInv, QueuesMade, q
  <2>2. QED
    BY Zenon, <1>1, <1>6, <2>1 DEF PoolInv, QueuesMade
<1>9. PromotedBelowNonce'
  BY Zenon, <1>1, <1>2, <1>5, <1>6 DEF PoolInv, PromotedBelowNonce, q
<1>10. ExecutablesPromoted'
  <2> SUFFICES ASSUME NEW u \in executables'
               PROVE  /\ u \in Range(promoted'[u.from])
                      /\ \A v \in executables' : v.from = u.from => v = u
    BY Zenon DEF ExecutablesPromoted
  <2>1. \A v, w \in next : v = w
    BY Zenon DEF next
  <2>2. \A v \in executables \ {t} : v.from # a /\ v.from \in Accounts
    BY Zenon, <1>3, FromIsAccount DEF PoolInv, PoolTyped
  <2>3. CASE u \in next
    BY Zenon, <1>1, <1>2, <1>5, <1>6, <2>1, <2>2, <2>3
  <2>4. CASE u \in executables \ {t}
    <3>1. u \in Range(promoted[u.from]) /\ \A v \in executables : v.from = u.from => v = u
      BY Zenon, <1>1, <2>4 DEF PoolInv, ExecutablesPromoted
    <3>2. QED
      BY Zenon, <1>1, <1>5, <1>6, <2>2, <2>4, <3>1
  <2>5. QED
    BY Zenon, <1>1, <2>3, <2>4
<1>11. QED
  BY Zenon, <1>7, <1>8, <1>9, <1>10 DEF PoolInv

\* Drop rolls the nonce back, and no promoted transaction is left above it.
LEMMA DropTxKeeps ==
  ASSUME PoolInv, NEW t \in executables, DropTx(t)
  PROVE  PoolInv'
<1> DEFINE a == t.from
<1>1. /\ UNCHANGED <<accounts, creating, nonces, node>>
      /\ node = "building"
      /\ nextNonce' = [nextNonce EXCEPT ![a] = t.nonce]
      /\ promoted' = [promoted EXCEPT ![a] = <<>>]
      /\ enqueued' = [enqueued EXCEPT ![a] = <<>>]
      /\ executables' = executables \ {t}
  BY Zenon DEF DropTx, handlerVars
<1>2. block' = block \/ block' = block \cup {[tx |-> t, ok |-> FALSE]}
  BY Zenon DEF DropTx
<1>3. t \in Txs /\ a \in Accounts
  BY Zenon, FromIsAccount DEF PoolInv, PoolTyped
<1>4. /\ promoted \in [Accounts -> Seq(Txs)] /\ enqueued \in [Accounts -> Seq(Txs)]
      /\ nextNonce \in [Accounts -> Nat] /\ t.nonce \in Nat
  BY Zenon, <1>3, TxsAssumption DEF PoolInv, PoolTyped
<1>5. \A b \in Accounts : promoted'[b] = (IF b = a THEN <<>> ELSE promoted[b])
  BY Zenon, <1>1, <1>4
<1>6. \A b \in Accounts : enqueued'[b] = (IF b = a THEN <<>> ELSE enqueued[b])
  BY Zenon, <1>1, <1>4
<1>7. \A b \in Accounts : nextNonce'[b] = (IF b = a THEN t.nonce ELSE nextNonce[b])
  BY Zenon, <1>1, <1>4
<1>8. PoolTyped'
  <2>1. <<>> \in Seq(Txs)
    OBVIOUS
  <2>2. /\ promoted' \in [Accounts -> Seq(Txs)] /\ enqueued' \in [Accounts -> Seq(Txs)]
        /\ nextNonce' \in [Accounts -> Nat]
    BY Zenon, <1>1, <1>4, <2>1
  <2>3. \A b \in Accounts : promoted'[b] \in Queue(b) /\ enqueued'[b] \in Queue(b)
    BY Zenon, <1>5, <1>6, EmptyQueue DEF PoolInv, PoolTyped
  <2>4. \A b : Queue(b)' = Queue(b)
    BY Zenon DEF Queue
  <2>5. block' \subseteq [tx : Txs, ok : BOOLEAN]
    <3>1. [tx |-> t, ok |-> FALSE] \in [tx : Txs, ok : BOOLEAN]
      BY <1>3
    <3>2. block \subseteq [tx : Txs, ok : BOOLEAN]
      BY Zenon DEF PoolInv, PoolTyped
    <3>3. QED
      BY <1>2, <3>1, <3>2
  <2>6. QED
    BY Zenon, <1>1, <2>2, <2>3, <2>4, <2>5 DEF PoolInv, PoolTyped
<1>9. QueuesMade'
  <2>1. \A b \in Accounts : accounts'[b] # "ready" => enqueued'[b] = <<>> /\ promoted'[b] = <<>>
    <3>1. \A b \in Accounts : accounts[b] # "ready" => enqueued[b] = <<>> /\ promoted[b] = <<>>
      BY Zenon DEF PoolInv, QueuesMade
    <3>2. QED
      BY <1>1, <1>5, <1>6, <3>1
  <2>2. QED
    BY Zenon, <1>1, <2>1 DEF PoolInv, QueuesMade
<1>10. PromotedBelowNonce'
  BY Zenon, <1>5, <1>7, EmptyQueue DEF PoolInv, PromotedBelowNonce
<1>11. ExecutablesPromoted'
  <2>1. \A v \in executables \ {t} : v.from # a /\ v.from \in Accounts
    BY Zenon, <1>1, FromIsAccount DEF PoolInv, PoolTyped, ExecutablesPromoted
  <2>2. QED
    BY Zenon, <1>1, <1>5, <2>1 DEF PoolInv, ExecutablesPromoted
<1>12. QED
  BY Zenon, <1>8, <1>9, <1>10, <1>11 DEF PoolInv

\* A block is written: the nonces of the state move on.
LEMMA WrittenKeeps ==
  ASSUME PoolInv, NEW ok \in SUBSET Txs, nonces' = NoncesAfter(ok), node' = "written",
         UNCHANGED <<poolVars, handlerVars, executables>>,
         block' \subseteq [tx : Txs, ok : BOOLEAN]
  PROVE  PoolInv'
<1>1. UNCHANGED <<accounts, nextNonce, enqueued, promoted, creating>>
  BY Zenon DEF poolVars, handlerVars
<1>2. ASSUME NEW a \in Accounts
      PROVE  nonces[a] + Cardinality({t \in ok : t.from = a}) \in Nat
  <2>1. IsFiniteSet({t \in ok : t.from = a})
    <3>1. {t \in ok : t.from = a} \subseteq Txs
      BY Zenon
    <3>2. QED
      BY Zenon, <3>1, TxsAssumption, FS_Subset
  <2>2. Cardinality({t \in ok : t.from = a}) \in Nat
    BY Zenon, <2>1, FS_CardinalityType
  <2>3. nonces[a] \in Nat
    BY Zenon DEF PoolInv, PoolTyped
  <2>4. QED
    BY <2>2, <2>3
<1>3. nonces' \in [Accounts -> Nat]
  BY Zenon, <1>2 DEF NoncesAfter
<1>4. PoolTyped'
  <2>1. \A b : Queue(b)' = Queue(b)
    BY Zenon DEF Queue
  <2>2. \A d \in creating' : Call(d)'
    BY Zenon, <1>1 DEF PoolInv, PoolTyped, Call
  <2>3. QED
    BY Zenon, <1>1, <1>3, <2>1, <2>2 DEF PoolInv, PoolTyped
<1>5. QueuesMade' /\ PromotedBelowNonce'
  BY Zenon, <1>1 DEF PoolInv, QueuesMade, PromotedBelowNonce
<1>6. ExecutablesPromoted'
  BY DEF ExecutablesPromoted
<1>7. QED
  BY Zenon, <1>4, <1>5, <1>6 DEF PoolInv

\* resetAccount prunes the queues and moves the nonce forward only.
LEMMA ResetKeeps ==
  ASSUME PoolInv, ResetWithHeaders
  PROVE  PoolInv'
<1>1. /\ promoted' = [a \in Accounts |->
           IF a \in Reset THEN Kept(promoted[a], nonces[a]) ELSE promoted[a]]
      /\ enqueued' = [a \in Accounts |->
           IF a \in Behind THEN Kept(enqueued[a], nonces[a]) ELSE enqueued[a]]
      /\ nextNonce' = [a \in Accounts |-> IF a \in Behind THEN nonces[a] ELSE nextNonce[a]]
      /\ node' = "idle" /\ block' = {}
      /\ UNCHANGED <<accounts, creating, nonces, executables>>
  BY Zenon DEF ResetWithHeaders
<1>2. \A a \in Accounts : nonces[a] \in Nat
  BY Zenon DEF PoolInv, PoolTyped
<1>3. \A a \in Accounts : nextNonce[a] \in Nat /\ promoted[a] \in Queue(a) /\ enqueued[a] \in Queue(a)
  BY Zenon DEF PoolInv, PoolTyped
<1>4. \A a \in Accounts : nextNonce'[a] \in Nat /\ nextNonce'[a] >= nextNonce[a]
  BY <1>1, <1>2, <1>3 DEF Behind
<1>5. ASSUME NEW a \in Accounts
      PROVE  /\ promoted'[a] \in Queue(a) /\ Range(promoted'[a]) \subseteq Range(promoted[a])
             /\ enqueued'[a] \in Queue(a) /\ Range(enqueued'[a]) \subseteq Range(enqueued[a])
  <2>1. /\ promoted'[a] = promoted[a] \/ promoted'[a] = Kept(promoted[a], nonces[a])
        /\ enqueued'[a] = enqueued[a] \/ enqueued'[a] = Kept(enqueued[a], nonces[a])
    BY Zenon, <1>1
  <2>2. /\ Kept(promoted[a], nonces[a]) \in Queue(a)
        /\ Range(Kept(promoted[a], nonces[a])) \subseteq Range(promoted[a])
    BY Zenon, <1>3, KeptIsQueue
  <2>3. /\ Kept(enqueued[a], nonces[a]) \in Queue(a)
        /\ Range(Kept(enqueued[a], nonces[a])) \subseteq Range(enqueued[a])
    BY Zenon, <1>3, KeptIsQueue
  <2>4. QED
    BY Zenon, <1>3, <2>1, <2>2, <2>3
<1>6. PoolTyped'
  <2>1. \A a \in Accounts : Queue(a) \subseteq Seq(Txs)
    BY DEF Queue
  <2>2. /\ promoted' \in [Accounts -> Seq(Txs)] /\ enqueued' \in [Accounts -> Seq(Txs)]
    <3>1. DOMAIN promoted' = Accounts /\ promoted' = [a \in Accounts |-> promoted'[a]]
      BY Zenon, <1>1
    <3>2. DOMAIN enqueued' = Accounts /\ enqueued' = [a \in Accounts |-> enqueued'[a]]
      BY Zenon, <1>1
    <3>3. QED
      BY Zenon, <1>5, <2>1, <3>1, <3>2
  <2>3. \A d \in creating' : Call(d)'
    BY Zenon, <1>1 DEF PoolInv, PoolTyped, Call
  <2>4. nextNonce' \in [Accounts -> Nat]
    <3>1. nextNonce' = [a \in Accounts |-> nextNonce'[a]]
      BY Zenon, <1>1
    <3>2. QED
      BY Zenon, <1>4, <3>1
  <2>5. \A b : Queue(b)' = Queue(b)
    BY Zenon DEF Queue
  <2>6. QED
    BY Zenon, <1>1, <1>5, <2>2, <2>3, <2>4, <2>5 DEF PoolInv, PoolTyped
<1>7. QueuesMade'
  <2>1. \A a \in Accounts : accounts[a] # "ready" => promoted'[a] = promoted[a] /\ enqueued'[a] = enqueued[a]
    BY Zenon, <1>1 DEF Reset, Behind
  <2>2. QED
    BY Zenon, <1>1, <2>1 DEF PoolInv, QueuesMade
<1>8. PromotedBelowNonce'
  <2> SUFFICES ASSUME NEW a \in Accounts, NEW t \in Range(promoted'[a])
               PROVE  t.nonce < nextNonce'[a]
    BY Zenon DEF PromotedBelowNonce
  <2>1. t \in Range(promoted[a]) /\ t.nonce < nextNonce[a]
    BY Zenon, <1>5 DEF PoolInv, PromotedBelowNonce
  <2>2. t \in Txs
    BY Zenon, <1>3, <2>1, InQueue
  <2>3. QED
    BY <1>3, <1>4, <2>1, <2>2, TxsAssumption
<1>9. ExecutablesPromoted'
  BY <1>1 DEF ExecutablesPromoted
<1>10. QED
  BY Zenon, <1>6, <1>7, <1>8, <1>9 DEF PoolInv

\* A step that changes none of the queues and nonces, and takes the node out of
\* the building of a block or executables from what is left.
LEMMA NodeMoves ==
  ASSUME PoolInv, UNCHANGED <<poolVars, handlerVars, nonces>>,
         executables' \subseteq executables, block' \subseteq block,
         node' = "building" => node = "building"
  PROVE  PoolInv'
<1>1. UNCHANGED <<accounts, nextNonce, enqueued, promoted, creating, nonces>>
  BY Zenon DEF poolVars, handlerVars
<1>2. PoolTyped'
  <2>1. \A b : Queue(b)' = Queue(b)
    BY Zenon DEF Queue
  <2>2. QED
    BY Zenon, <1>1, <2>1 DEF PoolInv, PoolTyped
<1>3. QueuesMade' /\ PromotedBelowNonce'
  BY Zenon, <1>1 DEF PoolInv, QueuesMade, PromotedBelowNonce
<1>4. ExecutablesPromoted'
  BY Zenon, <1>1 DEF PoolInv, ExecutablesPromoted
<1>5. QED
  BY Zenon, <1>2, <1>3, <1>4 DEF PoolInv

LEMMA NodeStepKeeps == PoolInv /\ NodeStep => PoolInv'
<1> SUFFICES ASSUME PoolInv, NodeStep PROVE PoolInv'
  OBVIOUS
<1>1. CASE Prepare
  BY Zenon, <1>1, PrepareKeeps
<1>2. CASE \E t \in executables : WriteTx(t) \/ DropTx(t)
  BY Zenon, <1>2, WriteTxKeeps, DropTxKeeps
<1>3. CASE FinishBlock
  <2>1. executables' \subseteq executables /\ block' \subseteq block /\ node' # "building"
    BY <1>3 DEF FinishBlock
  <2>2. UNCHANGED <<poolVars, handlerVars, nonces>>
    BY Zenon, <1>3 DEF FinishBlock
  <2>3. QED
    BY Zenon, <2>1, <2>2, NodeMoves
<1>4. CASE InsertOwn
  <2> DEFINE ok == {e.tx : e \in {f \in block : f.ok}}
  <2>1. ok \in SUBSET Txs
    BY DEF PoolInv, PoolTyped
  <2>2. nonces' = NoncesAfter(ok)
    BY Zenon, <1>4 DEF InsertOwn
  <2> HIDE DEF ok
  <2>3. /\ node' = "written" /\ UNCHANGED <<poolVars, handlerVars, executables>>
        /\ block' \subseteq [tx : Txs, ok : BOOLEAN]
    BY Zenon, <1>4 DEF InsertOwn, PoolInv, PoolTyped
  <2>4. QED
    BY Zenon, <2>1, <2>2, <2>3, WrittenKeeps
<1>5. CASE AbandonBlock
  <2>1. executables' \subseteq executables /\ block' \subseteq block /\ node' # "building"
    BY <1>5 DEF AbandonBlock
  <2>2. UNCHANGED <<poolVars, handlerVars, nonces>>
    BY Zenon, <1>5 DEF AbandonBlock
  <2>3. QED
    BY Zenon, <2>1, <2>2, NodeMoves
<1>6. CASE InsertOther
  <2>1. PICK ts \in OthersBlocks :
               nonces' = NoncesAfter(ts) /\ block' = {[tx |-> t, ok |-> TRUE] : t \in ts}
    BY Zenon, <1>6 DEF InsertOther
  <2>2. ts \in SUBSET Txs
    BY Zenon DEF OthersBlocks
  <2>3. block' \subseteq [tx : Txs, ok : BOOLEAN]
    <3>1. \A t \in ts : [tx |-> t, ok |-> TRUE] \in [tx : Txs, ok : BOOLEAN]
      BY <2>2
    <3>2. QED
      BY Zenon, <2>1, <3>1
  <2>4. node' = "written" /\ UNCHANGED <<poolVars, handlerVars, executables>>
    BY Zenon, <1>6 DEF InsertOther
  <2>5. QED
    BY Zenon, <2>1, <2>2, <2>3, <2>4, WrittenKeeps
<1>7. CASE ResetWithHeaders
  BY Zenon, <1>7, ResetKeeps
<1>8. QED
  BY Zenon, <1>1, <1>2, <1>3, <1>4, <1>5, <1>6, <1>7 DEF NodeStep

LEMMA PoolInvNext == PoolInv /\ [Next]_vars => PoolInv'
<1> SUFFICES ASSUME PoolInv, [Next]_vars PROVE PoolInv'
  OBVIOUS
<1>1. CASE \E t \in Txs : AddTx(t)
  BY Zenon, <1>1, AddTxKeeps
<1>2. CASE HandlerStep
  <2>1. CASE \E c \in creating : StoreAccount(c) \/ InitAccount(c)
    BY Zenon, <2>1, StoreAccountKeeps, InitAccountKeeps
  <2>2. CASE \E t \in Txs : Enqueue(t)
    BY Zenon, <2>2, EnqueueKeeps
  <2>3. CASE \E t \in Txs : Register(t) \/ CheckNonce(t)
    <3>1. UNCHANGED invVars
      BY Zenon, <2>3 DEF Register, CheckNonce, invVars, poolVars, nodeVars
    <3>2. QED
      BY Zenon, <3>1, PoolInvSame
  <2>4. CASE \E a \in Accounts : Promote(a)
    BY Zenon, <2>4, PromoteKeeps
  <2>5. QED
    BY Zenon, <1>2, <2>1, <2>2, <2>3, <2>4 DEF HandlerStep
<1>3. CASE NodeStep
  BY Zenon, <1>3, NodeStepKeeps
<1>4. CASE Panic
  <2>1. executables' \subseteq executables /\ block' \subseteq block /\ node' # "building"
    BY <1>4 DEF Panic
  <2>2. UNCHANGED <<poolVars, handlerVars, nonces>>
    BY Zenon, <1>4 DEF Panic
  <2>3. QED
    BY Zenon, <2>1, <2>2, NodeMoves
<1>5. CASE UNCHANGED vars
  <2>1. UNCHANGED invVars
    BY Zenon, <1>5 DEF vars, invVars, poolVars, handlerVars, nodeVars
  <2>2. QED
    BY Zenon, <2>1, PoolInvSame
<1>6. QED
  BY Zenon, <1>1, <1>2, <1>3, <1>4, <1>5 DEF Next, Stopped

-----------------------------------------------------------------------------
(* Theorems *)

\* Whatever callers and handlers do between Prepare and Pop or Drop, what the
\* consensus loop holds as executable is in the promoted queue of its account,
\* and it holds one transaction of an account at a time.
THEOREM ExecutablesPromotedHolds == Spec => []ExecutablesPromoted
<1>1. Spec => []PoolInv
  BY PoolInvInit, PoolInvNext, PTL DEF Spec
<1>2. PoolInv => ExecutablesPromoted
  BY Zenon DEF PoolInv
<1>3. QED
  BY <1>1, <1>2, PTL

\* What is promoted is below nextNonce, as the comment on account says,
\* although Drop rolls the nonce back, createAccountOnce sets one that it read
\* before, and rivals of a promoted transaction are promoted after it.
THEOREM PromotedBelowNonceHolds == Spec => []PromotedBelowNonce
<1>1. Spec => []PoolInv
  BY PoolInvInit, PoolInvNext, PTL DEF Spec
<1>2. PoolInv => PromotedBelowNonce
  BY Zenon DEF PoolInv
<1>3. QED
  BY <1>1, <1>2, PTL
=============================================================================
