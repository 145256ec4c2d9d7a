------------------------------- MODULE TxPool -------------------------------
(***************************************************************************)
(* The transaction pool (txpool/) of one node, with the three parties that *)
(* use it at the same time: callers of addTx (JSON-RPC, gRPC, gossip), the *)
(* handlers that the pool's main loop starts, one goroutine per request,   *)
(* and the consensus loop, which takes transactions out to build a block   *)
(* and resets the pool when a block is written.                            *)
(*                                                                         *)
(* A step is what a goroutine does under the locks of one account, or      *)
(* between two of them.  Signatures, balances, gas and prices are left     *)
(* out: a transaction that fails validateTx never enters, one that fails   *)
(* to execute is any transaction, and Peek takes any executable.           *)
(***************************************************************************)
EXTENDS Integers, Sequences, FiniteSets, FiniteSetsExt

CONSTANTS
  Txs,       \* records with fields from, nonce, id and slots
  MaxSlots,  \* config.MaxSlots
  GaugeMod,  \* the modulus of the gauge (2^64 in the code)
  MaxHandlers \* bound: goroutines at work when a caller comes

ASSUME TxsAssumption ==
  /\ IsFiniteSet(Txs)
  /\ \A t \in Txs : t.nonce \in Nat /\ t.slots \in Nat \ {0}
ASSUME LimitsAssumption == MaxSlots \in Nat /\ GaugeMod \in Nat /\ MaxSlots < GaugeMod

Accounts == {t.from : t \in Txs}

VARIABLES
  accounts,    \* "none", "stored" by LoadOrStore, or "ready" after init.Do
  nextNonce,   \* account.nextNonce
  enqueued,    \* account.enqueued, in heap order
  promoted,    \* account.promoted, in heap order
  index,       \* the lookup map
  gauge,       \* slotGauge.height
  creating,    \* addTx calls inside createAccountOnce: [tx, nonce (read before), stored, id]
  requests,    \* copies of a transaction sent to enqueueReqCh
  pushed,      \* copies enqueued by a handler that has not updated the index
  registered,  \* copies whose handler has still to compare the nonce
  promoteReqs, \* requests on promoteReqCh and handlers about to promote
  nonces,      \* the nonces in the state of the head block
  node,        \* what the consensus loop does
  executables, \* the priced queue that Prepare fills
  block        \* the block that is built or written: [tx, ok], ok if it was executed

poolVars == <<accounts, nextNonce, enqueued, promoted, index, gauge>>
handlerVars == <<creating, requests, pushed, registered, promoteReqs>>
nodeVars == <<nonces, node, executables, block>>
vars == <<poolVars, handlerVars, nodeVars>>

Init ==
  /\ accounts = [a \in Accounts |-> "none"]
  /\ nextNonce = [a \in Accounts |-> 0]
  /\ enqueued = [a \in Accounts |-> <<>>]
  /\ promoted = [a \in Accounts |-> <<>>]
  /\ index = {}
  /\ gauge = 0
  /\ creating = {}
  /\ requests = [t \in Txs |-> 0]
  /\ pushed = [t \in Txs |-> 0]
  /\ registered = [t \in Txs |-> 0]
  /\ promoteReqs = [a \in Accounts |-> 0]
  /\ nonces = [a \in Accounts |-> 0]
  /\ node = "idle"
  /\ executables = {}
  /\ block = {}

-----------------------------------------------------------------------------
(* Queues and the gauge *)

\* slotsRequired of a list of transactions.
Slots(ts) == MapThenSumSet(LAMBDA i : ts[i].slots, DOMAIN ts)

\* The gauge is an unsigned counter that wraps around.
Increase(slots) == (gauge + slots) % GaugeMod

Decrease(slots) == (gauge - slots) % GaugeMod

\* heap.Push of one transaction after the other: the first that came of the
\* smallest nonce is the head; where the heap keeps the other transactions of
\* one nonce is left open.
Pushes(q, ts) ==
  LET s == q \o ts
      smallest == {i \in DOMAIN s : \A j \in DOMAIN s : s[i].nonce <= s[j].nonce}
      orders == {f \in Bijection(DOMAIN s, DOMAIN s) :
                   /\ f[1] = Min(smallest)
                   /\ \A i, j \in DOMAIN s : i < j => s[f[i]].nonce <= s[f[j]].nonce}
  IN {[i \in DOMAIN s |-> s[f[i]]] : f \in orders}

\* Mutant: an off-by-one leaves the last stale transaction uncounted.
PrunedBelow(q, nonce) == SelectSeq(q, LAMBDA t : t.nonce + 1 < nonce)

\* prune(nonce): how many transactions its loop takes from the head, what is
\* kept, and what is removed.
Stale(q, nonce) == Max({k \in 0 .. Len(q) : \A i \in 1 .. k : q[i].nonce < nonce})
Kept(q, nonce) == SubSeq(q, Stale(q, nonce) + 1, Len(q))
Pruned(q, nonce) == SubSeq(q, 1, Stale(q, nonce))

\* How many transactions the loop of promote moves: consecutive nonces.
RunLength(q) ==
  Max({k \in 1 .. Len(q) : \A i \in 1 .. k : q[i].nonce = q[1].nonce + i - 1})

-----------------------------------------------------------------------------
(* addTx *)

\* The goroutines at work in addTx and the handlers.
Handlers ==
  Cardinality(creating)
  + MapThenSumSet(LAMBDA t : requests[t] + pushed[t] + registered[t], Txs)
  + MapThenSumSet(LAMBDA a : promoteReqs[a], Accounts)

\* Calls that are alike are told apart.
NewId == CHOOSE i \in 1 .. MaxHandlers : \A c \in creating : c.id # i

\* validateTx, the overflow check, the lookup.  A caller that finds no account
\* goes on in createAccountOnce with the nonce in the state; the others send their
\* request.
AddTx(t) ==
  /\ node # "panicked"
  /\ Handlers < MaxHandlers
  /\ nonces[t.from] <= t.nonce
  /\ (gauge + t.slots) % GaugeMod <= MaxSlots
  /\ t \notin index
  /\ IF accounts[t.from] = "none"
     THEN /\ creating' = creating \cup
               {[tx |-> t, nonce |-> nonces[t.from], stored |-> FALSE, id |-> NewId]}
          /\ UNCHANGED requests
     ELSE /\ requests' = [requests EXCEPT ![t] = @ + 1]
          /\ UNCHANGED creating
  /\ UNCHANGED <<poolVars, pushed, registered, promoteReqs, nodeVars>>

\* LoadOrStore: the account is there from now on, and not initialised.
StoreAccount(c) ==
  /\ node # "panicked"
  /\ c \in creating /\ ~c.stored
  /\ creating' = (creating \ {c}) \cup
       {[tx |-> c.tx, nonce |-> c.nonce, stored |-> TRUE, id |-> c.id]}
  /\ accounts' = [accounts EXCEPT ![c.tx.from] = IF @ = "none" THEN "stored" ELSE @]
  /\ UNCHANGED <<nextNonce, enqueued, promoted, index, gauge, requests, pushed,
                 registered, promoteReqs, nodeVars>>

\* The first call in init.Do creates the queues and sets the nonce it has read; the
\* others find it done.
InitAccount(c) ==
  /\ node # "panicked"
  /\ c \in creating /\ c.stored
  /\ creating' = creating \ {c}
  /\ accounts' = [accounts EXCEPT ![c.tx.from] = "ready"]
  /\ nextNonce' = [nextNonce EXCEPT ![c.tx.from] =
                     IF accounts[c.tx.from] = "ready" THEN @ ELSE c.nonce]
  /\ requests' = [requests EXCEPT ![c.tx] = @ + 1]
  /\ UNCHANGED <<enqueued, promoted, index, gauge, pushed, registered, promoteReqs,
                 nodeVars>>

-----------------------------------------------------------------------------
(* Handlers *)

\* handleEnqueueRequest up to account.enqueue, which refuses a low nonce.
Enqueue(t) ==
  /\ node # "panicked"
  /\ requests[t] > 0
  /\ accounts[t.from] = "ready"
  /\ requests' = [requests EXCEPT ![t] = @ - 1]
  /\ \/ /\ t.nonce < nextNonce[t.from]
        /\ UNCHANGED <<enqueued, pushed>>
     \/ /\ t.nonce >= nextNonce[t.from]
        /\ \E q \in Pushes(enqueued[t.from], <<t>>) :
             enqueued' = [enqueued EXCEPT ![t.from] = q]
        /\ pushed' = [pushed EXCEPT ![t] = @ + 1]
  /\ UNCHANGED <<accounts, nextNonce, promoted, index, gauge, creating, registered,
                 promoteReqs, nodeVars>>

\* index.add and gauge.increase.
Register(t) ==
  /\ node # "panicked"
  /\ pushed[t] > 0
  /\ pushed' = [pushed EXCEPT ![t] = @ - 1]
  /\ index' = index \cup {t}
  /\ gauge' = Increase(t.slots)
  /\ registered' = [registered EXCEPT ![t] = @ + 1]
  /\ UNCHANGED <<accounts, nextNonce, enqueued, promoted, creating, requests,
                 promoteReqs, nodeVars>>

\* The handler ends here if the nonce is still too large.
CheckNonce(t) ==
  /\ node # "panicked"
  /\ registered[t] > 0
  /\ registered' = [registered EXCEPT ![t] = @ - 1]
  /\ promoteReqs' = IF t.nonce > nextNonce[t.from] THEN promoteReqs
                    ELSE [promoteReqs EXCEPT ![t.from] = @ + 1]
  /\ UNCHANGED <<poolVars, creating, requests, pushed, nodeVars>>

Promotable(a) == enqueued[a] # <<>> /\ enqueued[a][1].nonce <= nextNonce[a]

\* handlePromoteRequest: move the run of nonces at the head of enqueued.
Promote(a) ==
  /\ node # "panicked"
  /\ promoteReqs[a] > 0
  /\ promoteReqs' = [promoteReqs EXCEPT ![a] = @ - 1]
  /\ \/ ~Promotable(a) /\ UNCHANGED <<nextNonce, enqueued, promoted>>
     \/ /\ Promotable(a)
        /\ LET q == enqueued[a]
               k == RunLength(q)
           IN /\ \E p \in Pushes(promoted[a], SubSeq(q, 1, k)) :
                   promoted' = [promoted EXCEPT ![a] = p]
              /\ enqueued' = [enqueued EXCEPT ![a] = SubSeq(q, k + 1, Len(q))]
              /\ nextNonce' = [nextNonce EXCEPT ![a] = Max({@, q[1].nonce + k})]
  /\ UNCHANGED <<accounts, index, gauge, creating, requests, pushed, registered,
                 nodeVars>>

-----------------------------------------------------------------------------
(* The consensus loop: writeTransactions *)

Heads == {promoted[a][1] : a \in {b \in Accounts : promoted[b] # <<>>}}

\* Prepare clears the executables of the round before and collects the heads.
Prepare ==
  /\ node = "idle"
  /\ \A a \in Accounts : accounts[a] # "stored"
  /\ node' = "building"
  /\ executables' = Heads
  /\ block' = {}
  /\ UNCHANGED <<poolVars, handlerVars, nonces>>

\* The nonce of an account in the transition of the block.
BuiltNonce(a) == nonces[a] + Cardinality({e \in block : e.tx.from = a /\ e.ok})

\* Mutant: the next primary is read before the pop.
WriteTxPeekFirst(t) ==
  /\ node = "building"
  /\ t \in executables
  /\ t.nonce = BuiltNonce(t.from)
  /\ block' = block \cup {[tx |-> t, ok |-> TRUE]}
  /\ promoted' = [promoted EXCEPT ![t.from] = Tail(@)]
  /\ gauge' = Decrease(t.slots)
  /\ executables' = (executables \ {t}) \cup {promoted[t.from][1]}
  /\ UNCHANGED <<accounts, nextNonce, enqueued, index, handlerVars, nonces, node>>

\* Peek, a Write that succeeds, and Pop: the head of the promoted queue goes,
\* and the next one becomes executable.
WriteTx(t) ==
  /\ node = "building"
  /\ t \in executables
  /\ t.nonce = BuiltNonce(t.from)
  /\ block' = block \cup {[tx |-> t, ok |-> TRUE]}
  /\ promoted' = [promoted EXCEPT ![t.from] = Tail(@)]
  /\ gauge' = Decrease(t.slots)
  /\ executables' = (executables \ {t}) \cup
       (IF Len(promoted[t.from]) > 1 THEN {promoted[t.from][2]} ELSE {})
  /\ UNCHANGED <<accounts, nextNonce, enqueued, index, handlerVars, nonces, node>>

\* Peek, a Write that fails (or a gas limit above the block's, then with a
\* failed receipt), and Drop: the account is cleared, its nonce rolled back.
DropTx(t) ==
  LET a == t.from IN
  /\ node = "building"
  /\ t \in executables
  /\ \E receipt \in BOOLEAN :
       block' = IF receipt THEN block \cup {[tx |-> t, ok |-> FALSE]} ELSE block
  /\ nextNonce' = [nextNonce EXCEPT ![a] = t.nonce]
  /\ promoted' = [promoted EXCEPT ![a] = <<>>]
  /\ enqueued' = [enqueued EXCEPT ![a] = <<>>]
  /\ index' = index \ (Range(promoted[a]) \cup Range(enqueued[a]))
  /\ gauge' = Decrease(Slots(promoted[a]) + Slots(enqueued[a]))
  /\ executables' = executables \ {t}
  /\ UNCHANGED <<accounts, handlerVars, nonces, node>>

\* No executable is left, or the one that was peeked is more than the gas that
\* is left in the block: it stays promoted, the others stay executable.
FinishBlock ==
  /\ node = "building"
  /\ \/ executables = {} /\ UNCHANGED executables
     \/ \E t \in executables : executables' = executables \ {t}
  /\ node' = "built"
  /\ UNCHANGED <<poolVars, handlerVars, nonces, block>>

-----------------------------------------------------------------------------
(* The consensus loop: a block is written, and then ResetWithHeaders *)

\* The state of the head has the nonces after the transactions that were executed.
NoncesAfter(ok) == [a \in Accounts |-> nonces[a] + Cardinality({t \in ok : t.from = a})]

\* insertBlock writes the block that was built.
InsertOwn ==
  /\ node = "built"
  /\ nonces' = NoncesAfter({e.tx : e \in {f \in block : f.ok}})
  /\ node' = "written"
  /\ UNCHANGED <<poolVars, handlerVars, executables, block>>

\* The round ended without the block, and nothing returns its transactions.
AbandonBlock ==
  /\ node = "built"
  /\ node' = "idle"
  /\ block' = {}
  /\ UNCHANGED <<poolVars, handlerVars, nonces, executables>>

\* The transactions another proposer can put in a block.
OthersBlocks ==
  {ts \in SUBSET Txs \ {{}} : \A t \in ts :
     /\ nonces[t.from] <= t.nonce
     /\ \A m \in nonces[t.from] .. t.nonce :
          Cardinality({u \in ts : u.from = t.from /\ u.nonce = m}) = 1}

\* A block of another proposer is sealed, or synced.
InsertOther ==
  /\ node \in {"idle", "built"}
  /\ \E ts \in OthersBlocks :
       /\ nonces' = NoncesAfter(ts)
       /\ block' = {[tx |-> t, ok |-> TRUE] : t \in ts}
  /\ node' = "written"
  /\ UNCHANGED <<poolVars, handlerVars, executables>>

Written == {e.tx : e \in block}
Senders == {t.from : t \in Written}

\* resetAccount prunes the promoted queue of every account of the block that is
\* known, and the enqueued one where the account is behind the state.
Reset == {a \in Senders : accounts[a] = "ready"}
Behind == {a \in Reset : nonces[a] > nextNonce[a]}
PrunedPromoted(a) == IF a \in Reset THEN Pruned(promoted[a], nonces[a]) ELSE <<>>
PrunedEnqueued(a) == IF a \in Behind THEN Pruned(enqueued[a], nonces[a]) ELSE <<>>

\* Mutant: resetAccount signals no promotion.
SignalledNever(a) == FALSE

\* The first enqueued transaction is expected.
Signalled(a) ==
  a \in Behind /\ enqueued'[a] # <<>> /\ enqueued'[a][1].nonce = nonces[a]

\* processEvent.  No account of the block is half created (see Panic).
ResetWithHeaders ==
  /\ node = "written"
  /\ \A a \in Senders : accounts[a] # "stored"
  /\ promoted' = [a \in Accounts |->
       IF a \in Reset THEN Kept(promoted[a], nonces[a]) ELSE promoted[a]]
  /\ enqueued' = [a \in Accounts |->
       IF a \in Behind THEN Kept(enqueued[a], nonces[a]) ELSE enqueued[a]]
  /\ nextNonce' = [a \in Accounts |-> IF a \in Behind THEN nonces[a] ELSE nextNonce[a]]
  /\ promoteReqs' = [a \in Accounts |->
       IF Signalled(a) THEN promoteReqs[a] + 1 ELSE promoteReqs[a]]
  /\ index' = index \ (Written \cup
       UNION {Range(PrunedPromoted(a)) \cup Range(PrunedEnqueued(a)) : a \in Accounts})
  /\ gauge' = Decrease(MapThenSumSet(
       LAMBDA a : Slots(PrunedPromoted(a)) + Slots(PrunedEnqueued(a)), Accounts))
  /\ node' = "idle"
  /\ block' = {}
  /\ UNCHANGED <<accounts, creating, requests, pushed, registered, nonces, executables>>

\* Queues of an account that is stored but not initialised are nil: a handler,
\* getPrimaries or resetAccount that meets one takes the process down.
Panic ==
  /\ \E a \in Accounts :
       /\ accounts[a] = "stored"
       /\ \/ node = "idle"
          \/ node = "written" /\ a \in Senders
          \/ \E t \in Txs : node # "panicked" /\ t.from = a /\ requests[t] > 0
  /\ node' = "panicked"
  /\ UNCHANGED <<poolVars, handlerVars, nonces, executables, block>>

Stopped == node = "panicked" /\ UNCHANGED vars

-----------------------------------------------------------------------------
(* Specification *)

HandlerStep ==
  \/ \E c \in creating : StoreAccount(c) \/ InitAccount(c)
  \/ \E t \in Txs : Enqueue(t) \/ Register(t) \/ CheckNonce(t)
  \/ \E a \in Accounts : Promote(a)

NodeStep ==
  \/ Prepare
  \/ \E t \in executables : WriteTx(t) \/ DropTx(t)
  \/ FinishBlock \/ InsertOwn \/ AbandonBlock \/ InsertOther \/ ResetWithHeaders

Next ==
  \/ \E t \in Txs : AddTx(t)
  \/ HandlerStep
  \/ NodeStep
  \/ Panic
  \/ Stopped

\* The main loop serves both channels and the handlers are goroutines of their
\* own; nothing is assumed of callers and of the consensus loop.
Fairness ==
  /\ \A t \in Txs : WF_vars(Enqueue(t)) /\ WF_vars(Register(t)) /\ WF_vars(CheckNonce(t))
  /\ \A a \in Accounts : WF_vars(Promote(a))

Spec == Init /\ [][Next]_vars /\ Fairness

-----------------------------------------------------------------------------
(* Properties *)

\* An executable is in the promoted queue of its account, which has no other
\* one: what Pop and Drop remove is there, whatever handlers ran since Prepare.
ExecutablesPromoted ==
  node = "building" => \A t \in executables :
    /\ t \in Range(promoted[t.from])
    /\ \A u \in executables : u.from = t.from => u = t

\* The gauge is the number of slots in the queues but for the handlers that
\* have still to raise it (increase after enqueue, decrease in Pop, Drop and
\* resetAccount, modulo 2^64).
Occupied ==
  MapThenSumSet(LAMBDA a : Slots(enqueued[a]) + Slots(promoted[a]), Accounts)

GaugeBalance ==
  gauge = (Occupied - MapThenSumSet(LAMBDA t : pushed[t] * t.slots, Txs)) % GaugeMod

\* An account whose first enqueued transaction is the expected one.
HeadExpected(a) == enqueued[a] # <<>> /\ enqueued[a][1].nonce = nextNonce[a]

\* The first enqueued transaction does not stay there once it is expected: a
\* handler or resetAccount signals the promotion.
ExpectedServed ==
  \A a \in Accounts : HeadExpected(a) ~> (~HeadExpected(a) \/ node = "panicked")
=============================================================================
