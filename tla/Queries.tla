------------------------------ MODULE Queries -------------------------------
(***************************************************************************)
(* The reading methods of the eth endpoint (rpc/eth_endpoint.go) while     *)
(* another goroutine writes blocks (core/blockchain.go, WriteBlock).  A    *)
(* reader takes no lock: every read of the store is a step of its own, and *)
(* so is every write.                                                      *)
(*                                                                         *)
(* The chain has one block for each number and the number is its hash.     *)
(* Gas is scaled down; that a transaction with more gas does not fail      *)
(* where one with less succeeds is an assumption on contracts.             *)
(***************************************************************************)
EXTENDS Integers, Sequences, Functions

CONSTANTS
  BlockTxs,        \* number -> transactions of the block, from 1 on
  TxLogs,          \* transaction -> logs of its receipt
  NonceAt,         \* number -> nonce of the sender in the state of the block, from 0
  BalanceAt,       \* number -> its balance
  Asked,           \* the queries that clients send
  GasLimit, GasCap, TxGas, TxGasContractCreation,
  SignBit,         \* of a block number: 2^63 in the code
  BadText          \* text that is no address and no hash

VARIABLES
  db,         \* the store: headers, canonical hashes, bodies, receipts, lookups
  latest,     \* number of the current header
  index,      \* transactions of the pool
  write,      \* what the running WriteBlock has still to do
  reader,     \* the running query
  answer      \* the last answer

queryVars == <<db, latest, index, write, reader, answer>>

Numbers == DOMAIN BlockTxs
AllTxs == UNION {Range(BlockTxs[n]) : n \in Numbers}
Missing == -1

ASSUME ChainAssumption ==
  /\ BlockTxs \in Seq(Seq(DOMAIN TxLogs))
  /\ \A t \in DOMAIN TxLogs : TxLogs[t] \in Seq(Range(TxLogs[t]))

ASSUME GasAssumption ==
  /\ {GasLimit, GasCap, TxGas, TxGasContractCreation} \subseteq Nat
  /\ \A n \in 0 .. Len(BlockTxs) : BalanceAt[n] \in Nat

\* A number as a client spells it, and the transaction of an estimate.
Spelled == [text : {"pending", "latest", "earliest", "number"}, n : 0 .. 2 * SignBit - 1]
Estimated(a) ==
  /\ {a.ok, a.sender, a.creation} \subseteq BOOLEAN
  /\ {a.gas, a.price, a.value, a.intrinsic, a.needs} \subseteq Nat

ASSUME AskedAssumption ==
  /\ SignBit \in Nat \ {0}
  /\ \A q \in Asked :
       \/ q.kind \in {"tx", "receipt"}
       \/ q.kind = "block" /\ q.at \in Spelled
       \/ /\ q.kind = "state"
          /\ q.at.form \in {"absent", "number", "hash", "both", "neither"}
          /\ q.at.form = "number" => [text |-> q.at.text, n |-> q.at.n] \in Spelled
       \/ q.kind = "logs" /\ q.from \in Spelled /\ q.to \in Spelled
       \/ q.kind = "gas" /\ Estimated(q.at) /\ q.block \in Spelled

-----------------------------------------------------------------------------
(* Decoding *)

PendingBlockNumber == -3
LatestBlockNumber == -2
EarliestBlockNumber == -1

\* A number of 64 bits becomes a signed one.
BlockNumber(n) == IF n >= SignBit THEN n - 2 * SignBit ELSE n
Unsigned(n) == IF n < 0 THEN n + 2 * SignBit ELSE n

stringToBlockNumber(s) ==
  CASE s.text = "pending" -> PendingBlockNumber
    [] s.text = "latest" -> LatestBlockNumber
    [] s.text = "earliest" -> EarliestBlockNumber
    [] s.text = "number" -> BlockNumber(s.n)

\* An absent argument is the latest block; one with both or neither is refused.
DecodeWhere(w) ==
  CASE w.form = "absent" -> [ok |-> TRUE, number |-> LatestBlockNumber, hash |-> Missing]
    [] w.form = "number" -> [ok |-> TRUE, number |-> stringToBlockNumber(w), hash |-> Missing]
    [] w.form = "hash" -> [ok |-> TRUE, number |-> 0, hash |-> w.n]
    [] w.form \in {"both", "neither"} -> [ok |-> FALSE, number |-> 0, hash |-> Missing]

addAddress(raw) == IF raw.form = "list" THEN raw.items ELSE IF raw.form = "one" THEN <<raw.item>> ELSE <<>>

\* A topic is one hash, a list of them or null, which any topic matches.
addTopicSet(raw) ==
  CASE raw.form = "null" -> <<>>
    [] raw.form = "one" -> <<raw.item>>
    [] raw.form = "list" -> raw.items

\* The other arguments of a filter decode one by one; the first bad one ends it.
LogFilter(f) ==
  LET addresses == addAddress(f.address)
      topics == [i \in DOMAIN f.topics |-> addTopicSet(f.topics[i])]
  IN [ok |-> BadText \notin Range(addresses) /\ \A i \in DOMAIN topics : BadText \notin Range(topics[i]),
      hash |-> f.hash, from |-> stringToBlockNumber(f.from), to |-> stringToBlockNumber(f.to),
      addresses |-> addresses, topics |-> topics]

Match(f, log) ==
  /\ f.addresses # <<>> => log.address \in Range(f.addresses)
  /\ Len(f.topics) <= Len(log.topics)
  /\ \A i \in DOMAIN f.topics : f.topics[i] = <<>> \/ log.topics[i] \in Range(f.topics[i])

-----------------------------------------------------------------------------
(* Store *)

ReadTxLookup(t) == IF t \in AllTxs THEN db.lookup[t] ELSE Missing
ReadCanonicalHash(n) == IF n \in db.canonical THEN n ELSE Missing

\* The header is read and then the body, which was written before it.
GetBlockByHash(h, full) == h \in db.headers /\ (full => h \in db.bodies)
GetBlockByNumber(n) == ReadCanonicalHash(n) # Missing /\ GetBlockByHash(n, n # 0)
GetHeaderByNumber(n) == n \in db.canonical /\ n \in db.headers

IndexIn(t, n) == CHOOSE i \in DOMAIN BlockTxs[n] : BlockTxs[n][i] = t

-----------------------------------------------------------------------------
(* WriteBlock, one write after the other, and the pool *)

W(key, n) == [key |-> key, n |-> n, tx |-> 0]

writeBody(n) ==
  <<W("bodies", n)>> \o [i \in DOMAIN BlockTxs[n] |-> [W("lookup", n) EXCEPT !.tx = i]]

\* Mutant: the receipts are written with the body.
BeginWriteReceiptsFirst ==
  /\ write = <<>> /\ latest + 1 \in Numbers
  /\ write' = writeBody(latest + 1) \o
       <<W("receipts", latest + 1), W("headers", latest + 1), W("canonical", latest + 1),
         W("current", latest + 1), W("event", latest + 1)>>
  /\ UNCHANGED <<db, latest, index, reader, answer>>

\* The block has been executed and its state stored.  The receipts come after
\* the header, and the event after them.
BeginWrite ==
  /\ write = <<>>
  /\ latest + 1 \in Numbers
  /\ write' = writeBody(latest + 1) \o
       <<W("headers", latest + 1), W("canonical", latest + 1), W("current", latest + 1),
         W("receipts", latest + 1), W("event", latest + 1)>>
  /\ UNCHANGED <<db, latest, index, reader, answer>>

\* On the event the pool drops the transactions of the block.
DoWrite ==
  /\ write # <<>>
  /\ LET w == Head(write) IN
       /\ db' = CASE w.key \in {"headers", "canonical", "bodies", "receipts"} ->
                       [db EXCEPT ![w.key] = @ \cup {w.n}]
                  [] w.key = "lookup" -> [db EXCEPT !.lookup[BlockTxs[w.n][w.tx]] = w.n]
                  [] OTHER -> db
       /\ latest' = IF w.key = "current" THEN w.n ELSE latest
       /\ index' = IF w.key = "event" THEN index \ Range(BlockTxs[w.n]) ELSE index
  /\ write' = Tail(write)
  /\ UNCHANGED <<reader, answer>>

-----------------------------------------------------------------------------
(* Queries *)

NoQuery == [pc |-> "idle"]
Nil == [kind |-> "nil"]
Answered(a) == answer' = a /\ reader' = NoQuery
Goto(pc, r) == reader' = [r EXCEPT !.pc = pc] /\ answer' = Nil
OnlyReads == UNCHANGED <<db, latest, index, write>>
Failed == [kind |-> "error"]

\* A query arrives; what does not decode is answered at once.
Begin(q, pc, a) ==
  Goto(pc, [pc |-> pc, q |-> q, arg |-> a, blk |-> Missing, nonce |-> 0, lo |-> 0, hi |-> 0, cap |-> 0,
            tx |-> 0, log |-> 0, logs |-> <<>>, asked |-> latest])
Checked(q, pc, a) == IF a.ok THEN Begin(q, pc, a) ELSE Answered(Failed)
Ask(q) ==
  /\ reader.pc = "idle"
  /\ OnlyReads
  /\ CASE q.kind \in {"tx", "receipt"} -> Begin(q, "lookup", q)
       [] q.kind = "block" -> Begin(q, "block", stringToBlockNumber(q.at))
       [] q.kind = "state" -> Checked(q, "header", DecodeWhere(q.at))
       [] q.kind = "logs" -> Checked(q, "range", LogFilter(q))
       [] q.kind = "gas" -> Checked(q, "decode", q.at)

\* The transaction is looked for in the chain and then in the pool.
Lookup ==
  /\ reader.pc = "lookup"
  /\ OnlyReads
  /\ LET h == ReadTxLookup(reader.arg.tx) IN
       IF h # Missing THEN Goto("txblock", [reader EXCEPT !.blk = h])
       ELSE IF reader.q.kind = "tx" THEN Goto("pool", reader) ELSE Answered(Nil)

\* The block of the lookup need not be there yet.
TxBlock ==
  /\ reader.pc = "txblock"
  /\ OnlyReads
  /\ IF GetBlockByHash(reader.blk, TRUE)
     THEN IF reader.q.kind = "tx"
          THEN Answered([kind |-> "tx", block |-> reader.blk, i |-> IndexIn(reader.arg.tx, reader.blk)])
          ELSE Goto("receipts", reader)
     ELSE IF reader.q.kind = "tx" THEN Goto("pool", reader) ELSE Answered(Nil)

findPendingTx ==
  /\ reader.pc = "pool"
  /\ OnlyReads
  /\ Answered(IF reader.arg.tx \in index THEN [kind |-> "pending"] ELSE Nil)

GetTransactionReceipt ==
  /\ reader.pc = "receipts"
  /\ OnlyReads
  /\ Answered(IF reader.blk \in db.receipts
              THEN [kind |-> "receipt", block |-> reader.blk, i |-> IndexIn(reader.arg.tx, reader.blk)]
              ELSE Nil)

\* GetNumericBlockNumber, the block and its transactions.
EthGetBlockByNumber ==
  /\ reader.pc = "block"
  /\ OnlyReads
  /\ LET n == CASE reader.arg = LatestBlockNumber -> latest
                [] reader.arg = EarliestBlockNumber -> 0
                [] OTHER -> reader.arg
     IN Answered(IF n < 0 THEN Failed
                 ELSE IF GetBlockByNumber(n) THEN [kind |-> "block", block |-> n] ELSE Nil)

-----------------------------------------------------------------------------
(* State at a block *)

\* getBlockHeader; Missing is its error.
getBlockHeader(n) ==
  CASE n = LatestBlockNumber -> latest
    [] n = EarliestBlockNumber -> IF GetHeaderByNumber(0) THEN 0 ELSE Missing
    [] n = PendingBlockNumber -> Missing
    [] OTHER -> IF GetHeaderByNumber(Unsigned(n)) THEN Unsigned(n) ELSE Missing

getHeaderFromBlockNumberOrHash(w) ==
  IF w.hash # Missing
  THEN IF GetBlockByHash(w.hash, FALSE) THEN w.hash ELSE Missing
  ELSE getBlockHeader(w.number)

\* GetBalance, GetCode, GetStorageAt and Call read the state of the header;
\* GetTransactionCount asks the pool for the pending nonce, and reads the header
\* of a hash again by its number.
StateHeader ==
  /\ reader.pc = "header"
  /\ OnlyReads
  /\ LET h == getHeaderFromBlockNumberOrHash(reader.arg)
         pending == reader.arg.hash = Missing /\ reader.arg.number = PendingBlockNumber
     IN IF reader.q.what = "nonce" /\ reader.arg.hash # Missing /\ h # Missing
        THEN Goto("header", [reader EXCEPT !.arg.number = h, !.arg.hash = Missing])
        ELSE Answered(IF reader.q.what = "nonce" /\ pending THEN [kind |-> "pool"]
                      ELSE IF h = Missing THEN Failed
                      ELSE [kind |-> "state", block |-> h, asked |-> reader.asked,
                            last |-> reader.arg.number = LatestBlockNumber])

-----------------------------------------------------------------------------
(* GetLogs *)

LogsAnswer(r) == [kind |-> "logs", logs |-> r.logs, f |-> r.arg, lo |-> r.lo, hi |-> r.hi, asked |-> r.asked]

resolveNum(n) ==
  CASE n \in {PendingBlockNumber, LatestBlockNumber} -> latest
    [] n = EarliestBlockNumber -> 0
    [] OTHER -> Unsigned(n)

\* A filter by hash has one block; the head is read once for both ends.
LogRange ==
  /\ reader.pc = "range"
  /\ OnlyReads
  /\ LET h == reader.arg.hash
         from == resolveNum(reader.arg.from)
         to == resolveNum(reader.arg.to)
     IN IF h # Missing
        THEN IF ~GetBlockByHash(h, TRUE) THEN Answered(Failed)
             ELSE IF BlockTxs[h] = <<>> THEN Answered(LogsAnswer([reader EXCEPT !.lo = h, !.hi = h]))
             ELSE Goto("logreceipts", [reader EXCEPT !.blk = h, !.lo = h, !.hi = h])
        ELSE IF to < from THEN Answered(Failed)
        ELSE Goto("logblock", [reader EXCEPT !.blk = from, !.lo = from, !.hi = to])

\* One block of the range; the first that is not there ends it.
LogBlock ==
  /\ reader.pc = "logblock"
  /\ OnlyReads
  /\ IF reader.blk > reader.hi \/ ~GetBlockByNumber(reader.blk) THEN Answered(LogsAnswer(reader))
     ELSE IF reader.blk = 0 \/ BlockTxs[reader.blk] = <<>>
          THEN Goto("logblock", [reader EXCEPT !.blk = @ + 1])
          ELSE Goto("logreceipts", reader)

\* Mutant: a block whose receipts are not there has no logs.
LogReceiptsSkip ==
  /\ reader.pc = "logreceipts"
  /\ OnlyReads
  /\ IF reader.blk \notin db.receipts THEN Goto("logblock", [reader EXCEPT !.blk = @ + 1])
     ELSE Goto("parse", [reader EXCEPT !.tx = 1, !.log = 1])

\* Receipts that cannot be read end the query.
LogReceipts ==
  /\ reader.pc = "logreceipts"
  /\ OnlyReads
  /\ IF reader.blk \notin db.receipts THEN Answered(Failed)
     ELSE Goto("parse", [reader EXCEPT !.tx = 1, !.log = 1])

\* The loops of parseReceipts, a log each step: the logs that match, with their
\* places.  After the last receipt comes the next block of the range.
parseReceipts ==
  /\ reader.pc = "parse"
  /\ OnlyReads
  /\ LET txs == BlockTxs[reader.blk]
         logs == TxLogs[txs[reader.tx]]
     IN IF reader.tx > Len(txs)
        THEN IF reader.arg.hash # Missing THEN Answered(LogsAnswer(reader))
             ELSE Goto("logblock", [reader EXCEPT !.blk = @ + 1, !.tx = 0, !.log = 0])
        ELSE IF reader.log > Len(logs) THEN Goto("parse", [reader EXCEPT !.tx = @ + 1, !.log = 1])
        ELSE Goto("parse", [reader EXCEPT
               !.logs = IF Match(reader.arg, logs[reader.log])
                        THEN Append(@, <<reader.blk, reader.tx, reader.log>>) ELSE @,
               !.log = @ + 1])

-----------------------------------------------------------------------------
(* EstimateGas *)

\* Without a sender it is the zero address, which has nothing.
NonceOf(a, n) == IF a.sender THEN NonceAt[n] ELSE 0
BalanceOf(a, n) == IF a.sender THEN BalanceAt[n] ELSE 0

\* ApplyTxn on the state of block n: an error before it runs, failed or not.
ApplyTxn(a, nonce, n, gas) ==
  IF \/ nonce # NonceOf(a, n) \/ gas > GasLimit \/ gas < a.intrinsic
     \/ gas * a.price + a.value > BalanceOf(a, n)
  THEN "error" ELSE IF gas < a.needs THEN "failed" ELSE "done"

\* decodeTxn takes the nonce from the state of the latest block.
decodeTxn ==
  /\ reader.pc = "decode"
  /\ OnlyReads
  /\ Goto("ends", [reader EXCEPT !.nonce = NonceOf(reader.arg, latest)])

standardGas(a) == IF a.creation THEN TxGasContractCreation ELSE TxGas
Lesser(a, b) == IF a < b THEN a ELSE b

\* The header that was asked for, the latest one if none was, and both ends of the
\* search; the latest may be a later one than decodeTxn has read.
SearchEnds ==
  /\ reader.pc = "ends"
  /\ OnlyReads
  /\ LET a == reader.arg
         h == getBlockHeader(stringToBlockNumber(reader.q.block))
         limit == IF a.gas # 0 /\ a.gas >= standardGas(a) THEN a.gas ELSE GasLimit
         paid == a.sender /\ a.price # 0
         high == Lesser(GasCap, IF paid THEN Lesser(limit, (BalanceAt[h] - a.value) \div a.price)
                                ELSE limit)
     IN IF h = Missing THEN Answered(Failed)
        ELSE IF paid /\ a.value >= BalanceAt[h] THEN Answered(Failed)
        ELSE Goto("search", [reader EXCEPT !.blk = h, !.lo = standardGas(a), !.hi = high, !.cap = high])

Estimate(r, gas) ==
  [kind |-> "gas", gas |-> gas, a |-> r.arg, nonce |-> r.nonce, block |-> r.blk, cap |-> r.cap]

\* Mutant: the last gas that fails is the answer.
SearchStepLow ==
  /\ reader.pc = "search"
  /\ OnlyReads
  /\ LET mid == (reader.lo + reader.hi) \div 2
         tested == ApplyTxn(reader.arg, reader.nonce, reader.blk, mid)
     IN IF reader.lo > reader.hi THEN Answered(Estimate(reader, reader.hi))
        ELSE IF tested = "error" THEN Answered(Failed)
        ELSE Goto("search", IF tested = "failed" THEN [reader EXCEPT !.lo = mid + 1]
                            ELSE [reader EXCEPT !.hi = mid - 1])

\* One test of the search.  At the end the ceiling is tested once more when it
\* is the answer.
SearchStep ==
  /\ reader.pc = "search"
  /\ OnlyReads
  /\ LET mid == (reader.lo + reader.hi) \div 2
         tested == ApplyTxn(reader.arg, reader.nonce, reader.blk, mid)
         again == ApplyTxn(reader.arg, reader.nonce, reader.blk, reader.cap)
     IN IF reader.lo > reader.hi
        THEN Answered(IF reader.hi + 1 = reader.cap /\ again # "done" THEN Failed
                      ELSE Estimate(reader, reader.hi + 1))
        ELSE IF tested = "error" THEN Answered(Failed)
        ELSE Goto("search", IF tested = "failed" THEN [reader EXCEPT !.lo = mid + 1]
                            ELSE [reader EXCEPT !.hi = mid - 1])

-----------------------------------------------------------------------------
QueryInit ==
  /\ db = [headers |-> {0}, canonical |-> {0}, bodies |-> {}, receipts |-> {}, 
           lookup |-> [t \in AllTxs |-> Missing]]
  /\ latest = 0
  /\ index = AllTxs
  /\ write = <<>>
  /\ reader = NoQuery
  /\ answer = Nil

QueryNext ==
  \/ BeginWrite \/ DoWrite
  \/ \E q \in Asked : Ask(q)
  \/ Lookup \/ TxBlock \/ findPendingTx \/ GetTransactionReceipt
  \/ EthGetBlockByNumber \/ StateHeader
  \/ LogRange \/ LogBlock \/ LogReceipts \/ parseReceipts
  \/ decodeTxn \/ SearchEnds \/ SearchStep

QuerySpec == QueryInit /\ [][QueryNext]_queryVars

-----------------------------------------------------------------------------
(* Properties *)

\* A client that has a receipt or logs of a block can ask for its header, by
\* number or as the latest ("a client might ask for a header once the receipt
\* is valid but before it is written"), and the state of the latest block is
\* never that of a block older than the head when it was asked for.
AnswersOnChain ==
  /\ answer.kind = "receipt" => answer.block <= latest /\ GetBlockByNumber(answer.block)
  /\ answer.kind = "logs" => \A i \in DOMAIN answer.logs : answer.logs[i][1] <= latest
  /\ answer.kind = "state" /\ answer.last => answer.block >= answer.asked

\* The places of the matching logs of the blocks from lo to hi, and their order:
\* block, transaction, log.
Matching(f, n) ==
  UNION {{<<n, i, j>> : j \in {l \in DOMAIN TxLogs[BlockTxs[n][i]] : Match(f, TxLogs[BlockTxs[n][i]][l])}} :
           i \in DOMAIN BlockTxs[n]}
LogsOf(f, lo, hi) == UNION {Matching(f, n) : n \in {m \in Numbers : lo <= m /\ m <= hi}}
Before(p, q) ==
  \/ p[1] < q[1]
  \/ p[1] = q[1] /\ p[2] < q[2]
  \/ p[1] = q[1] /\ p[2] = q[2] /\ p[3] < q[3]

\* GetLogs, running beside the writer, leaves out no log of a block that was in
\* the chain when it was asked, in the range: the answer is an error, or the
\* logs of the range, in the order of the chain, up to a block that is not older
\* than the head was.
LogsExact ==
  answer.kind = "logs" =>
    /\ \A k, l \in DOMAIN answer.logs : k < l => Before(answer.logs[k], answer.logs[l])
    /\ \E last \in Lesser(answer.hi, answer.asked) .. Lesser(answer.hi, latest) :
         Range(answer.logs) = LogsOf(answer.f, answer.lo, last)

\* The gas up to the ceiling that is enough on the state the estimate was made on.
Enough(e) ==
  {g \in standardGas(e.a) .. e.cap : ApplyTxn(e.a, e.nonce, e.block, g) = "done"}

\* When some gas up to the ceiling is enough, EstimateGas answers the least that is,
\* also when a block is written between its reads.
EstimateLeast ==
  answer.kind = "gas" /\ Enough(answer) # {} =>
    answer.gas \in Enough(answer) /\ \A g \in Enough(answer) : answer.gas <= g

\* "Check the case if even the highest cap is not enough to complete the
\* transaction": then EstimateGas answers with an error, and no gas.
CapRefused == answer.kind = "gas" => Enough(answer) # {}
=============================================================================
