------------------------------- MODULE MCNode -------------------------------
(* Instances for TLC of what a node keeps, pays and answers: a block in its    *)
(* encodings, the snapshots of the validator set, the block rewards, a backup  *)
(* and its restore, and the queries of clients.  They share no state here, and *)
(* a behaviour is one of one of them.                                          *)
EXTENDS Encoding, Snapshots, Archive, Queries

-----------------------------------------------------------------------------
(* A block in its encodings: two transactions at most, signed the old or the   *)
(* new way, that succeed or fail, and a header with or without the vanity.     *)
MCValidators == <<11, 12, 13, 14>>
MCHeaders ==
  {[ok |-> TRUE, parentHash |-> <<"parent">>, sha3Uncles |-> ZeroHash, miner |-> 11,
    stateRoot |-> <<"state">>, txRoot |-> ZeroHash, receiptsRoot |-> ZeroHash, logsBloom |-> 0,
    difficulty |-> 256, number |-> 256, gasLimit |-> 300, gasUsed |-> 0, timestamp |-> 70000,
    extra |-> RawExtra(l, <<"van">>), mixHash |-> IstanbulDigest, nonce |-> 256,
    hash |-> ZeroHash] : l \in {0, 32}}
Hashed(t) == [t EXCEPT !.hash = Keccak(MarshalTx(t))]
Tx(n, to, parity, old) ==
  LET t == [ok |-> TRUE, nonce |-> n, gasPrice |-> 1, gas |-> 256, to |-> to, value |-> n,
            input |-> Str(n, <<"in">>), v |-> 0, r |-> <<>>, s |-> <<>>, hash |-> ZeroHash,
            from |-> ZeroAddress]
  IN Hashed(IF old THEN FrontierSign(t, 20 + n, parity) ELSE SignTx(t, 20 + n, parity))
Receipt(k, status, to) ==
  [ok |-> TRUE, root |-> <<"zero">>, status |-> status, cumulativeGasUsed |-> 100 * k, logsBloom |-> k,
   logs |-> IF status = 1 THEN <<[ok |-> TRUE, address |-> 9, topics |-> <<<<"t">>>>, data |-> Null]>>
            ELSE <<>>,
   gasUsed |-> k, contractAddress |-> IF to = NoAddress THEN 77 ELSE ZeroAddress]
Body(to, parity, old, status) ==
  [txs |-> [k \in DOMAIN to |-> Tx(k, to[k], parity, old)],
   receipts |-> [k \in DOMAIN to |-> Receipt(k, status, to[k])]]
MCBodies ==
  {Body(to, parity, old, status) :
     to \in {<<>>, <<9>>, <<NoAddress, 0>>}, parity \in {0, 1}, old \in BOOLEAN, status \in {0, 1}}

-----------------------------------------------------------------------------
(* Snapshots: a set that parts with the first validator, and one with a fault  *)
(* to tolerate.                                                                *)
MCGenesis == <<"A">>
MCSets == {<<"B", "C">>, <<"A", "B", "C", "D">>}

-----------------------------------------------------------------------------
(* Archive: block 2 has most of a payload to itself, and ends an epoch.        *)
MCSizes == 0 :> 1 @@ 1 :> 1 @@ 2 :> 3 @@ 3 :> 1
MCChanges == {2}

-----------------------------------------------------------------------------
(* Queries: three blocks, one of them empty, and queries that reach past       *)
(* either end.                                                                 *)
Log(a, ts) == [address |-> a, topics |-> ts]
Text(s) == [text |-> s, n |-> 0]
Num(n) == [text |-> "number", n |-> n]
Absent == [form |-> "null", item |-> "a", items |-> <<>>]
One(x) == [Absent EXCEPT !.form = "one", !.item = x]
Several(s) == [Absent EXCEPT !.form = "list", !.items = s]
AskLogs(h, f, t, a, ts) == [kind |-> "logs", hash |-> h, from |-> f, to |-> t, address |-> a, topics |-> ts]
GasAt(block, ok, sender, new, gas, price, value, extra) ==
  LET least == IF new THEN 4 ELSE 2
  IN [kind |-> "gas", block |-> block,
      at |-> [ok |-> ok, sender |-> sender, creation |-> new, gas |-> gas, price |-> price,
              value |-> value, intrinsic |-> least + 1, needs |-> least + 1 + extra]]
MCAsked ==
  {[kind |-> k, tx |-> x] : k \in {"tx", "receipt"}, x \in {"x1", "x2", "x3"}}
  \cup {[kind |-> "block", at |-> t] : t \in {Text("pending"), Text("latest"), Text("earliest"), Num(2), Num(15)}}
  \cup {[kind |-> "state", what |-> w, at |-> [form |-> f] @@ t] :
          w \in {"nonce", "balance"}, f \in {"absent", "number", "hash", "both"},
          t \in {Text("pending"), Text("latest"), Num(3)}}
  \cup {AskLogs(-1, f, t, a, ts) :
          f \in {Text("earliest"), Num(1), Text("latest")}, t \in {Text("latest"), Num(2), Num(9)},
          a \in {Absent, Several(<<"a">>)}, ts \in {<<>>, <<Absent, One("t2")>>, <<Several(<<"t1", "t2">>)>>}}
  \cup {AskLogs(h, Text("latest"), Text("latest"), One(a), <<>>) : h \in 1 .. 3, a \in {"a", "bad"}}
  \cup {GasAt(Text("latest"), ok, TRUE, new, g, p, v, e) :
          ok \in BOOLEAN, new \in BOOLEAN, g \in {0, 7}, p \in {0, 1}, v \in {0, 5}, e \in {0, 3, 8}}
  \cup {GasAt(Text("latest"), TRUE, FALSE, FALSE, 0, 1, 0, 3)}
  \cup {GasAt(b, TRUE, TRUE, FALSE, 0, 1, 0, 3) : b \in {Text("pending"), Text("earliest"), Num(1), Num(9)}}
MCBlockTxs == <<<<"x1">>, <<>>, <<"x2", "x3">>>>
MCTxLogs ==
  "x1" :> <<Log("a", <<"t1">>)>> @@ "x2" :> <<Log("b", <<"t1", "t2">>), Log("a", <<>>)>>
  @@ "x3" :> <<Log("a", <<"t2">>)>>
MCNonceAt == 0 :> 0 @@ 1 :> 1 @@ 2 :> 1 @@ 3 :> 1
MCBalanceAt == 0 :> 12 @@ 1 :> 12 @@ 2 :> 12 @@ 3 :> 5

-----------------------------------------------------------------------------
(* Rewards: two proposers, three periods of three epochs, and a restart.       *)
VARIABLES part, mem, paidUp, height, paid, spent, started, low, restarts, builds
R == INSTANCE Rewards WITH
       Proposers <- {"p", "q"}, RewardTotal <- 20, Periods <- 3, TwoYears <- 3, epochSize <- 2,
       outBlock <- 3, MaxBlocks <- 8, MaxBuilds <- 9, MaxRestarts <- 1, db <- paidUp

-----------------------------------------------------------------------------
rewardVars == <<mem, paidUp, height, paid, spent, started, low, restarts, builds>>
nodeVars == <<part, blockVars, vars, rewardVars, archiveVars, queryVars>>

\* A part that does not run stays in one state.
NodeInit ==
  /\ part \in {"blocks", "snapshots", "rewards", "archive", "queries"}
  /\ BlockInit /\ Init /\ R!RewardInit /\ ArchiveInit /\ QueryInit
  /\ part # "archive" => src = 0 /\ same = FALSE

BlockStep ==
  /\ part = "blocks" /\ BlockNext
  /\ UNCHANGED <<part, vars, rewardVars, archiveVars, queryVars>>
SnapshotStep ==
  /\ part = "snapshots" /\ Next
  /\ UNCHANGED <<part, blockVars, rewardVars, archiveVars, queryVars>>
RewardStep ==
  /\ part = "rewards" /\ R!RewardNext
  /\ UNCHANGED <<part, blockVars, vars, archiveVars, queryVars>>
ArchiveStep ==
  /\ part = "archive" /\ ArchiveNext
  /\ UNCHANGED <<part, blockVars, vars, rewardVars, queryVars>>
QueryStep ==
  /\ part = "queries" /\ QueryNext
  /\ UNCHANGED <<part, blockVars, vars, rewardVars, archiveVars>>

NodeNext == BlockStep \/ SnapshotStep \/ RewardStep \/ ArchiveStep \/ QueryStep
NodeSpec == NodeInit /\ [][NodeNext]_nodeVars

\* While a process runs, no proposer settles on an entry of the list of quotas more
\* than initReward has put there (R!QuotaKept).
QuotaKept == R!QuotaKept
=============================================================================
