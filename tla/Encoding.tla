------------------------------ MODULE Encoding ------------------------------
(***************************************************************************)
(* A block on its way from the proposer to the database of another node:   *)
(* the encodings of types, the extra data of the header with its seals     *)
(* (consensus/pvbft/extra.go, sign.go, header_hash.go), and the signatures *)
(* of its transactions (state/txsigner.go).                                *)
(*                                                                         *)
(* A byte string is a length and the number or other content it stands     *)
(* for; an encoded value is such a string or a list.  Hashes and           *)
(* signatures are free: they hold what they were made of.                  *)
(***************************************************************************)
EXTENDS Integers, Sequences, SequencesExt, FiniteSets, FiniteSetsExt, TLC

CONSTANTS
  Validators,   \* addresses of the set in the header, a sequence
  ChainID,
  Headers,      \* headers before they are sealed
  Bodies,       \* the transactions and receipts of blocks
  MaxTrips      \* bound: how often the block is sent or stored

VARIABLES
  blk,       \* the block: header and transactions
  receipts,  \* of its execution, or read from the database
  origin,    \* the block as it was proposed, and its receipts
  seals,     \* the committed seals that were collected
  stage,     \* "build", "proposed", "committed"
  trips

blockVars == <<blk, origin, receipts, seals, stage, trips>>

HashLength == 32
AddressLength == 20
BloomByteLength == 256
IstanbulExtraVanity == 32
IstanbulExtraSeal == 65
ZeroAddress == 0
ZeroHash == <<"zero">>
NoAddress == -1        \* a nil pointer
NoStatus == -1

-----------------------------------------------------------------------------
(* RLP values: an arena makes them, a parser takes them apart *)

Str(n, x) == [list |-> FALSE, len |-> n, val |-> x]
List(s) == [list |-> TRUE, items |-> s]
Null == Str(0, 0)
NullArray == List(<<>>)

ByteLen(n) == IF n = 0 THEN 0 ELSE IF n < 2 ^ 8 THEN 1 ELSE IF n < 2 ^ 16 THEN 2 ELSE 3
NewUint(n) == Str(ByteLen(n), n)
NewHash(x) == Str(HashLength, x)
NewAddr(a) == Str(AddressLength, a)

IsStr(v, n) == ~v.list /\ v.len = n
IsUint(v) == ~v.list /\ v.len <= 8
IsList(v, n) == v.list /\ Len(v.items) = n
Keccak(v) == <<"keccak", v>>

\* A decoder returns the object, or Bad.
Bad == [ok |-> FALSE]
Each(Decode(_), v) == [i \in 1 .. Len(v.items) |-> Decode(v.items[i])]
AllGood(s) == \A i \in DOMAIN s : s[i].ok

-----------------------------------------------------------------------------
(* The extra data: the vanity, and the encoding after it if there is one *)

NoRlp == List(<<List(<<>>)>>)
RawExtra(n, x) == [len |-> n, vanity |-> x, rlp |-> NoRlp]

\* The odd case of the code: an empty committed seal is put beside the list.
MarshalExtra(i) ==
  LET full == SelectSeq(i.committed, LAMBDA s : s.len # 0)
      empty == Len(i.committed) - Len(full)
  IN List(<<List([k \in 1 .. Len(i.validators) |-> NewAddr(i.validators[k])]), i.seal>>
          \o [k \in 1 .. empty |-> Null]
          \o <<List(full), i.vrfValue, i.vrfProof>>)

UnmarshalExtra(v) ==
  IF ~IsList(v, 5) THEN Bad
  ELSE LET e == v.items
       IN IF \/ ~e[1].list \/ \E k \in DOMAIN e[1].items : ~IsStr(e[1].items[k], AddressLength)
             \/ e[2].list
             \/ ~e[3].list \/ \E k \in DOMAIN e[3].items : e[3].items[k].list
             \/ e[4].list \/ e[5].list
          THEN Bad
          ELSE [ok |-> TRUE, validators |-> [k \in 1 .. Len(e[1].items) |-> e[1].items[k].val],
                seal |-> e[2], committed |-> e[3].items, vrfValue |-> e[4], vrfProof |-> e[5]]

\* The vanity is padded or cut to its length, and the encoding follows it.
PutIbftExtra(h, i) ==
  [h EXCEPT !.extra = [len |-> IstanbulExtraVanity, vanity |-> @.vanity, rlp |-> MarshalExtra(i)]]

putIbftExtraValidators(h, validators) ==
  PutIbftExtra(h, [validators |-> validators, seal |-> Null, committed |-> <<>>,
                   vrfValue |-> Null, vrfProof |-> Null])

getIbftExtra(h) ==
  IF h.extra.len < IstanbulExtraVanity THEN Bad ELSE UnmarshalExtra(h.extra.rlp)

-----------------------------------------------------------------------------
(* Headers *)

\* What is hashed: all fields up to the extra data, which keeps the validators
\* and loses the seals.
HashedFields(h) ==
  <<NewHash(h.parentHash), NewHash(h.sha3Uncles), NewAddr(h.miner), NewHash(h.stateRoot),
    NewHash(h.txRoot), NewHash(h.receiptsRoot), Str(BloomByteLength, h.logsBloom),
    NewUint(h.difficulty), NewUint(h.number), NewUint(h.gasLimit), NewUint(h.gasUsed),
    NewUint(h.timestamp), Str(h.extra.len, h.extra)>>

calculateHeaderHash(h) ==
  Keccak(List(HashedFields(putIbftExtraValidators(h, getIbftExtra(h).validators))))

\* ComputeHash; a header without seals has the zero hash.
istanbulHeaderHash(h) == IF getIbftExtra(h) = Bad THEN ZeroHash ELSE calculateHeaderHash(h)

MarshalHeader(h) ==
  List(HashedFields(h) \o <<NewHash(h.mixHash), Str(8, h.nonce)>>)

UnmarshalHeader(v) ==
  IF ~IsList(v, 15) THEN Bad
  ELSE LET e == v.items
       IN IF \/ \E k \in {1, 2, 4, 5, 6, 14} : ~IsStr(e[k], HashLength)
             \/ ~IsStr(e[3], AddressLength) \/ ~IsStr(e[7], BloomByteLength)
             \/ \E k \in {8, 9, 10, 11, 12, 15} : ~IsUint(e[k])
             \/ e[13].list
          THEN Bad
          ELSE LET h == [ok |-> TRUE, parentHash |-> e[1].val, sha3Uncles |-> e[2].val, miner |-> e[3].val,
                         stateRoot |-> e[4].val, txRoot |-> e[5].val, receiptsRoot |-> e[6].val,
                         logsBloom |-> e[7].val, difficulty |-> e[8].val, number |-> e[9].val,
                         gasLimit |-> e[10].val, gasUsed |-> e[11].val, timestamp |-> e[12].val,
                         extra |-> e[13].val, mixHash |-> e[14].val, nonce |-> e[15].val, hash |-> ZeroHash]
               IN [h EXCEPT !.hash = istanbulHeaderHash(h)]

-----------------------------------------------------------------------------
(* Transactions *)

MarshalTx(t) ==
  List(<<NewUint(t.nonce), NewUint(t.gasPrice), NewUint(t.gas),
         IF t.to # NoAddress THEN NewAddr(t.to) ELSE Null,
         NewUint(t.value), t.input, NewUint(t.v), NewHash(t.r), NewHash(t.s)>>)

\* The sender is not part of it, and the hash is that of the encoding.
UnmarshalTx(v) ==
  IF ~IsList(v, 9) THEN Bad
  ELSE LET e == v.items
       IN IF ~IsUint(e[1]) \/ ~IsUint(e[3]) \/ \E k \in {2, 5, 6, 7, 8, 9} : e[k].list THEN Bad
          ELSE [ok |-> TRUE, nonce |-> e[1].val, gasPrice |-> e[2].val, gas |-> e[3].val,
                to |-> IF IsStr(e[4], AddressLength) THEN e[4].val ELSE NoAddress,
                value |-> e[5].val, input |-> e[6], v |-> e[7].val, r |-> e[8].val, s |-> e[9].val,
                hash |-> Keccak(v), from |-> ZeroAddress]

MarshalStoreTx(t) == List(<<MarshalTx(t), NewAddr(t.from)>>)

UnmarshalStoreTx(v) ==
  IF ~IsList(v, 2) THEN Bad
  ELSE LET t == UnmarshalTx(v.items[1])
       IN IF ~t.ok \/ ~IsStr(v.items[2], AddressLength) THEN Bad
          ELSE [t EXCEPT !.from = v.items[2].val]

calcTxHash(t, chainID) ==
  Keccak(List(<<NewUint(t.nonce), NewUint(t.gasPrice), NewUint(t.gas),
                IF t.to # NoAddress THEN NewAddr(t.to) ELSE Null, NewUint(t.value), t.input>>
              \o (IF chainID = 0 THEN <<>> ELSE <<NewUint(chainID), NewUint(0), NewUint(0)>>)))

\* The signature of msg by key: the parity is as random as the rest.
Signature(key, msg, parity) == <<key, msg, parity>>
Stranger == -2
Ecrecover(msg, sig, parity) == IF sig[2] = msg /\ sig[3] = parity THEN sig[1] ELSE Stranger

\* V is a byte, and the two halves of the signature are in their range.
ValidateSignatureValues(v, r, s) == v <= 1 /\ r # <<>> /\ s # <<>>

\* encodeSignature and the recovery from what it returns.
encodeSignature(t, v, hash) ==
  IF ValidateSignatureValues(v, t.r, t.s) THEN Ecrecover(hash, t.r, v) ELSE Stranger

FrontierSign(t, key, parity) ==
  LET sig == Signature(key, calcTxHash(t, 0), parity)
  IN [t EXCEPT !.r = sig, !.s = sig, !.v = parity + 27]

FrontierSender(t) == encodeSignature(t, (t.v - 27) % 256, calcTxHash(t, 0))

CalculateV(parity) == parity + 35 + 2 * ChainID

SignTx(t, key, parity) ==
  LET sig == Signature(key, calcTxHash(t, ChainID), parity)
  IN [t EXCEPT !.r = sig, !.s = sig, !.v = CalculateV(parity)]

Sender(t) ==
  IF t.v \in {27, 28} THEN FrontierSender(t)
  ELSE encodeSignature(t, (t.v - 2 * ChainID - 35) % 256, calcTxHash(t, ChainID))

\* Who has signed, for the properties.
Signer(t) == t.r[1]

-----------------------------------------------------------------------------
(* Receipts *)

MarshalLog(l) ==
  List(<<NewAddr(l.address), List([k \in 1 .. Len(l.topics) |-> NewHash(l.topics[k])]), l.data>>)

UnmarshalLog(v) ==
  IF ~IsList(v, 3) THEN Bad
  ELSE LET e == v.items
       IN IF ~IsStr(e[1], AddressLength) \/ ~e[2].list \/ e[3].list
             \/ \E k \in DOMAIN e[2].items : ~IsStr(e[2].items[k], HashLength)
          THEN Bad
          ELSE [ok |-> TRUE, address |-> e[1].val, data |-> e[3],
                topics |-> [k \in 1 .. Len(e[2].items) |-> e[2].items[k].val]]

MarshalReceipt(r) ==
  List(<<IF r.status # NoStatus THEN NewUint(r.status) ELSE NewHash(r.root),
         NewUint(r.cumulativeGasUsed), Str(BloomByteLength, r.logsBloom),
         List([k \in 1 .. Len(r.logs) |-> MarshalLog(r.logs[k])])>>)

UnmarshalReceipt(v) ==
  IF ~IsList(v, 4) THEN Bad
  ELSE LET e == v.items
           logs == Each(UnmarshalLog, e[4])
       IN IF e[1].list \/ ~IsUint(e[2]) \/ ~IsStr(e[3], BloomByteLength) \/ ~e[4].list \/ ~AllGood(logs)
          THEN Bad
          ELSE [ok |-> TRUE, root |-> IF e[1].len = HashLength THEN e[1].val ELSE 0,
                status |-> IF e[1].len = HashLength THEN NoStatus ELSE IF e[1].len = 1 THEN e[1].val ELSE 0,
                cumulativeGasUsed |-> e[2].val, logsBloom |-> e[3].val, logs |-> logs,
                gasUsed |-> 0, contractAddress |-> ZeroAddress]

MarshalStoreReceipt(r) ==
  List(<<MarshalReceipt(r), IF r.contractAddress = ZeroAddress THEN Null ELSE NewAddr(r.contractAddress),
         NewUint(r.gasUsed)>>)

UnmarshalStoreReceipt(v) ==
  IF ~IsList(v, 3) THEN Bad
  ELSE LET r == UnmarshalReceipt(v.items[1])
           a == v.items[2]
       IN IF ~r.ok \/ a.list \/ ~IsUint(v.items[3]) THEN Bad
          ELSE [r EXCEPT !.gasUsed = v.items[3].val,
                         !.contractAddress = IF a.len = AddressLength THEN a.val ELSE @]

-----------------------------------------------------------------------------
(* Blocks and bodies; a block of this chain has no uncles *)

ListOf(Encode(_), s) == List([k \in 1 .. Len(s) |-> Encode(s[k])])

MarshalBlock(b) == List(<<MarshalHeader(b.header), ListOf(MarshalTx, b.txs), NullArray>>)

UnmarshalBlock(v) ==
  IF ~IsList(v, 3) THEN Bad
  ELSE LET h == UnmarshalHeader(v.items[1])
           txs == Each(UnmarshalTx, v.items[2])
       IN IF ~h.ok \/ ~v.items[2].list \/ ~AllGood(txs) \/ ~v.items[3].list THEN Bad
          ELSE [ok |-> TRUE, header |-> h, txs |-> txs]

MarshalBody(b) == List(<<ListOf(MarshalStoreTx, b.txs), NullArray>>)

UnmarshalBody(v) ==
  IF ~IsList(v, 2) THEN Bad
  ELSE LET txs == Each(UnmarshalStoreTx, v.items[1])
       IN IF ~v.items[1].list \/ ~AllGood(txs) \/ ~v.items[2].list THEN Bad
          ELSE [ok |-> TRUE, txs |-> txs]

MarshalReceipts(rs) == ListOf(MarshalStoreReceipt, rs)
UnmarshalReceipts(v) == Each(UnmarshalStoreReceipt, v)

EmptyRootHash == <<"empty root">>
EmptyUncleHash == <<"empty uncles">>
IstanbulDigest == <<"istanbul">>

CalculateTransactionsRoot(txs) == <<"root", ListOf(MarshalTx, txs)>>
CalculateReceiptsRoot(rs) == <<"root", ListOf(MarshalReceipt, rs)>>

\* The receipts come from the execution, not from the block.
BuildBlock(h, txs, rs) ==
  LET built == [h EXCEPT !.txRoot = IF txs = <<>> THEN EmptyRootHash ELSE CalculateTransactionsRoot(txs),
                         !.receiptsRoot = IF rs = <<>> THEN EmptyRootHash ELSE CalculateReceiptsRoot(rs),
                         !.sha3Uncles = EmptyUncleHash]
  IN [ok |-> TRUE, header |-> [built EXCEPT !.hash = istanbulHeaderHash(built)], txs |-> txs]

-----------------------------------------------------------------------------
(* Seals *)

commitMsg(hash) == <<"commit", hash>>
Seal(key, msg) == Str(IstanbulExtraSeal, <<key, msg>>)
ecrecoverImpl(sig, msg) == IF sig.len = IstanbulExtraSeal /\ sig.val[2] = msg THEN sig.val[1] ELSE Stranger
ecrecoverFromHeader(h) == ecrecoverImpl(getIbftExtra(h).seal, calculateHeaderHash(h))

signSealImpl(key, h, committed) ==
  Seal(key, IF committed THEN commitMsg(calculateHeaderHash(h)) ELSE calculateHeaderHash(h))

\* The value and the proof the key has for the data, and the check of them.
Vrf(key, data) == <<Str(65, <<"value", key, data>>), Str(64, <<"proof", key, data>>)>>
VrfVerify(key, data, value, proof) == <<value, proof>> = Vrf(key, data)

writeSeal(key, h, vrfData) ==
  PutIbftExtra(h, [getIbftExtra(h) EXCEPT !.seal = signSealImpl(key, h, FALSE),
                                          !.vrfValue = Vrf(key, vrfData)[1],
                                          !.vrfProof = Vrf(key, vrfData)[2]])

writeCommittedSeal(key, h) == signSealImpl(key, h, TRUE)

writeCommittedSeals(h, committed) ==
  IF committed = <<>> \/ \E k \in DOMAIN committed : committed[k].len # IstanbulExtraSeal
  THEN Bad
  ELSE PutIbftExtra(h, [getIbftExtra(h) EXCEPT !.committed = committed])

FaultyNodes == (Len(Validators) - 1) \div 3
IsValidator(a) == a \in Range(Validators)

verifySigner(h) == IsValidator(ecrecoverFromHeader(h))

verifyCommitedFields(h) ==
  LET committed == getIbftExtra(h).committed
      signer == [k \in DOMAIN committed |-> ecrecoverImpl(committed[k], commitMsg(calculateHeaderHash(h)))]
  IN /\ committed # <<>>
     /\ \A k \in DOMAIN signer : IsValidator(signer[k])
     /\ IsInjective(signer)
     /\ Cardinality(Range(signer)) > 2 * FaultyNodes

\* The data of the random value is the seed of the block before.
verifyHeaderImpl(h) ==
  LET extra == getIbftExtra(h)
  IN /\ extra # Bad
     /\ h.mixHash = IstanbulDigest
     /\ h.sha3Uncles = EmptyUncleHash
     /\ h.difficulty = h.number
     /\ verifySigner(h)
     /\ VrfVerify(ecrecoverFromHeader(h), h.number, extra.vrfValue, extra.vrfProof)

\* What WriteBlock checks of a body and of the receipts it computes again.
verifyRoots(b, rs) ==
  /\ b.header.txRoot = IF b.txs = <<>> THEN EmptyRootHash ELSE CalculateTransactionsRoot(b.txs)
  /\ b.header.receiptsRoot = IF rs = <<>> THEN EmptyRootHash ELSE CalculateReceiptsRoot(rs)

-----------------------------------------------------------------------------
(* The way of a block *)

NoBlock == Bad

BlockInit ==
  /\ blk = NoBlock /\ origin = [block |-> NoBlock, receipts |-> <<>>]
  /\ receipts = <<>> /\ seals = {} /\ stage = "build" /\ trips = 0

\* Mutant: the seal is made before the roots are in the header.
ProposeEarly(key, h, body) ==
  /\ stage = "build"
  /\ LET sealed == writeSeal(key, putIbftExtraValidators(h, Validators), h.number)
         b == BuildBlock(sealed, body.txs, body.receipts)
     IN blk' = b /\ origin' = [block |-> b, receipts |-> body.receipts]
  /\ receipts' = body.receipts
  /\ stage' = "proposed"
  /\ UNCHANGED <<seals, trips>>

\* buildBlock: the set of validators, the body with its roots, then the seal
\* with the random value, and the hash again.
Propose(key, h, body) ==
  /\ stage = "build"
  /\ LET b == BuildBlock(putIbftExtraValidators(h, Validators), body.txs, body.receipts)
         sealed == writeSeal(key, b.header, h.number)
         done == [b EXCEPT !.header = [sealed EXCEPT !.hash = istanbulHeaderHash(sealed)]]
     IN blk' = done /\ origin' = [block |-> done, receipts |-> body.receipts]
  /\ receipts' = body.receipts
  /\ stage' = "proposed"
  /\ UNCHANGED <<seals, trips>>

\* The block as bytes in a message, and decoded at another node.
Send ==
  /\ stage # "build" /\ blk.ok /\ trips < MaxTrips
  /\ blk' = UnmarshalBlock(MarshalBlock(blk))
  /\ trips' = trips + 1
  /\ UNCHANGED <<origin, receipts, seals, stage>>

\* A validator that has accepted the proposal signs it.
Commit(key) ==
  /\ stage = "proposed" /\ blk.ok
  /\ verifyHeaderImpl(blk.header)
  /\ seals' = seals \cup {writeCommittedSeal(key, blk.header)}
  /\ UNCHANGED <<blk, origin, receipts, stage, trips>>

\* insertBlock, once there are commits of a quorum; the execution of the block
\* sets the senders that are not known.
Insert ==
  /\ stage = "proposed" /\ blk.ok
  /\ Cardinality(seals) > 2 * FaultyNodes
  /\ LET h == writeCommittedSeals(blk.header, SetToSeq(seals))
     IN blk' = [blk EXCEPT !.header = [h EXCEPT !.hash = istanbulHeaderHash(h)],
                           !.txs = [k \in DOMAIN @ |->
                                      [@[k] EXCEPT !.from = IF @ = ZeroAddress
                                                            THEN Sender(blk.txs[k]) ELSE @]]]
  /\ stage' = "committed"
  /\ UNCHANGED <<origin, receipts, seals, trips>>

\* writeRLP and readRLP, in the store format of the objects that have one.
ReadHeader(h) == UnmarshalHeader(MarshalHeader(h))
ReadBody(b) == UnmarshalBody(MarshalBody(b))
ReadReceipts(rs) == UnmarshalReceipts(MarshalReceipts(rs))

\* Header, body and receipts are written, and read again.
Store ==
  /\ stage = "committed" /\ blk.ok /\ trips < MaxTrips
  /\ LET body == ReadBody(blk)
         h == ReadHeader(blk.header)
     IN blk' = IF body.ok /\ h.ok THEN [ok |-> TRUE, header |-> h, txs |-> body.txs] ELSE Bad
  /\ receipts' = ReadReceipts(receipts)
  /\ trips' = trips + 1
  /\ UNCHANGED <<origin, seals, stage>>

BlockNext ==
  \/ \E key \in Range(Validators), h \in Headers, body \in Bodies : Propose(key, h, body)
  \/ Send
  \/ \E key \in Range(Validators) : Commit(key)
  \/ Insert
  \/ Store

-----------------------------------------------------------------------------
(* Properties *)

\* A block that was proposed is accepted, as the same block, wherever it gets
\* and however often it was sent or stored before: its header passes
\* verifyHeaderImpl and keeps its hash, its transactions and the receipts of
\* its execution have the roots in the header and the senders who signed, and
\* with the committed seals of a quorum it passes verifyCommitedFields, too.
AcceptedAnywhere ==
  stage # "build" =>
    /\ blk.ok
    /\ verifyHeaderImpl(blk.header)
    /\ verifyRoots(blk, receipts)
    /\ blk.header.hash = origin.block.header.hash
    /\ \A k \in DOMAIN blk.txs : Sender(blk.txs[k]) = Signer(origin.block.txs[k])
    /\ stage = "committed" => verifyCommitedFields(blk.header)

=============================================================================
