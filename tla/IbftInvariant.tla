--------------------------- MODULE IbftInvariant ----------------------------
(***************************************************************************)
(* The types of Ibft hold in every state, for any number of validators,    *)
(* heights and rounds, catching up included; what the inductive invariant  *)
(* says of a state, and that every step keeps it.                          *)
(***************************************************************************)
EXTENDS Ibft, FiniteSetTheorems, TLAPS

\* NumValid, the threshold of every tally, is a natural number.
LEMMA NumValidNat == NumValid \in Nat /\ MaxFaultyNodes \in Nat
<1>1. Cardinality(Validators) \in Nat \ {0}
  BY ValidatorsAssumption, FS_CardinalityType, FS_EmptySet
<1> QED
  BY <1>1 DEF NumValid, MaxFaultyNodes

-----------------------------------------------------------------------------
(* Type correctness *)

\* EnterAccept keeps the types of what it assigns.
LEMMA EnterAcceptType ==
  ASSUME TypeOK, NEW n \in Validators, NEW v \in Views, EnterAccept(n, v)
  PROVE  /\ state' \in [Validators -> States]
         /\ view' \in [Validators -> Views]
         /\ roundMessages' \in [Validators -> [0..MaxRound -> SUBSET Validators]]
         /\ rcQueue' \in [Validators -> SUBSET RoundChange]
BY DEF TypeOK, EnterAccept, States

\* SendRoundChange keeps the types of what it assigns.
LEMMA SendRoundChangeType ==
  ASSUME TypeOK, NEW n \in Validators, NEW r \in Nat,
         NEW queue \in SUBSET RoundChange, SendRoundChange(n, r, queue)
  PROVE  /\ view' \in [Validators -> Views]
         /\ roundMessages' \in [Validators -> [0..MaxRound -> SUBSET Validators]]
         /\ rcQueue' \in [Validators -> SUBSET RoundChange]
<1> DEFINE v == View(view[n].seq, r)
           m == [view |-> v, from |-> n]
<1>1. v \in Views
  BY DEF TypeOK, View, Views
<1>2. m \in RoundChange
  BY <1>1 DEF RoundChange
<1>3. view' = [view EXCEPT ![n] = v]
  BY DEF SendRoundChange
<1>4. roundMessages' = [roundMessages EXCEPT ![n][r] = {}]
  BY DEF SendRoundChange
<1>5. rcQueue' \in [Validators -> SUBSET RoundChange]
  BY <1>2 DEF SendRoundChange, TypeOK
<1> HIDE DEF v
<1> QED
  BY Zenon, <1>1, <1>3, <1>4, <1>5 DEF TypeOK

\* EnterRoundChange keeps the types of what it assigns.
LEMMA EnterRoundChangeType ==
  ASSUME TypeOK, NEW n \in Validators, EnterRoundChange(n)
  PROVE  /\ state' \in [Validators -> States]
         /\ view' \in [Validators -> Views]
         /\ roundMessages' \in [Validators -> [0..MaxRound -> SUBSET Validators]]
         /\ rcQueue' \in [Validators -> SUBSET RoundChange]
<1>1. view[n].round + 1 \in Nat /\ rcQueue[n] \in SUBSET RoundChange
  BY DEF TypeOK, Views
<1>2. SendRoundChange(n, view[n].round + 1, rcQueue[n])
  BY DEF EnterRoundChange
<1>3. state' \in [Validators -> States]
  BY DEF EnterRoundChange, TypeOK, States
<1> QED
  BY <1>1, <1>2, <1>3, SendRoundChangeType

\* The initial state has the declared types.
LEMMA InitType == Init => TypeOK
BY BoundsAssumption DEF Init, TypeOK, States, Views, View, Validating

\* No step of AcceptState leaves the declared types.
LEMMA AcceptStepType ==
  ASSUME TypeOK, NEW n \in Validators, AcceptStep(n)
  PROVE  TypeOK'
<1>1. CASE Propose(n)
  <2>1. PICK b \in ProposerBlocks(n) :
          /\ block' = [block EXCEPT ![n] = b]
          /\ preprepares' = preprepares \cup {[view |-> view[n], from |-> n, blk |-> b]}
    BY Zenon, <1>1 DEF Propose
  <2>2. b \in Block
    <3>1. CASE locked[n]
      BY <3>1 DEF ProposerBlocks, TypeOK
    <3>2. CASE ~locked[n]
      <4>1. PICK s \in Salts, k \in Kinds :
              b = [num |-> Len(chain[n]) + 1, round |-> view[n].round, by |-> n,
                   salt |-> s, kind |-> k]
        BY <3>2 DEF ProposerBlocks
      <4>2. Len(chain[n]) + 1 \in Nat /\ view[n].round \in Nat
        BY DEF TypeOK, Views
      <4> QED
        BY <4>1, <4>2 DEF Block
    <3> QED
      BY Zenon, <3>1, <3>2
  <2>3. preprepares' \subseteq Preprepare
    BY <2>1, <2>2 DEF TypeOK, Preprepare
  <2>4. block' \in [Validators -> Block \cup {Nil}]
    BY <2>1, <2>2 DEF TypeOK
  <2>5. prepares' \subseteq Prepare
    BY <1>1 DEF TypeOK, Propose, Prepare
  <2>6. state' \in [Validators -> States]
    BY <1>1 DEF TypeOK, Propose, States
  <2>7. ASSUME NEW p \in Validators, locked'[p] \/ Validating(p)'
        PROVE  block'[p] \in Block
    BY Zenon, <1>1, <2>1, <2>2, <2>7 DEF TypeOK, Propose, Validating
  <2> QED
    BY Zenon, <1>1, <2>3, <2>4, <2>5, <2>6, <2>7 DEF TypeOK, Propose, roundVars
<1>2. CASE BuildFails(n)
  <2>1. ASSUME NEW p \in Validators, locked'[p] \/ Validating(p)'
        PROVE  block'[p] \in Block
    BY Zenon, <1>2, <2>1 DEF TypeOK, BuildFails, EnterRoundChange, Validating
  <2> QED
    BY <1>2, <2>1, EnterRoundChangeType DEF BuildFails, TypeOK, msgs
<1>3. ASSUME NEW m \in preprepares, AcceptLocked(n, m)
      PROVE  TypeOK'
  <2>1. [view |-> view[n], from |-> n, seal |-> block[n]] \in Commit
    BY <1>3 DEF AcceptLocked, TypeOK, Commit
  <2>2. ASSUME NEW p \in Validators, locked'[p] \/ Validating(p)'
        PROVE  block'[p] \in Block
    BY Zenon, <1>3, <2>2 DEF TypeOK, AcceptLocked, Validating
  <2> QED
    BY Zenon, <1>3, <2>1, <2>2 DEF AcceptLocked, TypeOK, States, roundVars
<1>4. ASSUME NEW m \in preprepares, RejectProposal(n, m)
      PROVE  TypeOK'
  <2>1. ASSUME NEW p \in Validators, locked'[p] \/ Validating(p)'
        PROVE  block'[p] \in Block
    BY Zenon, <1>4, <2>1 DEF TypeOK, RejectProposal, EnterRoundChange, Validating
  <2> QED
    BY Zenon, <1>4, <2>1, EnterRoundChangeType DEF RejectProposal, TypeOK, msgs
<1>5. ASSUME NEW m \in preprepares, AcceptProposal(n, m)
      PROVE  TypeOK'
  <2>1. m.blk \in Block
    BY DEF TypeOK, Preprepare
  <2>2. ASSUME NEW p \in Validators, locked'[p] \/ Validating(p)'
        PROVE  block'[p] \in Block
    BY Zenon, <1>5, <2>1, <2>2 DEF TypeOK, AcceptProposal, Validating
  <2>3. prepares' \subseteq Prepare
    BY <1>5 DEF AcceptProposal, TypeOK, Prepare
  <2> QED
    BY Zenon, <1>5, <2>1, <2>2, <2>3 DEF AcceptProposal, TypeOK, States, roundVars
<1>6. CASE AcceptTimeout(n)
  <2>1. ASSUME NEW p \in Validators, locked'[p] \/ Validating(p)'
        PROVE  block'[p] \in Block
    BY <1>6, <2>1 DEF TypeOK, AcceptTimeout, EnterRoundChange, Validating
  <2> QED
    BY Zenon, <1>6, <2>1, EnterRoundChangeType DEF AcceptTimeout, TypeOK, msgs
<1> QED
  BY Zenon, <1>1, <1>2, <1>3, <1>4, <1>5, <1>6 DEF AcceptStep

\* Appending a block of the current height keeps a chain a chain.
LEMMA WriteBlockType ==
  ASSUME TypeOK, NEW n \in Validators, NEW b \in Block
  PROVE  WriteBlock(n, b) \in Seq(Block)
BY DEF TypeOK, WriteBlock

\* What a validator seals is a commit message.
LEMMA SendsCommitType ==
  ASSUME TypeOK, NEW n \in Validators, Validating(n)
  PROVE  SendsCommit(n) \subseteq Commit
BY DEF TypeOK, SendsCommit, Commit

\* No step of ValidateState leaves the declared types.
LEMMA ValidateStepType ==
  ASSUME TypeOK, NEW n \in Validators, ValidateStep(n)
  PROVE  TypeOK'
<1>1. CASE ValidatePrepared(n)
  <2>1. Validating(n)
    BY <1>1 DEF ValidatePrepared, Validating
  <2>2. ASSUME NEW p \in Validators, locked'[p] \/ Validating(p)'
        PROVE  block'[p] \in Block
    BY Zenon, <1>1, <2>1, <2>2 DEF TypeOK, ValidatePrepared, Validating
  <2>3. commits' \subseteq Commit
    BY Zenon, <1>1, <2>1, SendsCommitType DEF ValidatePrepared, TypeOK
  <2> QED
    BY <1>1, <2>2, <2>3 DEF ValidatePrepared, TypeOK, States, roundVars
<1>2. CASE InsertBlock(n)
  <2>1. Validating(n) /\ block[n] \in Block
    BY <1>2 DEF InsertBlock, TypeOK
  <2>2. View(block[n].num + 1, 0) \in Views
    BY <2>1 DEF View, Views, Block
  <2>3. commits' \subseteq Commit
    BY Zenon, <1>2, <2>1, SendsCommitType DEF InsertBlock, TypeOK
  <2>4. chain' \in [Validators -> Seq(Block)]
    BY Zenon, <1>2, <2>1, WriteBlockType DEF InsertBlock, TypeOK
  <2>5. ASSUME NEW p \in Validators, locked'[p] \/ Validating(p)'
        PROVE  block'[p] \in Block
    BY Zenon, <1>2, <2>5 DEF TypeOK, InsertBlock, EnterAccept, Unlock, Validating
  <2>6. /\ block' \in [Validators -> Block \cup {Nil}]
        /\ locked' \in [Validators -> BOOLEAN]
    BY Zenon, <1>2 DEF TypeOK, InsertBlock, Unlock
  <2>7. EnterAccept(n, View(block[n].num + 1, 0))
    BY Zenon, <1>2 DEF InsertBlock
  <2> QED
    BY Zenon, <1>2, <2>2, <2>3, <2>4, <2>5, <2>6, <2>7, EnterAcceptType
    DEF InsertBlock, TypeOK
<1>3. CASE InsertFails(n)
  <2>1. commits' \subseteq Commit
    BY Zenon, <1>3, SendsCommitType DEF InsertFails, TypeOK
  <2>2. ASSUME NEW p \in Validators, locked'[p] \/ Validating(p)'
        PROVE  block'[p] \in Block
    BY Zenon, <1>3, <2>2 DEF TypeOK, InsertFails, EnterRoundChange, Unlock, Validating
  <2>3. /\ block' \in [Validators -> Block \cup {Nil}]
        /\ locked' \in [Validators -> BOOLEAN]
    BY Zenon, <1>3 DEF TypeOK, InsertFails, Unlock
  <2> QED
    BY Zenon, <1>3, <2>1, <2>2, <2>3, EnterRoundChangeType DEF InsertFails, TypeOK
<1>4. CASE ValidateTimeout(n)
  <2>1. ASSUME NEW p \in Validators, locked'[p] \/ Validating(p)'
        PROVE  block'[p] \in Block
    BY Zenon, <1>4, <2>1 DEF TypeOK, ValidateTimeout, EnterRoundChange, Validating
  <2> QED
    BY Zenon, <1>4, <2>1, EnterRoundChangeType DEF ValidateTimeout, TypeOK, msgs
<1> QED
  BY Zenon, <1>1, <1>2, <1>3, <1>4 DEF ValidateStep

\* No step of RoundChangeState leaves the declared types.
LEMMA RoundChangeStepType ==
  ASSUME TypeOK, NEW n \in Validators, RoundChangeStep(n)
  PROVE  TypeOK'
<1>1. ASSUME NEW m \in rcQueue[n], StartNewRound(n, m)
      PROVE  TypeOK'
  <2>1. m.view \in Views /\ EnterAccept(n, m.view)
    BY <1>1 DEF TypeOK, RoundChange, StartNewRound
  <2>2. ASSUME NEW p \in Validators, locked'[p] \/ Validating(p)'
        PROVE  block'[p] \in Block
    BY Zenon, <1>1, <2>2 DEF TypeOK, StartNewRound, EnterAccept, Validating
  <2> QED
    BY Zenon, <1>1, <2>1, <2>2, EnterAcceptType DEF StartNewRound, TypeOK, msgs
<1>2. ASSUME NEW m \in rcQueue[n], CatchUpRound(n, m)
      PROVE  TypeOK'
  <2>1. /\ m.view.round \in Nat
        /\ rcQueue[n] \ {m} \in SUBSET RoundChange
        /\ SendRoundChange(n, m.view.round, rcQueue[n] \ {m})
    BY SMTT(60), <1>2 DEF TypeOK, RoundChange, Views, CatchUpRound
  <2> QED
    BY Zenon, <1>2, <2>1, SendRoundChangeType DEF CatchUpRound, TypeOK, msgs, Validating
<1>3. ASSUME NEW m \in rcQueue[n], CountRoundChange(n, m)
      PROVE  TypeOK'
  <2>1. roundMessages' \in [Validators -> [0..MaxRound -> SUBSET Validators]]
    <3>1. m.from \in Validators
      BY DEF TypeOK, RoundChange
    <3>2. ASSUME m.view.round \in 0..MaxRound
          PROVE  Tally(n, m) \in SUBSET Validators
      <4>1. roundMessages[n] \in [0..MaxRound -> SUBSET Validators]
        BY DEF TypeOK
      <4>2. roundMessages[n][m.view.round] \in SUBSET Validators
        BY Zenon, <3>2, <4>1
      <4> QED
        BY <3>1, <4>2 DEF Tally
    <3> QED
      BY Zenon, <1>3, <3>2 DEF TypeOK, CountRoundChange
  <2> QED
    BY SMTT(60), <1>3, <2>1 DEF CountRoundChange, TypeOK, msgs, Validating
<1>4. CASE RoundChangeTimeout(n)
  <2>1. /\ view[n].round + 1 \in Nat
        /\ rcQueue[n] \in SUBSET RoundChange
        /\ SendRoundChange(n, view[n].round + 1, rcQueue[n])
    BY <1>4 DEF TypeOK, Views, RoundChangeTimeout
  <2> QED
    BY Zenon, <1>4, <2>1, SendRoundChangeType DEF RoundChangeTimeout, TypeOK, msgs, Validating
<1> QED
  BY Zenon, <1>1, <1>2, <1>3, <1>4 DEF RoundChangeStep

\* No step to or from SyncState leaves the declared types.
LEMMA SyncStepType ==
  ASSUME TypeOK, NEW n \in Validators, SyncNoPeer(n) \/ SyncStep(n)
  PROVE  TypeOK'
<1>1. ASSUME NEW p \in Validators
      PROVE  View(Len(chain[p]) + 1, 0) \in Views
  BY SMTT(60) DEF TypeOK, View, Views
<1>2. CASE SyncNoPeer(n)
  <2>1. ASSUME NEW p \in Validators, locked'[p] \/ Validating(p)'
        PROVE  block'[p] \in Block
    BY <1>2, <2>1 DEF TypeOK, SyncNoPeer, EnterAccept, Validating
  <2>2. EnterAccept(n, View(Len(chain[n]) + 1, 0))
    BY Zenon, <1>2 DEF SyncNoPeer
  <2> QED
    BY Zenon, <1>1, <1>2, <2>1, <2>2, EnterAcceptType DEF SyncNoPeer, TypeOK, msgs
<1>3. CASE LeaveForSync(n)
  BY SMTT(60), <1>3 DEF LeaveForSync, TypeOK, States, Validating, msgs, roundVars
<1>4. ASSUME NEW p \in Validators, BulkSync(n, p)
      PROVE  TypeOK'
  <2>1. ASSUME NEW q \in Validators, locked'[q] \/ Validating(q)'
        PROVE  block'[q] \in Block
    BY <1>4, <2>1 DEF TypeOK, BulkSync, EnterAccept, Validating
  <2>2. EnterAccept(n, View(Len(chain[p]) + 1, 0))
    BY <1>4 DEF BulkSync
  <2>3. chain' \in [Validators -> Seq(Block)]
    BY Zenon, <1>4 DEF BulkSync, TypeOK
  <2> QED
    BY Zenon, <1>1, <1>4, <2>1, <2>2, <2>3, EnterAcceptType DEF BulkSync, TypeOK, msgs
<1>5. ASSUME NEW p \in Validators, BulkSyncFails(n, p)
      PROVE  TypeOK'
  <2>1. PICK k \in Len(chain[n]) + 1 .. Len(chain[p]) - 1 :
          chain' = [chain EXCEPT ![n] = SubSeq(chain[p], 1, k)]
    BY Zenon, <1>5 DEF BulkSyncFails
  <2>2. SubSeq(chain[p], 1, k) \in Seq(Block)
    <3>1. chain[p] \in Seq(Block) /\ chain[n] \in Seq(Block)
      BY DEF TypeOK
    <3>2. k \in 1 .. Len(chain[p])
      BY <3>1
    <3> QED
      BY <3>1, <3>2
  <2>3. chain' \in [Validators -> Seq(Block)]
    BY Zenon, <2>1, <2>2 DEF TypeOK
  <2> QED
    BY <1>5, <2>3 DEF BulkSyncFails, TypeOK, Validating, msgs, roundVars
<1>6. CASE AcceptOutOfSequence(n)
  BY <1>6 DEF AcceptOutOfSequence, TypeOK, States, Validating, msgs, roundVars
<1> QED
  BY Zenon, <1>2, <1>3, <1>4, <1>5, <1>6 DEF SyncStep

\* No step, syncing included, leaves the declared types.
LEMMA NextType == TypeOK /\ [NextSync]_vars => TypeOK'
<1> SUFFICES ASSUME TypeOK, [NextSync]_vars PROVE TypeOK'
  OBVIOUS
<1>1. ASSUME NEW n \in Validators, Step(n) \/ SyncStep(n)
      PROVE  TypeOK'
  BY Zenon, <1>1, AcceptStepType, ValidateStepType, RoundChangeStepType, SyncStepType DEF Step
<1>2. CASE AtBound \/ UNCHANGED vars
  BY <1>2 DEF AtBound, vars, TypeOK, Validating
<1> QED
  BY <1>1, <1>2 DEF NextSync, Next

\* The variables keep their types, and a locked or validating validator always
\* has a block, with any number of validators and with syncing.
THEOREM TypeCorrect == SpecSync => []TypeOK
<1>1. Init => TypeOK
  BY InitType
<1>2. TypeOK /\ [NextSync]_vars => TypeOK'
  BY NextType
<1> QED
  BY <1>1, <1>2, PTL DEF SpecSync

-----------------------------------------------------------------------------
(* Steps to another view *)

\* The steps of Next that leave blocks, locks, chains and messages alone: they
\* move validator n to AcceptState or RoundChangeState at view v.
Moves(n, v) ==
  /\ v \in Views
  /\ v.seq = Len(chain[n]) + 1
  /\ ~Later(view[n], v)
  /\ Validating(n) => Later(v, view[n])
  /\ view' = [view EXCEPT ![n] = v]
  /\ \E s \in {"Accept", "RoundChange"} : state' = [state EXCEPT ![n] = s]
  /\ \/ UNCHANGED block
     \/ ~locked[n] /\ block' = [block EXCEPT ![n] = Nil]
  /\ UNCHANGED <<locked, chain, msgs>>

-----------------------------------------------------------------------------
(* What the inductive invariant says of a state *)

\* Two sets of more than NumValid validators meet.
LEMMA QuorumMeet ==
  ASSUME QuorumsIntersect, NEW S \in SUBSET Validators, NEW T \in SUBSET Validators,
         Cardinality(S) > NumValid, Cardinality(T) > NumValid
  PROVE  \E v \in Validators : v \in S /\ v \in T
<1>1. IsFiniteSet(S) /\ IsFiniteSet(T) /\ IsFiniteSet(S \cup T)
  BY ValidatorsAssumption, FS_Subset
<1>2. Cardinality(S \cup T) <= Cardinality(Validators)
  BY ValidatorsAssumption, FS_Subset
<1>3. Cardinality(S \cup T) = Cardinality(S) + Cardinality(T) - Cardinality(S \cap T)
  BY <1>1, FS_Union
<1>4. /\ Cardinality(S) \in Nat
      /\ Cardinality(T) \in Nat
      /\ Cardinality(S \cup T) \in Nat
      /\ Cardinality(Validators) \in Nat
  BY Zenon, <1>1, ValidatorsAssumption, FS_CardinalityType
<1>5. S \cap T # {}
  <2>1. SUFFICES ASSUME S \cap T = {} PROVE FALSE
    OBVIOUS
  <2>2. Cardinality(S \cap T) = 0
    BY Zenon, <2>1, FS_EmptySet
  <2> QED
    BY <1>2, <1>3, <1>4, <2>2, NumValidNat DEF QuorumsIntersect
<1> QED
  BY <1>5

\* A validator that sealed two blocks of one height sealed one block: it is
\* locked on it or has inserted it, and a lock is above the head.
LEMMA SameSeal ==
  ASSUME TypeOK, LockInv, SealInv
  PROVE  OneSealPerHeight
<1> SUFFICES ASSUME NEW c1 \in commits, NEW c2 \in commits,
                    c1.from = c2.from, c1.seal.num = c2.seal.num,
                    c1.seal.kind = "good", c2.seal.kind = "good"
             PROVE  c1.seal = c2.seal
  BY DEF OneSealPerHeight
<1> DEFINE n == c1.from
<1>1. n \in Validators /\ Len(chain[n]) \in Nat
  BY DEF TypeOK, Commit
<1>2. \/ locked[n] /\ block[n] = c1.seal
      \/ c1.seal.num \in 1 .. Len(chain[n]) /\ chain[n][c1.seal.num] = c1.seal
  BY DEF SealInv
<1>3. \/ locked[n] /\ block[n] = c2.seal
      \/ c2.seal.num \in 1 .. Len(chain[n]) /\ chain[n][c2.seal.num] = c2.seal
  BY DEF SealInv
<1>4. locked[n] => block[n].num = Len(chain[n]) + 1
  BY Zenon, <1>1 DEF LockInv
<1> QED
  BY <1>1, <1>2, <1>3, <1>4

\* Two blocks of one height in two chains were sealed by two quorums, and so
\* by one validator.
LEMMA AgreementFromInv ==
  ASSUME QuorumsIntersect, TypeOK, LockInv, SealInv, CertifiedChain
  PROVE  Agreement
<1> SUFFICES ASSUME NEW n \in Validators, NEW p \in Validators,
                    NEW h \in 1..Len(chain[n]), h <= Len(chain[p])
             PROVE  chain[n][h] = chain[p][h]
  BY DEF Agreement
<1> DEFINE Sealers(b) == Senders({c \in commits : c.seal = b})
<1>1. ASSUME NEW b PROVE Sealers(b) \in SUBSET Validators
  BY DEF Senders, TypeOK, Commit
<1>2. h \in 1..Len(chain[p])
  BY DEF TypeOK
<1>3. /\ chain[n][h].num = h
      /\ chain[n][h].kind = "good"
      /\ Cardinality(Sealers(chain[n][h])) > NumValid
  BY Zenon DEF CertifiedChain, Certified
<1>4. /\ chain[p][h].num = h
      /\ chain[p][h].kind = "good"
      /\ Cardinality(Sealers(chain[p][h])) > NumValid
  BY Zenon, <1>2 DEF CertifiedChain, Certified
<1>5. PICK v \in Validators : v \in Sealers(chain[n][h]) /\ v \in Sealers(chain[p][h])
  <2> HIDE DEF Sealers
  <2> QED
    BY Zenon, <1>1, <1>3, <1>4, QuorumMeet
<1>6. PICK c1 \in commits : c1.seal = chain[n][h] /\ c1.from = v
  BY <1>5 DEF Senders
<1>7. PICK c2 \in commits : c2.seal = chain[p][h] /\ c2.from = v
  BY Zenon, <1>5 DEF Senders
<1> QED
  BY Zenon, <1>3, <1>4, <1>6, <1>7, SameSeal DEF OneSealPerHeight

\* The seals of a view are on its one proposal.
LEMMA SealsMatchFromInv ==
  ASSUME OneProposalPerView, ValidateInv, CommitInv
  PROVE  SealsMatch
BY DEF SealsMatch, OneProposalPerView, ValidateInv, CommitInv, CommitsFor

-----------------------------------------------------------------------------
(* Steps that only move a validator to another view *)

\* Asking for a later round moves to a later view of the same height.
LEMMA SendRoundChangeMoves ==
  ASSUME TypeOK, ViewInv, NEW n \in Validators, state[n] # "Sync",
         NEW r \in Nat, r > view[n].round, NEW queue, SendRoundChange(n, r, queue)
  PROVE  \E v \in Views : /\ v.seq = Len(chain[n]) + 1
                          /\ Later(v, view[n]) /\ ~Later(view[n], v)
                          /\ view' = [view EXCEPT ![n] = v]
<1> DEFINE v == View(view[n].seq, r)
<1>1. v \in Views /\ v.seq = view[n].seq /\ v.round = r
  BY Zenon DEF TypeOK, View, Views
<1>2. view[n].seq \in Nat /\ view[n].round \in Nat
  BY Zenon DEF TypeOK, Views
<1>3. v.seq = Len(chain[n]) + 1
  BY Zenon, <1>1 DEF ViewInv
<1>4. view' = [view EXCEPT ![n] = v]
  BY Zenon DEF SendRoundChange
<1>5. Later(v, view[n]) /\ ~Later(view[n], v)
  BY <1>1, <1>2 DEF Later
<1> QED
  BY Zenon, <1>1, <1>3, <1>4, <1>5

\* The same for the head of runRoundChangeState.
LEMMA EnterRoundChangeMoves ==
  ASSUME TypeOK, ViewInv, NEW n \in Validators, state[n] # "Sync", EnterRoundChange(n),
         \/ UNCHANGED block
         \/ ~locked[n] /\ block' = [block EXCEPT ![n] = Nil],
         UNCHANGED <<locked, chain, msgs>>
  PROVE  \E v \in Views : Moves(n, v)
<1>1. view[n].round + 1 \in Nat /\ view[n].round + 1 > view[n].round
  BY DEF TypeOK, Views
<1>2. SendRoundChange(n, view[n].round + 1, rcQueue[n])
  BY Zenon DEF EnterRoundChange
<1>3. PICK v \in Views : /\ v.seq = Len(chain[n]) + 1
                         /\ Later(v, view[n]) /\ ~Later(view[n], v)
                         /\ view' = [view EXCEPT ![n] = v]
  BY Zenon, <1>1, <1>2, SendRoundChangeMoves
<1>4. state' = [state EXCEPT ![n] = "RoundChange"]
  BY DEF EnterRoundChange
<1>5. Moves(n, v)
  BY Zenon, <1>3, <1>4 DEF Moves
<1> QED
  BY Zenon, <1>5

\* Timeouts, rejected proposals, round changes and the first step only move.
LEMMA MoveStep ==
  ASSUME TypeOK, RoundInv, ViewInv, NEW n \in Validators,
         \/ SyncNoPeer(n) \/ BuildFails(n) \/ AcceptTimeout(n) \/ ValidateTimeout(n)
         \/ \E m \in preprepares : RejectProposal(n, m)
         \/ RoundChangeStep(n)
  PROVE  \E v \in Views : Moves(n, v)
<1>1. CASE SyncNoPeer(n)
  <2> DEFINE v == View(Len(chain[n]) + 1, 0)
  <2>1. v \in Views /\ v.seq = Len(chain[n]) + 1
    BY DEF TypeOK, View, Views
  <2>2. state[n] = "Sync" /\ view[n] = View(0, 0)
    BY Zenon, <1>1 DEF SyncNoPeer, ViewInv
  <2>3. ~Later(view[n], v) /\ ~Validating(n)
    BY <2>2 DEF TypeOK, Later, View, Validating
  <2>4. /\ view' = [view EXCEPT ![n] = v]
        /\ state' = [state EXCEPT ![n] = "Accept"]
    BY <1>1 DEF SyncNoPeer, EnterAccept
  <2>5. UNCHANGED <<block, locked, chain, msgs>>
    BY <1>1 DEF SyncNoPeer
  <2> HIDE DEF v
  <2>6. Moves(n, v)
    BY <2>1, <2>3, <2>4, <2>5 DEF Moves
  <2> QED
    BY Zenon, <2>1, <2>6
<1>2. CASE BuildFails(n)
  BY Zenon, <1>2, EnterRoundChangeMoves DEF BuildFails, InSequence
<1>3. CASE AcceptTimeout(n)
  BY <1>3, EnterRoundChangeMoves DEF AcceptTimeout, InSequence
<1>4. CASE ValidateTimeout(n)
  BY Zenon, <1>4, EnterRoundChangeMoves DEF ValidateTimeout, Validating
<1>5. ASSUME NEW m \in preprepares, RejectProposal(n, m)
      PROVE  \E v \in Views : Moves(n, v)
  BY Zenon, <1>5, EnterRoundChangeMoves DEF RejectProposal, ReadsPreprepare, InSequence
<1>6. ASSUME NEW m \in rcQueue[n], StartNewRound(n, m)
      PROVE  \E v \in Views : Moves(n, v)
  <2>1. /\ state[n] = "RoundChange" /\ m.view.seq = view[n].seq
        /\ m.view \in Views /\ EnterAccept(n, m.view)
        /\ UNCHANGED <<block, locked, chain, msgs>>
    BY <1>6 DEF StartNewRound, ReadsRoundChange, TypeOK, RoundChange
  <2>2. ~Later(view[n], m.view)
    BY Zenon DEF RoundInv
  <2>3. Moves(n, m.view)
    BY <2>1, <2>2 DEF Moves, EnterAccept, Validating, ViewInv
  <2> QED
    BY Zenon, <2>1, <2>3
<1>7. ASSUME NEW m \in rcQueue[n], CatchUpRound(n, m)
      PROVE  \E v \in Views : Moves(n, v)
  <2>1. /\ state[n] = "RoundChange" /\ m.view.round \in Nat
        /\ m.view.round > view[n].round
        /\ SendRoundChange(n, m.view.round, rcQueue[n] \ {m})
        /\ UNCHANGED <<state, block, locked, chain, msgs>>
    BY SMTT(60), <1>7 DEF CatchUpRound, ReadsRoundChange, WeakCertificate, TypeOK, RoundChange, Views
  <2>2. PICK v \in Views : /\ v.seq = Len(chain[n]) + 1
                           /\ Later(v, view[n]) /\ ~Later(view[n], v)
                           /\ view' = [view EXCEPT ![n] = v]
    BY Zenon, <2>1, SendRoundChangeMoves
  <2>3. state' = [state EXCEPT ![n] = "RoundChange"]
    BY Zenon, <2>1 DEF TypeOK
  <2>4. Moves(n, v)
    BY Zenon, <2>1, <2>2, <2>3 DEF Moves
  <2> QED
    BY Zenon, <2>4
<1>8. ASSUME NEW m \in rcQueue[n], CountRoundChange(n, m)
      PROVE  \E v \in Views : Moves(n, v)
  <2>1. state[n] = "RoundChange" /\ UNCHANGED <<state, view, block, locked, chain, msgs>>
    BY Zenon, <1>8 DEF CountRoundChange, ReadsRoundChange
  <2>2. /\ state' = [state EXCEPT ![n] = "RoundChange"]
        /\ view' = [view EXCEPT ![n] = view[n]]
        /\ view[n] \in Views
    BY Zenon, <2>1 DEF TypeOK
  <2>3. ~Later(view[n], view[n])
    BY <2>2 DEF Later, Views
  <2>4. Moves(n, view[n])
    BY Zenon, <2>1, <2>2, <2>3 DEF Moves, Validating, ViewInv
  <2> QED
    BY Zenon, <2>2, <2>4
<1>9. CASE RoundChangeTimeout(n)
  <2>1. /\ state[n] = "RoundChange" /\ view[n].round + 1 \in Nat
        /\ view[n].round + 1 > view[n].round
        /\ SendRoundChange(n, view[n].round + 1, rcQueue[n])
        /\ UNCHANGED <<state, block, locked, chain, msgs>>
    BY <1>9 DEF RoundChangeTimeout, TypeOK, Views
  <2>2. PICK v \in Views : /\ v.seq = Len(chain[n]) + 1
                           /\ Later(v, view[n]) /\ ~Later(view[n], v)
                           /\ view' = [view EXCEPT ![n] = v]
    BY Zenon, <2>1, SendRoundChangeMoves
  <2>3. state' = [state EXCEPT ![n] = "RoundChange"]
    BY <2>1 DEF TypeOK
  <2>4. Moves(n, v)
    BY Zenon, <2>1, <2>2, <2>3 DEF Moves
  <2> QED
    BY Zenon, <2>4
<1> QED
  BY Zenon, <1>1, <1>2, <1>3, <1>4, <1>5, <1>6, <1>7, <1>8, <1>9 DEF RoundChangeStep

\* More commits keep the certificates that there are.
LEMMA MoreCertified ==
  ASSUME TypeOK, TypeOK', commits \subseteq commits'
  PROVE  Certified \subseteq Certified'
<1> SUFFICES ASSUME NEW b \in Certified PROVE b \in Certified'
  OBVIOUS
<1> DEFINE S == Senders({c \in commits : c.seal = b})
           T == Senders({c \in commits' : c.seal = b})
<1>1. S \subseteq T /\ T \subseteq Validators
  BY DEF Senders, TypeOK, Commit
<1>2. b \in Block /\ Cardinality(S) > NumValid
  BY DEF Certified
<1>3. Cardinality(T) > NumValid
  <2> HIDE DEF S, T
  <2>1. IsFiniteSet(T) /\ IsFiniteSet(S)
    BY Zenon, <1>1, ValidatorsAssumption, FS_Subset
  <2>2. Cardinality(S) <= Cardinality(T)
    BY Zenon, <1>1, <2>1, FS_Subset
  <2>3. Cardinality(S) \in Nat /\ Cardinality(T) \in Nat
    BY <2>1, FS_CardinalityType
  <2> QED
    BY <1>2, <2>2, <2>3, NumValidNat
<1> QED
  BY <1>2, <1>3 DEF Certified, Senders, NumValid, MaxFaultyNodes

\* A move keeps everything that the invariant says of proposals, locks, seals
\* and chains.
LEMMA MovesKeep ==
  ASSUME IndInv, TypeOK', NEW n \in Validators, NEW v \in Views, Moves(n, v)
  PROVE  /\ ViewInv' /\ LockInv' /\ ProposalInv' /\ OneProposalPerView'
         /\ ValidateInv' /\ CommitInv' /\ SealInv' /\ CertifiedChain'
<1> USE DEF IndInv
<1>1. UNCHANGED <<locked, chain, preprepares, prepares, commits>>
  BY DEF Moves, msgs
<1>2. PICK s \in {"Accept", "RoundChange"} : state' = [state EXCEPT ![n] = s]
  BY Zenon DEF Moves
<1>3. view' = [view EXCEPT ![n] = v] /\ v.seq = Len(chain[n]) + 1
  BY Zenon DEF Moves
<1>4. ASSUME NEW p \in Validators, locked[p] \/ p # n
      PROVE  block'[p] = block[p]
  BY Zenon, <1>4 DEF Moves, TypeOK
<1>5. ~Validating(n)' /\ \A p \in Validators \ {n} : Validating(p)' <=> Validating(p)
  BY Zenon, <1>2 DEF Validating, TypeOK
<1>6. ViewInv'
  BY Zenon, <1>1, <1>2, <1>3 DEF ViewInv, TypeOK
<1>7. LockInv'
  BY <1>1, <1>4 DEF LockInv
<1>8. ProposalInv'
  <2>1. SUFFICES ASSUME NEW m \in preprepares
                 PROVE  \/ Validating(m.from)' /\ view'[m.from] = m.view
                        \/ Later(view'[m.from], m.view)
    BY Zenon, <1>1 DEF ProposalInv, HeadAt
  <2>2. m.from \in Validators /\ m.view \in Views
    BY DEF TypeOK, Preprepare
  <2>3. \/ Validating(m.from) /\ view[m.from] = m.view
        \/ Later(view[m.from], m.view)
    BY Zenon DEF ProposalInv
  <2>4. CASE m.from # n
    BY Zenon, <1>3, <1>5, <2>2, <2>3, <2>4 DEF TypeOK
  <2>5. CASE m.from = n
    <3>1. view'[n] = v /\ view[n] \in Views
      BY Zenon, <1>3 DEF TypeOK
    <3>2. CASE Validating(n) /\ view[n] = m.view
      BY Zenon, <2>5, <3>1, <3>2 DEF Moves
    <3>3. CASE Later(view[n], m.view)
      <4>1. ~Later(view[n], v)
        BY DEF Moves
      <4> QED
        BY SMTT(60), <2>2, <2>5, <3>1, <3>3, <4>1 DEF Later, Views
    <3> QED
      BY Zenon, <2>3, <2>5, <3>2, <3>3
  <2> QED
    BY Zenon, <2>4, <2>5
<1>9. OneProposalPerView' /\ CommitInv'
  BY Zenon, <1>1 DEF OneProposalPerView, CommitInv
<1>12. CertifiedChain'
  BY SMTT(60), <1>1, MoreCertified DEF CertifiedChain
<1>10. ValidateInv'
  BY Zenon, <1>1, <1>3, <1>4, <1>5 DEF ValidateInv, TypeOK
<1>11. SealInv'
  <2>1. SUFFICES ASSUME NEW c \in commits, c.seal.kind = "good"
                 PROVE  \/ locked[c.from] /\ block'[c.from] = c.seal
                        \/ /\ c.seal.num \in 1 .. Len(chain[c.from])
                           /\ chain[c.from][c.seal.num] = c.seal
    BY Zenon, <1>1 DEF SealInv
  <2>2. c.from \in Validators
    BY Zenon DEF TypeOK, Commit
  <2> QED
    BY Zenon, <1>4, <2>1, <2>2 DEF SealInv
<1> QED
  BY Zenon, <1>6, <1>7, <1>8, <1>9, <1>10, <1>11, <1>12

-----------------------------------------------------------------------------
(* Steps that propose, prepare, seal or insert *)

\* The proposer of a height is unique and proposes once per view.
LEMMA FreshView ==
  ASSUME IndInv, QuorumsIntersect, NEW n \in Validators, InSequence(n), IsProposer(n, n),
         NEW m \in preprepares
  PROVE  m.view # view[n]
<1> SUFFICES ASSUME m.view = view[n] PROVE FALSE
  OBVIOUS
<1> USE DEF IndInv
<1> DEFINE h == Len(chain[n])
<1>1. m.from \in Validators /\ m.view \in Views /\ h \in Nat /\ view[n].seq = h + 1
  BY DEF TypeOK, Preprepare, InSequence
<1>2. /\ h + 1 \in 1 .. Len(chain[m.from]) + 1
      /\ m.from = ProposerOf(HeadAt(m.from, h))
  BY SMTT(60), <1>1 DEF ProposalInv
<1>3. HeadAt(m.from, h) = HeadOf(n)
  <2>1. CASE h = 0
    BY <2>1 DEF HeadAt, HeadOf, TypeOK
  <2>2. CASE h # 0
    <3>1. h \in 1..Len(chain[n]) /\ h <= Len(chain[m.from])
      BY <1>1, <1>2, <2>2 DEF TypeOK
    <3>2. chain[n][h] = chain[m.from][h]
      BY Zenon, <1>1, <3>1, AgreementFromInv DEF Agreement
    <3>3. chain[n] # <<>>
      BY <1>1, <2>2 DEF TypeOK
    <3> QED
      BY Zenon, <2>2, <3>2, <3>3 DEF HeadAt, HeadOf
  <2> QED
    BY Zenon, <2>1, <2>2
<1>4. m.from = n
  BY Zenon, <1>2, <1>3 DEF IsProposer
<1>5. ~Validating(n) /\ ~Later(view[n], view[n])
  BY <1>1 DEF Validating, InSequence, Later, Views
<1> QED
  BY Zenon, <1>4, <1>5 DEF ProposalInv

\* Propose keeps the invariant.
LEMMA ProposeKeeps ==
  ASSUME IndInv, QuorumsIntersect, TypeOK', NEW n \in Validators, Propose(n)
  PROVE  /\ ViewInv' /\ LockInv' /\ ProposalInv' /\ OneProposalPerView'
         /\ ValidateInv' /\ CommitInv' /\ SealInv' /\ CertifiedChain'
<1> USE DEF IndInv
<1>1. PICK b \in ProposerBlocks(n) :
        /\ block' = [block EXCEPT ![n] = b]
        /\ preprepares' = preprepares \cup {[view |-> view[n], from |-> n, blk |-> b]}
  BY Zenon DEF Propose
<1> DEFINE new == [view |-> view[n], from |-> n, blk |-> b]
<1>2. /\ state' = [state EXCEPT ![n] = "Validate"]
      /\ UNCHANGED <<view, locked, chain, commits>>
  BY Zenon DEF Propose, roundVars
<1>3. /\ state[n] = "Accept" /\ view[n].seq = Len(chain[n]) + 1
      /\ n = ProposerOf(HeadOf(n)) /\ Len(chain[n]) \in Nat
  BY DEF Propose, InSequence, IsProposer, TypeOK
<1>4. b.num = Len(chain[n]) + 1 /\ (locked[n] => b = block[n])
  BY DEF ProposerBlocks, LockInv
<1>5. \A m \in preprepares : m.view # view[n]
  BY Zenon, FreshView DEF Propose
<1>6. \A p \in Validators : (locked[p] \/ p # n) => block'[p] = block[p]
  BY Zenon, <1>1, <1>4 DEF TypeOK
<1>7. Validating(n)' /\ \A p \in Validators \ {n} : Validating(p)' <=> Validating(p)
  BY SMTT(60), <1>2 DEF Validating, TypeOK
<1>8. ViewInv'
  BY Zenon, <1>2, <1>3 DEF ViewInv, TypeOK
<1>9. LockInv'
  BY Zenon, <1>2, <1>6 DEF LockInv
<1>10. ProposalInv'
  <2>1. SUFFICES ASSUME NEW m \in preprepares'
                 PROVE  /\ m.view.seq \in 1 .. Len(chain[m.from]) + 1
                        /\ m.blk.num = m.view.seq
                        /\ m.from = ProposerOf(HeadAt(m.from, m.view.seq - 1))
                        /\ \/ Validating(m.from)' /\ view[m.from] = m.view
                           \/ Later(view[m.from], m.view)
    BY Zenon, <1>2 DEF ProposalInv, HeadAt
  <2>2. CASE m = new
    <3>1. HeadAt(n, Len(chain[n])) = HeadOf(n)
      BY SMTT(60), <1>3 DEF HeadAt, HeadOf, TypeOK
    <3> QED
      BY SMTT(60), <1>3, <1>4, <1>7, <2>2, <3>1
  <2>3. CASE m \in preprepares
    <3>1. m.from \in Validators
      BY Zenon, <2>3 DEF TypeOK, Preprepare
    <3>2. m.from = n => Later(view[n], m.view)
      BY Zenon, <1>3, <2>3 DEF ProposalInv, Validating
    <3> QED
      BY Zenon, <1>7, <2>3, <3>1, <3>2 DEF ProposalInv
  <2> QED
    BY Zenon, <1>1, <2>2, <2>3
<1>11. OneProposalPerView'
  BY <1>1, <1>5 DEF OneProposalPerView
<1>12. ValidateInv'
  <2>1. SUFFICES ASSUME NEW p \in Validators, Validating(p)'
                 PROVE  \E m \in preprepares' : m.view = view[p] /\ m.blk = block'[p]
    BY Zenon, <1>2 DEF ValidateInv
  <2>2. CASE p = n
    <3>1. block'[n] = b
      BY Zenon, <1>1 DEF TypeOK
    <3>2. new \in preprepares' /\ new.view = view[p] /\ new.blk = block'[p]
      BY Zenon, <1>1, <2>2, <3>1
    <3> QED
      BY Zenon, <3>2
  <2>3. CASE p # n
    BY Zenon, <1>1, <1>6, <1>7, <2>1, <2>3 DEF ValidateInv
  <2> QED
    BY Zenon, <2>2, <2>3
<1>13. CommitInv'
  BY Zenon, <1>1, <1>2 DEF CommitInv
<1>14. SealInv'
  <2>1. SUFFICES ASSUME NEW c \in commits, c.seal.kind = "good"
                 PROVE  \/ locked[c.from] /\ block'[c.from] = c.seal
                        \/ /\ c.seal.num \in 1 .. Len(chain[c.from])
                           /\ chain[c.from][c.seal.num] = c.seal
    BY Zenon, <1>2 DEF SealInv
  <2>2. c.from \in Validators
    BY Zenon DEF TypeOK, Commit
  <2> QED
    BY Zenon, <1>6, <2>1, <2>2 DEF SealInv
<1>15. CertifiedChain'
  BY Zenon, <1>2, MoreCertified DEF CertifiedChain
<1> QED
  BY Zenon, <1>8, <1>9, <1>10, <1>11, <1>12, <1>13, <1>14, <1>15

\* The steps that accept the proposal of the view, or seal it, or both: block b
\* becomes or stays n's block, and is sealed only under a lock.
Validates(n, b) ==
  /\ state[n] # "Sync"
  /\ \E s \in {"Validate", "Sealed"} : state' = [state EXCEPT ![n] = s]
  /\ \E m \in preprepares : m.view = view[n] /\ m.blk = b
  /\ block' = [block EXCEPT ![n] = b]
  /\ locked[n] => b = block[n]
  /\ locked' \in {locked, [locked EXCEPT ![n] = TRUE]}
  /\ \/ UNCHANGED commits
     \/ /\ locked'[n]
        /\ commits' = commits \cup {[view |-> view[n], from |-> n, seal |-> b]}
  /\ UNCHANGED <<view, chain, preprepares>>

\* Accepting a proposal and sealing it are such steps.
LEMMA ValidatesStep ==
  ASSUME IndInv, NEW n \in Validators,
         \/ \E m \in preprepares : AcceptLocked(n, m) \/ AcceptProposal(n, m)
         \/ ValidatePrepared(n)
  PROVE  \E b \in Block : Validates(n, b)
<1> USE DEF IndInv
<1>1. ASSUME NEW m \in preprepares, AcceptLocked(n, m)
      PROVE  \E b \in Block : Validates(n, b)
  <2>1. /\ m.blk = block[n] /\ m.view = view[n] /\ locked[n]
        /\ m.blk \in Block /\ state[n] # "Sync"
    BY Zenon, <1>1 DEF AcceptLocked, ReadsPreprepare, InSequence, TypeOK, Preprepare
  <2>2. /\ state' = [state EXCEPT ![n] = "Validate"]
        /\ commits' = commits \cup {[view |-> view[n], from |-> n, seal |-> m.blk]}
        /\ UNCHANGED <<view, block, locked, chain, preprepares>>
    BY Zenon, <1>1, <2>1 DEF AcceptLocked
  <2>3. block' = [block EXCEPT ![n] = m.blk]
    BY Zenon, <2>1, <2>2 DEF TypeOK
  <2>4. Validates(n, m.blk)
    BY Zenon, <2>1, <2>2, <2>3 DEF Validates
  <2> QED
    BY Zenon, <2>1, <2>4
<1>2. ASSUME NEW m \in preprepares, AcceptProposal(n, m)
      PROVE  \E b \in Block : Validates(n, b)
  <2>1. /\ m.view = view[n] /\ ~locked[n] /\ m.blk \in Block /\ state[n] # "Sync"
    BY Zenon, <1>2 DEF AcceptProposal, ReadsPreprepare, InSequence, TypeOK, Preprepare
  <2>2. /\ state' = [state EXCEPT ![n] = "Validate"]
        /\ block' = [block EXCEPT ![n] = m.blk]
        /\ UNCHANGED <<view, locked, chain, preprepares, commits>>
    BY Zenon, <1>2 DEF AcceptProposal
  <2>3. Validates(n, m.blk)
    BY Zenon, <2>1, <2>2 DEF Validates
  <2> QED
    BY <2>1, <2>3
<1>3. CASE ValidatePrepared(n)
  <2>1. state[n] = "Validate" /\ Validating(n)
    BY Zenon, <1>3 DEF ValidatePrepared, Validating
  <2>2. PICK m \in preprepares : m.view = view[n] /\ m.blk = block[n]
    BY Zenon, <2>1 DEF ValidateInv
  <2>3. block[n] \in Block /\ block' = [block EXCEPT ![n] = block[n]]
    BY Zenon, <1>3, <2>1 DEF ValidatePrepared, TypeOK
  <2>4. /\ state' = [state EXCEPT ![n] = "Sealed"]
        /\ locked' = [locked EXCEPT ![n] = TRUE]
        /\ commits' = commits \cup {[view |-> view[n], from |-> n, seal |-> block[n]]}
        /\ UNCHANGED <<view, chain, preprepares>>
    BY Zenon, <1>3, <2>1 DEF ValidatePrepared, SendsCommit
  <2>5. locked'[n]
    BY Zenon, <2>4 DEF TypeOK
  <2>6. Validates(n, block[n])
    BY Zenon, <2>1, <2>2, <2>3, <2>4, <2>5 DEF Validates
  <2> QED
    BY Zenon, <2>3, <2>6
<1> QED
  BY Zenon, <1>1, <1>2, <1>3

\* They keep the invariant.
LEMMA ValidatesKeep ==
  ASSUME IndInv, TypeOK', NEW n \in Validators, NEW b \in Block, Validates(n, b)
  PROVE  /\ ViewInv' /\ LockInv' /\ ProposalInv' /\ OneProposalPerView'
         /\ ValidateInv' /\ CommitInv' /\ SealInv' /\ CertifiedChain'
<1> USE DEF IndInv
<1>1. UNCHANGED <<view, chain, preprepares>> /\ commits \subseteq commits'
  BY DEF Validates
<1>2. PICK s \in {"Validate", "Sealed"} : state' = [state EXCEPT ![n] = s]
  BY Zenon DEF Validates
<1>3. PICK m0 \in preprepares : m0.view = view[n] /\ m0.blk = b
  BY Zenon DEF Validates
<1>4. block'[n] = b /\ \A p \in Validators : (locked[p] \/ p # n) => block'[p] = block[p]
  BY Zenon DEF Validates, TypeOK
<1>5. /\ \A p \in Validators : locked[p] => locked'[p]
      /\ \A p \in Validators \ {n} : locked'[p] => locked[p]
  BY SMTT(60) DEF Validates, TypeOK
<1>6. Validating(n)' /\ \A p \in Validators \ {n} : Validating(p)' <=> Validating(p)
  BY Zenon, <1>2 DEF Validating, TypeOK
<1>7. view[n].seq = Len(chain[n]) + 1 /\ b.num = view[n].seq
  BY Zenon, <1>3 DEF Validates, ViewInv, ProposalInv
<1>8. ViewInv'
  BY Zenon, <1>1, <1>2, <1>5, <1>7 DEF ViewInv, TypeOK
<1>9. LockInv'
  BY Zenon, <1>1, <1>4, <1>5, <1>7 DEF LockInv
<1>10. ProposalInv'
  <2>1. SUFFICES ASSUME NEW m \in preprepares
                 PROVE  \/ Validating(m.from)' /\ view[m.from] = m.view
                        \/ Later(view[m.from], m.view)
    BY Zenon, <1>1 DEF ProposalInv, HeadAt
  <2>2. m.from \in Validators
    BY Zenon DEF TypeOK, Preprepare
  <2> QED
    BY Zenon, <1>6, <2>2 DEF ProposalInv
<1>11. OneProposalPerView'
  BY SMTT(60), <1>1 DEF OneProposalPerView
<1>12. ValidateInv'
  BY Zenon, <1>1, <1>3, <1>4, <1>6 DEF ValidateInv
<1>13. CommitInv'
  BY SMTT(60), <1>1, <1>3 DEF CommitInv, Validates
<1>14. SealInv'
  <2>1. SUFFICES ASSUME NEW c \in commits', c.seal.kind = "good"
                 PROVE  \/ locked'[c.from] /\ block'[c.from] = c.seal
                        \/ /\ c.seal.num \in 1 .. Len(chain[c.from])
                           /\ chain[c.from][c.seal.num] = c.seal
    BY Zenon, <1>1 DEF SealInv
  <2>2. CASE c \in commits
    <3>1. c.from \in Validators
      BY Zenon, <2>2 DEF TypeOK, Commit
    <3> QED
      BY Zenon, <1>4, <1>5, <2>1, <2>2, <3>1 DEF SealInv
  <2>3. CASE c \notin commits
    BY <1>4, <2>3 DEF Validates
  <2> QED
    BY Zenon, <2>2, <2>3
<1>15. CertifiedChain'
  BY <1>1, MoreCertified DEF CertifiedChain
<1> QED
  BY Zenon, <1>8, <1>9, <1>10, <1>11, <1>12, <1>13, <1>14, <1>15

\* A block whose commits took the tally above NumValid has a certificate.
LEMMA TallyCertifies ==
  ASSUME TypeOK, NEW n \in Validators, Validating(n), CommitsOnBlock(n)
  PROVE  block[n] \in Certified
<1> DEFINE S == Senders({c \in CommitsFor(n) : c.seal = block[n]})
           T == Senders({c \in commits : c.seal = block[n]})
<1>1. S \subseteq T /\ T \subseteq Validators
  BY DEF Senders, CommitsFor, TypeOK, Commit
<1>2. block[n] \in Block /\ Cardinality(S) > NumValid
  BY DEF CommitsOnBlock, TypeOK
<1>3. Cardinality(T) > NumValid
  <2> HIDE DEF S, T
  <2>1. IsFiniteSet(T) /\ IsFiniteSet(S)
    BY <1>1, ValidatorsAssumption, FS_Subset
  <2>2. Cardinality(S) <= Cardinality(T)
    BY Zenon, <1>1, <2>1, FS_Subset
  <2>3. Cardinality(S) \in Nat /\ Cardinality(T) \in Nat
    BY Zenon, <2>1, FS_CardinalityType
  <2> QED
    BY <1>2, <2>2, <2>3, NumValidNat
<1> QED
  BY Zenon, <1>2, <1>3 DEF Certified

\* What is being validated is of the height after the head.
LEMMA ValidatedHeight ==
  ASSUME IndInv, NEW n \in Validators, Validating(n)
  PROVE  /\ block[n] \in Block
         /\ block[n].num = Len(chain[n]) + 1
         /\ view[n].seq = Len(chain[n]) + 1
BY ZenonT(60) DEF IndInv, TypeOK, ValidateInv, ProposalInv, ViewInv, Validating

\* InsertBlock keeps the invariant.
LEMMA InsertBlockKeeps ==
  ASSUME IndInv, TypeOK', NEW n \in Validators, InsertBlock(n)
  PROVE  /\ ViewInv' /\ LockInv' /\ ProposalInv' /\ OneProposalPerView'
         /\ ValidateInv' /\ CommitInv' /\ SealInv' /\ CertifiedChain'
<1> USE DEF IndInv
<1> DEFINE b == block[n]
           h == Len(chain[n])
<1>1. /\ Validating(n) /\ CommitsOnBlock(n) /\ b.kind = "good"
      /\ commits' = commits \cup SendsCommit(n)
      /\ UNCHANGED preprepares
  BY Zenon DEF InsertBlock, Executes
<1>2. b \in Block /\ b.num = h + 1 /\ view[n].seq = h + 1 /\ h \in Nat
  BY <1>1, ValidatedHeight DEF TypeOK
<1>3. chain' = [chain EXCEPT ![n] = Append(chain[n], b)]
  BY Zenon, <1>2 DEF InsertBlock, WriteBlock
<1>4. /\ Len(chain'[n]) = h + 1 /\ chain'[n][h + 1] = b
      /\ \A i \in 1..h : chain'[n][i] = chain[n][i]
  <2>1. chain[n] \in Seq(Block) /\ chain'[n] = Append(chain[n], b)
    BY Zenon, <1>3 DEF TypeOK
  <2> QED
    BY SMTT(60), <1>2, <2>1
<1>5. /\ view' = [view EXCEPT ![n] = View(b.num + 1, 0)]
      /\ state' = [state EXCEPT ![n] = "Accept"]
      /\ block' = [block EXCEPT ![n] = Nil]
      /\ locked' = [locked EXCEPT ![n] = FALSE]
  BY Zenon DEF InsertBlock, EnterAccept, Unlock
<1>6. view'[n].seq = h + 2
  <2>1. view'[n] = View(b.num + 1, 0)
    BY Zenon, <1>5 DEF TypeOK
  <2>2. View(b.num + 1, 0).seq = b.num + 1
    BY Zenon DEF View
  <2> QED
    BY SMTT(60), <1>2, <2>1, <2>2
<1>7. /\ ~locked'[n] /\ ~Validating(n)' /\ state'[n] = "Accept"
      /\ \A p \in Validators \ {n} :
           /\ locked'[p] = locked[p] /\ block'[p] = block[p] /\ chain'[p] = chain[p]
           /\ view'[p] = view[p] /\ state'[p] = state[p]
           /\ Validating(p)' <=> Validating(p)
  BY SMTT(60), <1>3, <1>5 DEF TypeOK, Validating
<1>8. ViewInv'
  <2>1. SUFFICES ASSUME NEW p \in Validators
                 PROVE  IF state'[p] = "Sync"
                        THEN chain'[p] = <<>> /\ view'[p] = View(0, 0) /\ ~locked'[p]
                        ELSE view'[p].seq = Len(chain'[p]) + 1
    BY Zenon DEF ViewInv
  <2>2. CASE p = n
    <3> HIDE DEF IndInv
    <3> QED
      BY SMTT(60), <1>2, <1>4, <1>6, <1>7, <2>2
  <2>3. CASE p # n
    <3>1. IF state[p] = "Sync"
          THEN chain[p] = <<>> /\ view[p] = View(0, 0) /\ ~locked[p]
          ELSE view[p].seq = Len(chain[p]) + 1
      BY DEF ViewInv
    <3> HIDE DEF IndInv
    <3> QED
      BY Zenon, <1>7, <2>3, <3>1
  <2> QED
    BY Zenon, <2>2, <2>3
<1>9. LockInv'
  BY Zenon, <1>7 DEF LockInv
<1>10. ProposalInv'
  <2>1. SUFFICES ASSUME NEW m \in preprepares
                 PROVE  /\ m.view.seq \in 1 .. Len(chain'[m.from]) + 1
                        /\ m.from = ProposerOf(HeadAt(m.from, m.view.seq - 1)')
                        /\ \/ Validating(m.from)' /\ view'[m.from] = m.view
                           \/ Later(view'[m.from], m.view)
    BY Zenon, <1>1 DEF ProposalInv, HeadAt
  <2>2. m.from \in Validators /\ m.view \in Views
    BY Zenon DEF TypeOK, Preprepare
  <2>3. CASE m.from # n
    BY Zenon, <1>7, <2>2, <2>3 DEF ProposalInv, HeadAt
  <2>4. CASE m.from = n
    <3>1. m.view.seq \in 1 .. h + 1
      BY Zenon, <2>4 DEF ProposalInv
    <3>2. HeadAt(n, m.view.seq - 1)' = HeadAt(n, m.view.seq - 1)
      <4>1. m.view.seq - 1 = 0 \/ m.view.seq - 1 \in 1..h
        BY <1>2, <3>1
      <4> QED
        BY Zenon, <1>4, <4>1 DEF HeadAt
    <3>3. Later(view'[n], m.view)
      BY SMTT(60), <1>2, <1>6, <3>1 DEF Later
    <3> QED
      BY SMTT(60), <1>2, <1>4, <2>4, <3>1, <3>2, <3>3 DEF ProposalInv
  <2> QED
    BY Zenon, <2>3, <2>4
<1>11. OneProposalPerView'
  BY Zenon, <1>1 DEF OneProposalPerView
<1>12. ValidateInv'
  BY Zenon, <1>1, <1>7 DEF ValidateInv
<1>13. CommitInv'
  BY SMTT(60), <1>1 DEF CommitInv, SendsCommit, ValidateInv
<1>14. SealInv'
  <2>1. SUFFICES ASSUME NEW c \in commits', c.seal.kind = "good"
                 PROVE  \/ locked'[c.from] /\ block'[c.from] = c.seal
                        \/ /\ c.seal.num \in 1 .. Len(chain'[c.from])
                           /\ chain'[c.from][c.seal.num] = c.seal
    BY Zenon DEF SealInv
  <2>2. CASE c \in commits
    <3>1. c.from \in Validators
      BY Zenon, <2>2 DEF TypeOK, Commit
    <3>2. \/ locked[c.from] /\ block[c.from] = c.seal
          \/ c.seal.num \in 1 .. Len(chain[c.from]) /\ chain[c.from][c.seal.num] = c.seal
      BY Zenon, <2>1, <2>2 DEF SealInv
    <3>3. CASE c.from # n
      <4> HIDE DEF IndInv
      <4>1. /\ locked'[c.from] = locked[c.from] /\ block'[c.from] = block[c.from]
            /\ chain'[c.from] = chain[c.from]
        BY Zenon, <1>7, <3>1, <3>3
      <4> QED
        BY Zenon, <3>2, <4>1
    <3>4. CASE c.from = n
      <4>1. CASE block[n] = c.seal
        <5>1. c.seal.num = h + 1 /\ h + 1 \in 1 .. h + 1
          BY SMTT(60), <1>2, <4>1
        <5> QED
          BY Zenon, <1>4, <3>4, <4>1, <5>1
      <4>2. CASE c.seal.num \in 1..h /\ chain[n][c.seal.num] = c.seal
        <5>1. c.seal.num \in 1 .. h + 1
          BY <1>2, <4>2
        <5> QED
          BY Zenon, <1>4, <3>4, <4>2, <5>1
      <4> QED
        BY Zenon, <3>2, <3>4, <4>1, <4>2
    <3> QED
      BY Zenon, <3>3, <3>4
  <2>3. CASE c \notin commits
    <3>1. c.from = n /\ c.seal = b
      BY SMTT(60), <1>1, <2>3 DEF SendsCommit
    <3> QED
      BY SMTT(60), <1>2, <1>4, <3>1
  <2> QED
    BY Zenon, <2>2, <2>3
<1>15. CertifiedChain'
  <2>1. Certified \subseteq Certified' /\ b \in Certified
    BY Zenon, <1>1, MoreCertified, TallyCertifies
  <2>2. SUFFICES ASSUME NEW p \in Validators, NEW i \in 1..Len(chain'[p])
                 PROVE  /\ chain'[p][i].num = i
                        /\ chain'[p][i].kind = "good"
                        /\ chain'[p][i] \in Certified'
    BY Zenon DEF CertifiedChain
  <2>3. CASE p # n
    BY SMTT(60), <1>7, <2>1, <2>3 DEF CertifiedChain
  <2>4. CASE p = n /\ i = h + 1
    BY Zenon, <1>1, <1>2, <1>4, <2>1, <2>4
  <2>5. CASE p = n /\ i # h + 1
    <3>1. i \in 1..h
      BY <1>2, <1>4, <2>5
    <3> QED
      BY SMTT(60), <1>4, <2>1, <2>5, <3>1 DEF CertifiedChain
  <2> QED
    BY Zenon, <2>3, <2>4, <2>5
<1> QED
  BY Zenon, <1>8, <1>9, <1>10, <1>11, <1>12, <1>13, <1>14, <1>15
=============================================================================
