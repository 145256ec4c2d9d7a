----------------------------- MODULE IbftProofs -----------------------------
(***************************************************************************)
(* The theorems about Ibft, for any number of validators, heights and      *)
(* rounds.                                                                 *)
(***************************************************************************)
EXTENDS IbftInvariant

(* An insertion that fails *)

\* An insertion only fails on a block that cannot be executed.
LEMMA InsertFailsBad ==
  ASSUME IndInv, NEW n \in Validators, InsertFails(n)
  PROVE  block[n].kind # "good"
<1>1. Validating(n) /\ ~CommitsMixed(n)
  BY SealsMatchFromInv DEF IndInv, InsertFails, SealsMatch, CommitsMixed
<1>2. ~Executes(n)
  BY <1>1 DEF InsertFails
<1>3. block[n].num = Len(chain[n]) + 1 /\ Len(chain[n]) \in Nat
  BY <1>1, ValidatedHeight DEF IndInv, TypeOK
<1> QED
  BY <1>2, <1>3 DEF Executes

\* InsertFails keeps the invariant.
LEMMA InsertFailsKeeps ==
  ASSUME IndInv, TypeOK', NEW n \in Validators, InsertFails(n)
  PROVE  /\ ViewInv' /\ LockInv' /\ ProposalInv' /\ OneProposalPerView'
         /\ ValidateInv' /\ CommitInv' /\ SealInv' /\ CertifiedChain'
<1> USE DEF IndInv
<1>1. /\ Validating(n) /\ state[n] # "Sync"
      /\ commits' = commits \cup SendsCommit(n)
      /\ UNCHANGED <<chain, preprepares>>
  BY DEF InsertFails, Validating
<1>2. /\ view[n].round + 1 \in Nat /\ view[n].round + 1 > view[n].round
      /\ SendRoundChange(n, view[n].round + 1, rcQueue[n])
  <2>1. view[n] \in Views
    BY DEF TypeOK
  <2>2. view[n].round \in Nat
    BY <2>1 DEF Views
  <2>3. EnterRoundChange(n)
    BY DEF InsertFails
  <2> QED
    BY <2>2, <2>3 DEF EnterRoundChange
<1>3. PICK v \in Views : /\ v.seq = Len(chain[n]) + 1
                         /\ Later(v, view[n]) /\ ~Later(view[n], v)
                         /\ view' = [view EXCEPT ![n] = v]
  BY <1>1, <1>2, SendRoundChangeMoves
<1>4. /\ state' = [state EXCEPT ![n] = "RoundChange"]
      /\ block' = [block EXCEPT ![n] = Nil]
      /\ locked' = [locked EXCEPT ![n] = FALSE]
  BY DEF InsertFails, EnterRoundChange, Unlock
<1>5. /\ ~locked'[n] /\ ~Validating(n)' /\ state'[n] = "RoundChange" /\ view'[n] = v
      /\ \A p \in Validators \ {n} :
           /\ locked'[p] = locked[p] /\ block'[p] = block[p]
           /\ view'[p] = view[p] /\ state'[p] = state[p]
           /\ Validating(p)' <=> Validating(p)
  BY <1>3, <1>4 DEF TypeOK, Validating
<1>6. block[n].kind # "good"
  BY InsertFailsBad
<1>7. ViewInv'
  BY <1>1, <1>3, <1>5 DEF ViewInv
<1>8. LockInv'
  BY <1>1, <1>5 DEF LockInv
<1>9. ProposalInv'
  <2>1. SUFFICES ASSUME NEW m \in preprepares
                 PROVE  \/ Validating(m.from)' /\ view'[m.from] = m.view
                        \/ Later(view'[m.from], m.view)
    BY <1>1 DEF ProposalInv, HeadAt
  <2>2. m.from \in Validators /\ m.view \in Views
    BY DEF TypeOK, Preprepare
  <2>3. CASE m.from # n
    BY SMTT(60), <1>5, <2>2, <2>3 DEF ProposalInv
  <2>4. CASE m.from = n
    <3>1. view[n] = m.view \/ Later(view[n], m.view)
      BY <2>4 DEF ProposalInv
    <3>2. view[n] \in Views
      BY DEF TypeOK
    <3> QED
      BY SMTT(60), <1>3, <1>5, <2>2, <2>4, <3>1, <3>2 DEF Later, Views
  <2> QED
    BY <2>3, <2>4
<1>10. OneProposalPerView'
  BY <1>1 DEF OneProposalPerView
<1>11. ValidateInv'
  BY <1>1, <1>5 DEF ValidateInv
<1>12. CommitInv'
  BY <1>1 DEF CommitInv, SendsCommit, ValidateInv
<1>13. SealInv'
  <2>1. SUFFICES ASSUME NEW c \in commits', c.seal.kind = "good"
                 PROVE  \/ locked'[c.from] /\ block'[c.from] = c.seal
                        \/ /\ c.seal.num \in 1 .. Len(chain[c.from])
                           /\ chain[c.from][c.seal.num] = c.seal
    BY <1>1 DEF SealInv
  <2>2. c \in commits
    BY SMTT(60), <1>1, <1>6, <2>1 DEF SendsCommit
  <2>3. c.from \in Validators
    BY <2>2 DEF TypeOK, Commit
  <2>4. \/ locked[c.from] /\ block[c.from] = c.seal
        \/ c.seal.num \in 1 .. Len(chain[c.from]) /\ chain[c.from][c.seal.num] = c.seal
    BY <2>1, <2>2 DEF SealInv
  <2> QED
    BY SMTT(60), <1>5, <1>6, <2>1, <2>3, <2>4
<1>14. CertifiedChain'
  BY <1>1, MoreCertified DEF CertifiedChain
<1> QED
  BY SMTT(60), <1>7, <1>8, <1>9, <1>10, <1>11, <1>12, <1>13, <1>14

-----------------------------------------------------------------------------
(* Queued RoundChange messages *)

\* EnterAccept leaves only later messages in the validator's queue.
LEMMA EnterAcceptRounds ==
  ASSUME TypeOK, RoundInv, NEW n \in Validators, NEW v \in Views, EnterAccept(n, v)
  PROVE  RoundInv'
<1> SUFFICES ASSUME NEW p \in Validators, NEW m \in rcQueue'[p]
             PROVE  ~Later(view'[p], m.view)
  BY DEF RoundInv
<1>1. CASE p # n
  BY <1>1 DEF EnterAccept, TypeOK, RoundInv
<1>2. CASE p = n
  <2>1. m \in rcQueue[n] /\ Later(m.view, v) /\ view'[n] = v
    BY <1>2 DEF EnterAccept, TypeOK
  <2>2. m.view \in Views
    BY <2>1 DEF TypeOK, RoundChange
  <2> QED
    BY <1>2, <2>1, <2>2 DEF Later, Views
<1> QED
  BY <1>1, <1>2

\* SendRoundChange queues its message only where it can still be read.
LEMMA SendRoundChangeRounds ==
  ASSUME TypeOK, RoundInv, NEW n \in Validators, NEW r \in Nat, NEW queue,
         SendRoundChange(n, r, queue)
  PROVE  RoundInv'
<1> SUFFICES ASSUME NEW p \in Validators, NEW m \in rcQueue'[p]
             PROVE  ~Later(view'[p], m.view)
  BY DEF RoundInv
<1> DEFINE v == View(view[n].seq, r)
<1>1. v \in Views /\ view[p] \in Views
  BY DEF TypeOK, View, Views
<1>2. view' = [view EXCEPT ![n] = v]
  BY DEF SendRoundChange
<1>3. CASE p = n
  <2>1. view'[p] = v
    BY <1>2, <1>3 DEF TypeOK
  <2>2. m.view = v \/ ~Later(v, m.view)
    BY <1>3 DEF SendRoundChange
  <2> HIDE DEF v
  <2> QED
    BY SMTT(60), <1>1, <2>1, <2>2 DEF Later, Views
<1>4. CASE p # n
  <2>1. view'[p] = view[p]
    BY <1>2, <1>4 DEF TypeOK
  <2>2. \/ m \in rcQueue[p]
        \/ m.view = v /\ (Later(v, view[p]) \/ v = view[p])
    BY <1>4 DEF SendRoundChange
  <2> HIDE DEF v
  <2> QED
    BY <1>1, <2>1, <2>2 DEF Later, Views, RoundInv
<1> QED
  BY <1>3, <1>4

\* No step leaves a message in a queue that is older than the reader's view.
LEMMA StepRounds ==
  ASSUME TypeOK, RoundInv, NEW n \in Validators, Step(n)
  PROVE  RoundInv'
<1>1. ASSUME EnterRoundChange(n) PROVE RoundInv'
  <2>1. view[n].round + 1 \in Nat
    BY DEF TypeOK, Views
  <2> QED
    BY SMTT(60), <1>1, <2>1, SendRoundChangeRounds DEF EnterRoundChange
<1>2. ASSUME UNCHANGED <<view, rcQueue>> PROVE RoundInv'
  BY <1>2 DEF RoundInv
<1>3. CASE SyncNoPeer(n)
  <2>1. View(Len(chain[n]) + 1, 0) \in Views
    BY SMTT(60) DEF TypeOK, View, Views
  <2> QED
    BY <1>3, <2>1, EnterAcceptRounds DEF SyncNoPeer
<1>4. CASE AcceptStep(n)
  BY Zenon, <1>1, <1>2, <1>4 DEF AcceptStep, Propose, BuildFails, AcceptLocked, RejectProposal,
                          AcceptProposal, AcceptTimeout, roundVars
<1>5. CASE InsertBlock(n)
  <2>1. View(block[n].num + 1, 0) \in Views
    BY <1>5 DEF InsertBlock, TypeOK, Block, View, Views
  <2> QED
    BY SMTT(60), <1>5, <2>1, EnterAcceptRounds DEF InsertBlock
<1>6. CASE ValidatePrepared(n) \/ InsertFails(n) \/ ValidateTimeout(n)
  BY SMTT(60), <1>1, <1>2, <1>6 DEF ValidatePrepared, InsertFails, ValidateTimeout, roundVars
<1>7. ASSUME NEW m \in rcQueue[n], StartNewRound(n, m) PROVE RoundInv'
  <2>1. m.view \in Views
    BY DEF TypeOK, RoundChange
  <2> QED
    BY SMTT(60), <1>7, <2>1, EnterAcceptRounds DEF StartNewRound
<1>8. ASSUME NEW m \in rcQueue[n], CatchUpRound(n, m) PROVE RoundInv'
  <2>1. m.view.round \in Nat
    BY DEF TypeOK, RoundChange, Views
  <2> QED
    BY <1>8, <2>1, SendRoundChangeRounds DEF CatchUpRound
<1>9. ASSUME NEW m \in rcQueue[n], CountRoundChange(n, m) PROVE RoundInv'
  BY Zenon, <1>9 DEF CountRoundChange, RoundInv, TypeOK
<1>10. CASE RoundChangeTimeout(n)
  <2>1. view[n].round + 1 \in Nat
    BY DEF TypeOK, Views
  <2> QED
    BY Zenon, <1>10, <2>1, SendRoundChangeRounds DEF RoundChangeTimeout
<1> QED
  BY SMTT(60), <1>3, <1>4, <1>5, <1>6, <1>7, <1>8, <1>9, <1>10 DEF Step, ValidateStep, RoundChangeStep

-----------------------------------------------------------------------------
(* The theorems *)

\* The initial state satisfies the invariant.
LEMMA InitInd == Init => IndInv
<1> SUFFICES ASSUME Init PROVE IndInv
  OBVIOUS
<1>1. TypeOK
  BY InitType
<1> QED
  BY <1>1 DEF Init, IndInv, RoundInv, ViewInv, LockInv, ProposalInv, OneProposalPerView,
              ValidateInv, CommitInv, SealInv, CertifiedChain, Validating

\* Every step falls into one of five classes.
LEMMA StepClasses ==
  ASSUME IndInv, NEW n \in Validators, Step(n)
  PROVE  \/ \E v \in Views : Moves(n, v)
         \/ Propose(n)
         \/ \E b \in Block : Validates(n, b)
         \/ InsertBlock(n)
         \/ InsertFails(n)
<1>1. CASE \/ SyncNoPeer(n) \/ BuildFails(n) \/ AcceptTimeout(n) \/ ValidateTimeout(n)
           \/ \E m \in preprepares : RejectProposal(n, m)
           \/ RoundChangeStep(n)
  BY <1>1, MoveStep DEF IndInv
<1>2. CASE \/ \E m \in preprepares : AcceptLocked(n, m) \/ AcceptProposal(n, m)
           \/ ValidatePrepared(n)
  BY <1>2, ValidatesStep
<1> QED
  BY <1>1, <1>2 DEF Step, AcceptStep, ValidateStep

\* Every step keeps the invariant when quorums intersect.
LEMMA NextInd ==
  ASSUME QuorumsIntersect, IndInv, [Next]_vars
  PROVE  IndInv'
<1>1. TypeOK'
  BY NextType DEF IndInv, NextSync
<1>2. ASSUME NEW n \in Validators, Step(n) PROVE IndInv'
  <2>1. RoundInv'
    BY SMTT(60), <1>2, StepRounds DEF IndInv
  <2>2. /\ ViewInv' /\ LockInv' /\ ProposalInv' /\ OneProposalPerView'
        /\ ValidateInv' /\ CommitInv' /\ SealInv' /\ CertifiedChain'
    BY SMTT(60), <1>1, <1>2, StepClasses, MovesKeep, ProposeKeeps, ValidatesKeep, InsertBlockKeeps,
       InsertFailsKeeps
  <2> QED
    BY <1>1, <2>1, <2>2 DEF IndInv
<1>3. CASE UNCHANGED vars
  <2>1. UNCHANGED <<state, view, block, locked, rcQueue, chain, preprepares, commits>>
    BY SMTT(60), <1>3 DEF vars
  <2>2. CertifiedChain'
    BY SMTT(60), <1>1, <2>1, MoreCertified DEF IndInv, CertifiedChain
  <2>3. RoundInv' /\ ViewInv' /\ LockInv'
    BY SMTT(60), <2>1 DEF IndInv, RoundInv, ViewInv, LockInv
  <2>4. ProposalInv' /\ OneProposalPerView' /\ ValidateInv'
    BY SMTT(60), <2>1 DEF IndInv, ProposalInv, HeadAt, OneProposalPerView, ValidateInv, Validating
  <2>5. CommitInv' /\ SealInv'
    BY <2>1 DEF IndInv, CommitInv, SealInv
  <2> QED
    BY SMTT(60), <1>1, <2>2, <2>3, <2>4, <2>5 DEF IndInv
<1> QED
  BY <1>2, <1>3 DEF Next, AtBound

\* Consensus keeps the inductive invariant, for every set of validators whose
\* quorums of 2F + 1 intersect.
THEOREM Inductive ==
  ASSUME QuorumsIntersect
  PROVE  Spec => []IndInv
<1>1. Init => IndInv
  BY InitInd
<1>2. IndInv /\ [Next]_vars => IndInv'
  BY NextInd
<1> QED
  BY <1>1, <1>2, PTL DEF Spec

\* No two validators insert different blocks at one height.
THEOREM AgreementHolds ==
  ASSUME QuorumsIntersect
  PROVE  Spec => []Agreement
<1>1. IndInv => Agreement
  BY AgreementFromInv DEF IndInv
<1> QED
  BY <1>1, Inductive, PTL

\* No validator seals two blocks of one height.
THEOREM OneSealHolds ==
  ASSUME QuorumsIntersect
  PROVE  Spec => []OneSealPerHeight
<1>1. IndInv => OneSealPerHeight
  BY SameSeal DEF IndInv
<1> QED
  BY <1>1, Inductive, PTL

\* The seals that insertBlock assembles are all on the block it writes.
THEOREM SealsMatchHolds ==
  ASSUME QuorumsIntersect
  PROVE  Spec => []SealsMatch
<1>1. IndInv => SealsMatch
  BY SealsMatchFromInv DEF IndInv
<1> QED
  BY <1>1, Inductive, PTL

\* With F = (N - 1) \div 3, quorums of 2F + 1 intersect for every number N of
\* validators but 2, 3 and 6.
THEOREM QuorumSizes ==
  QuorumsIntersect <=> Cardinality(Validators) \notin {2, 3, 6}
<1> DEFINE N == Cardinality(Validators)
<1>1. N \in Nat \ {0}
  BY ValidatorsAssumption, FS_CardinalityType, FS_EmptySet
<1>2. QuorumsIntersect <=> 2 * (2 * ((N - 1) \div 3) + 1) > N
  BY DEF QuorumsIntersect, NumValid, MaxFaultyNodes
<1> HIDE DEF N
<1>3. PICK k \in Nat : N = 3 * k + 1 \/ N = 3 * k + 2 \/ N = 3 * k + 3
  <2>1. (N - 1) \div 3 \in Nat
    BY <1>1
  <2> WITNESS (N - 1) \div 3 \in Nat
  <2> QED
    BY <1>1
<1>4. (N - 1) \div 3 = k
  BY <1>1, <1>3
<1>5. 2 * (2 * k + 1) > N <=> N \notin {2, 3, 6}
  <2>1. 2 * (2 * k + 1) = 4 * k + 2
    BY SMTT(60)
  <2> QED
    BY <1>3, <2>1
<1> QED
  BY <1>2, <1>4, <1>5 DEF N

\* A step that releases a lock on a block that executes inserts the block.
LEMMA LockStep ==
  ASSUME IndInv, [Next]_vars, NEW n \in Validators,
         locked[n], ~locked'[n], block[n].kind = "good"
  PROVE  chain'[n] = Append(chain[n], block[n])
<1>1. PICK p \in Validators : Step(p)
  BY DEF Next, AtBound, vars
<1>2. ASSUME NEW v \in Views, Moves(p, v) PROVE FALSE
  BY SMTT(60), <1>2 DEF Moves
<1>3. ASSUME Propose(p) PROVE FALSE
  BY SMTT(60), <1>3 DEF Propose
<1>4. ASSUME NEW b \in Block, Validates(p, b) PROVE FALSE
  BY Zenon, <1>4 DEF Validates, IndInv, TypeOK
<1>5. CASE InsertBlock(p)
  <2>1. p = n
    BY Zenon, <1>5 DEF InsertBlock, Unlock, IndInv, TypeOK
  <2>2. block[n].num = Len(chain[n]) + 1
    BY <1>5, <2>1, ValidatedHeight DEF InsertBlock
  <2> QED
    BY Zenon, <1>5, <2>1, <2>2 DEF InsertBlock, WriteBlock, IndInv, TypeOK
<1>6. ASSUME InsertFails(p) PROVE FALSE
  <2>1. p = n
    BY <1>6 DEF InsertFails, Unlock, IndInv, TypeOK
  <2> QED
    BY SMTT(60), <1>6, <2>1, InsertFailsBad
<1> QED
  BY SMTT(60), <1>1, <1>2, <1>3, <1>4, <1>5, <1>6, StepClasses

\* The unlock before insertBlock never gives up a block that could be inserted.
THEOREM LockHolds ==
  ASSUME QuorumsIntersect
  PROVE  Spec => LockHeldUntilInserted
<1>1. IndInv /\ [Next]_vars =>
        [\A n \in Validators : (locked[n] /\ ~locked'[n] /\ block[n].kind = "good")
           => chain'[n] = Append(chain[n], block[n])]_vars
  BY SMTT(60), LockStep
<1> QED
  BY <1>1, Inductive, PTL DEF Spec, LockHeldUntilInserted

\* A step never takes a validator back to an earlier view.
LEMMA ViewStep ==
  ASSUME IndInv, [Next]_vars, NEW n \in Validators, view'[n] # view[n]
  PROVE  Later(view'[n], view[n])
<1>1. PICK p \in Validators : Step(p)
  BY DEF Next, AtBound, vars
<1>2. ASSUME NEW v \in Views, Moves(p, v) PROVE Later(view'[n], view[n])
  <2>1. view' = [view EXCEPT ![p] = v] /\ ~Later(view[p], v)
    BY SMTT(60), <1>2 DEF Moves
  <2>2. p = n /\ view'[n] = v /\ view[n] \in Views
    BY <2>1 DEF IndInv, TypeOK
  <2> QED
    BY SMTT(60), <2>1, <2>2 DEF Later, Views
<1>3. ASSUME Propose(p) PROVE FALSE
  BY SMTT(60), <1>3 DEF Propose
<1>4. ASSUME NEW b \in Block, Validates(p, b) PROVE FALSE
  BY <1>4 DEF Validates
<1>5. CASE InsertBlock(p)
  <2>1. view' = [view EXCEPT ![p] = View(block[p].num + 1, 0)]
    BY SMTT(60), <1>5 DEF InsertBlock, EnterAccept
  <2>2. p = n /\ view'[n].seq = block[n].num + 1
    BY Zenon, <2>1 DEF IndInv, TypeOK, View
  <2>3. /\ block[n].num = Len(chain[n]) + 1 /\ view[n].seq = Len(chain[n]) + 1
        /\ Len(chain[n]) \in Nat
    <3>1. TypeOK /\ ViewInv /\ Validating(n)
      BY Zenon, <1>5, <2>2 DEF InsertBlock, IndInv
    <3>2. block[n].num = Len(chain[n]) + 1
      BY Zenon, <3>1, ValidatedHeight
    <3> QED
      BY <3>1, <3>2 DEF TypeOK, ViewInv, Validating
  <2> QED
    BY SMTT(60), <2>2, <2>3 DEF Later
<1>6. CASE InsertFails(p)
  <2>1. SendRoundChange(p, view[p].round + 1, rcQueue[p]) /\ state[p] # "Sync"
    BY <1>6 DEF InsertFails, EnterRoundChange, Validating
  <2>2. TypeOK /\ ViewInv /\ view[p] \in Views
    BY DEF IndInv, TypeOK
  <2>3. view[p].round + 1 \in Nat /\ view[p].round + 1 > view[p].round
    BY <2>2 DEF Views
  <2>4. PICK v \in Views : Later(v, view[p]) /\ view' = [view EXCEPT ![p] = v]
    BY <2>1, <2>2, <2>3, SendRoundChangeMoves
  <2> QED
    BY Zenon, <2>2, <2>4 DEF TypeOK
<1> QED
  BY SMTT(60), <1>1, <1>2, <1>3, <1>4, <1>5, <1>6, StepClasses

\* Sequences and rounds only grow.
THEOREM ViewsGrowHolds ==
  ASSUME QuorumsIntersect
  PROVE  Spec => ViewsGrow
<1>1. IndInv /\ [Next]_vars =>
        [\A n \in Validators : view'[n] # view[n] => Later(view'[n], view[n])]_vars
  BY ViewStep
<1> QED
  BY <1>1, Inductive, PTL DEF Spec, ViewsGrow

-----------------------------------------------------------------------------
(* Seals rest on prepares *)

\* A block stays prepared.
LEMMA StaysPrepared ==
  ASSUME TypeOK, TypeOK', preprepares \subseteq preprepares', prepares \subseteq prepares',
         NEW b, PreparedBlock(b)
  PROVE  PreparedBlock(b)'
<1>1. PICK m \in preprepares : m.blk = b /\ Cardinality(Senders(PreparesIn(m.view))) > NumValid
  BY DEF PreparedBlock
<1> DEFINE S == {q.from : q \in {q \in prepares : q.view = m.view}}
           T == {q.from : q \in {q \in prepares' : q.view = m.view}}
<1>2. S \subseteq T /\ T \subseteq Validators
  BY DEF TypeOK, Prepare
<1>3. Cardinality(S) > NumValid
  BY <1>1 DEF Senders, PreparesIn
<1>4. Cardinality(T) > NumValid
  <2> HIDE DEF S, T
  <2>1. IsFiniteSet(T) /\ IsFiniteSet(S)
    BY <1>2, ValidatorsAssumption, FS_Subset
  <2>2. Cardinality(S) <= Cardinality(T)
    BY <1>2, <2>1, FS_Subset
  <2>3. Cardinality(S) \in Nat /\ Cardinality(T) \in Nat
    BY <2>1, FS_CardinalityType
  <2> QED
    BY <1>3, <2>2, <2>3, NumValidNat
<1>5. m \in preprepares' /\ m.blk = b
  BY <1>1
<1> QED
  BY Zenon, <1>4, <1>5 DEF PreparedBlock, Senders, PreparesIn, NumValid, MaxFaultyNodes

\* What a validator seals is prepared: by the prepares it counted, by those
\* behind its lock, or by those behind a seal that it counted.
LEMMA SealedIsPrepared ==
  ASSUME IndInv, SealsArePrepared, NEW n \in Validators,
         \/ ValidatePrepared(n) \/ InsertBlock(n) \/ InsertFails(n)
         \/ \E m \in preprepares : AcceptLocked(n, m)
  PROVE  PreparedBlock(block[n])
<1>1. CASE ValidatePrepared(n)
  BY <1>1 DEF ValidatePrepared, IndInv, ValidateInv, Validating, PreparedBlock
<1>2. CASE InsertBlock(n) \/ InsertFails(n)
  <2>1. CommitsOnBlock(n)
    <3>1. InsertFails(n) => ~CommitsMixed(n)
      BY Zenon, SealsMatchFromInv DEF IndInv, InsertFails, SealsMatch, CommitsMixed
    <3> QED
      BY Zenon, <1>2, <3>1 DEF InsertBlock, InsertFails
  <2>2. Senders({c \in CommitsFor(n) : c.seal = block[n]}) # {}
    <3> DEFINE S == Senders({c \in CommitsFor(n) : c.seal = block[n]})
    <3>1. Cardinality(S) > NumValid
      BY <2>1 DEF CommitsOnBlock
    <3> HIDE DEF S
    <3>2. S # {}
      BY <3>1, NumValidNat, FS_EmptySet
    <3> QED
      BY Zenon, <3>2 DEF S
  <2>3. PICK c \in commits : c.seal = block[n]
    BY <2>2 DEF Senders, CommitsFor
  <2> QED
    BY Zenon, <2>3 DEF SealsArePrepared
<1>3. CASE \E m \in preprepares : AcceptLocked(n, m)
  BY Zenon, <1>3 DEF AcceptLocked, SealsArePrepared
<1> QED
  BY Zenon, <1>1, <1>2, <1>3

\* A step adds a seal on its own block or none, and takes a lock on a block
\* that it seals.
LEMMA SealsPreparedStep ==
  ASSUME IndInv, TypeOK', SealsArePrepared, NEW n \in Validators, Step(n)
  PROVE  SealsArePrepared'
<1> DEFINE Seals == \/ ValidatePrepared(n) \/ InsertBlock(n) \/ InsertFails(n)
                    \/ \E m \in preprepares : AcceptLocked(n, m)
<1>0. TypeOK
  BY Zenon DEF IndInv
<1>1. preprepares \subseteq preprepares' /\ prepares \subseteq prepares'
  BY Zenon DEF Step, SyncNoPeer, AcceptStep, Propose, BuildFails, AcceptLocked, RejectProposal,
     AcceptProposal, AcceptTimeout, ValidateStep, ValidatePrepared, InsertBlock, InsertFails,
     ValidateTimeout, RoundChangeStep, StartNewRound, CatchUpRound, CountRoundChange,
     RoundChangeTimeout, msgs
<1>2. CASE Seals
  <2>1. PreparedBlock(block[n])
    BY <1>2, SealedIsPrepared
  <2>2. \A c \in commits' : c \in commits \/ c.seal = block[n]
    <3>1. CASE \E m \in preprepares : AcceptLocked(n, m)
      BY <3>1 DEF AcceptLocked
    <3>2. CASE ValidatePrepared(n) \/ InsertBlock(n) \/ InsertFails(n)
      <4>1. commits' = commits \cup SendsCommit(n)
        BY Zenon, <3>2 DEF ValidatePrepared, InsertBlock, InsertFails
      <4> QED
        BY <4>1 DEF SendsCommit
    <3> QED
      BY <1>2, <3>1, <3>2
  <2>3. \A p \in Validators : locked'[p] =>
          block'[p] = block[p] /\ (locked[p] \/ p = n)
    BY Zenon, <1>0, <1>2 DEF ValidatePrepared, InsertBlock, InsertFails, AcceptLocked, Unlock, TypeOK
  <2> QED
    BY Zenon, <1>0, <1>1, <2>1, <2>2, <2>3, StaysPrepared DEF SealsArePrepared
<1>3. CASE ~Seals
  <2>1. commits' = commits /\ locked' = locked
    BY Zenon, <1>3 DEF Step, SyncNoPeer, AcceptStep, Propose, BuildFails, RejectProposal,
       AcceptProposal, AcceptTimeout, ValidateStep, ValidateTimeout, RoundChangeStep,
       StartNewRound, CatchUpRound, CountRoundChange, RoundChangeTimeout, msgs
  <2>2. \A p \in Validators : locked[p] => block'[p] = block[p]
    <3>1. CASE Propose(n)
      <4>1. PICK b \in ProposerBlocks(n) : block' = [block EXCEPT ![n] = b]
        BY Zenon, <3>1 DEF Propose
      <4>2. locked[n] => b = block[n]
        BY <4>1 DEF ProposerBlocks
      <4> QED
        BY <1>0, <4>1, <4>2 DEF TypeOK
    <3>2. CASE BuildFails(n) \/ \E m \in preprepares : AcceptProposal(n, m)
      BY Zenon, <1>0, <3>2 DEF BuildFails, AcceptProposal, TypeOK
    <3>3. CASE ~Propose(n) /\ ~BuildFails(n) /\ ~\E m \in preprepares : AcceptProposal(n, m)
      <4>1. block' = block
        BY Zenon, <1>3, <3>3 DEF Step, SyncNoPeer, AcceptStep, RejectProposal, AcceptTimeout,
           ValidateStep, ValidateTimeout, RoundChangeStep, StartNewRound, CatchUpRound,
           CountRoundChange, RoundChangeTimeout
      <4> QED
        BY Zenon, <4>1
    <3> QED
      BY <3>1, <3>2, <3>3
  <2> QED
    BY Zenon, <1>0, <1>1, <2>1, <2>2, StaysPrepared DEF SealsArePrepared
<1> QED
  BY <1>2, <1>3

\* Every seal and every lock rests on a proposal and more than NumValid
\* prepares of its view, although a validator that counts enough commits, or
\* meets its locked block again, seals without counting prepares.
THEOREM SealsPreparedHolds ==
  ASSUME QuorumsIntersect
  PROVE  Spec => []SealsArePrepared
<1>1. Init => SealsArePrepared
  BY DEF Init, SealsArePrepared
<1>2. IndInv /\ SealsArePrepared /\ [Next]_vars => SealsArePrepared'
  <2> SUFFICES ASSUME IndInv, SealsArePrepared, [Next]_vars PROVE SealsArePrepared'
    OBVIOUS
  <2>1. TypeOK'
    BY NextType DEF IndInv, NextSync
  <2>2. CASE UNCHANGED vars
    BY Zenon, <2>1, <2>2, StaysPrepared DEF vars, SealsArePrepared, IndInv
  <2> QED
    BY <2>1, <2>2, SealsPreparedStep DEF Next, AtBound
<1> QED
  BY <1>1, <1>2, Inductive, PTL DEF Spec
=============================================================================
