-------------------------------- MODULE Ibft --------------------------------
(***************************************************************************)
(* The consensus state machine of consensus/pvbft (ibft.go, state.go,      *)
(* msg_queue.go): a fixed set of validators, each running                  *)
(* SyncState -> AcceptState -> ValidateState -> (CommitState) and          *)
(* RoundChangeState, exchanging Preprepare, Prepare, Commit and            *)
(* RoundChange messages over gossip that may delay, reorder or lose them.  *)
(*                                                                         *)
(* Two next-state relations share the actions (IbftFaults has a third):    *)
(*   Next       consensus steps only (a validator may stop at any time);   *)
(*   NextSync   also lets a validator that is behind leave for SyncState   *)
(*              and copy the chain of a peer.                              *)
(*                                                                         *)
(* The tallies of Prepare and Commit messages are not variables.  A read   *)
(* of runValidateState that crosses no threshold changes nothing that a    *)
(* later step can observe, so the loop is modelled by the read that does:  *)
(* its guard asks for the messages that must have been sent by then.       *)
(***************************************************************************)
EXTENDS Integers, FiniteSets, Sequences

CONSTANTS
  Validators,    \* the validator set (snapshot and vset agree on it)
  ProposerOf(_), \* the validator picked from the seed of a head block
  Genesis,       \* the head of an empty chain
  Nil,           \* no block
  Kinds,         \* kinds of block a proposer can build
  Salts,         \* timestamps that tell apart two builds in the same view
  MaxHeight,     \* bound: no proposal above this height
  MaxRound       \* bound: no round change above this round

ASSUME ValidatorsAssumption == IsFiniteSet(Validators) /\ Validators # {}
ASSUME BoundsAssumption == MaxHeight \in Nat /\ MaxRound \in Nat
ASSUME KindsAssumption == Kinds \subseteq {"good", "badHeader", "badBody"}

VARIABLES
  state,         \* [Validators -> States]: currentState.state
  view,          \* [Validators -> Views]: currentState.view
  block,         \* [Validators -> Block or Nil]: currentState.block
  locked,        \* [Validators -> BOOLEAN]: currentState.locked
  roundMessages, \* [Validators -> [rounds -> senders]]
  rcQueue,       \* [Validators -> RoundChange messages still to be read]
  chain,         \* [Validators -> Seq(Block)]: the canonical chain
  preprepares,   \* Preprepare messages gossiped so far
  prepares,      \* Prepare messages gossiped so far
  commits        \* Commit messages gossiped so far

vars == <<state, view, block, locked, roundMessages, rcQueue, chain,
          preprepares, prepares, commits>>

-----------------------------------------------------------------------------
(* Data *)

\* "Accept" and "RoundChange": in the body of runAcceptState and of
\* runRoundChangeState (their heads belong to the step that leads there);
\* "Validate", "Sealed": in runValidateState before and after sendCommit.
States == {"Sync", "Accept", "Validate", "Sealed", "RoundChange"}

Views == [seq : Nat, round : Nat]
View(s, r) == [seq |-> s, round |-> r]

\* cmpView(v, w) > 0
Later(v, w) == v.seq > w.seq \/ (v.seq = w.seq /\ v.round > w.round)

\* A "badHeader" block fails verifyHeaderImpl, a "badBody" block passes it
\* and fails WriteBlock, at every validator alike.
Block == [num : Nat, round : Nat, by : Validators, salt : Salts, kind : Kinds]

Preprepare == [view : Views, from : Validators, blk : Block]
Prepare == [view : Views, from : Validators]
Commit == [view : Views, from : Validators, seal : Block]
RoundChange == [view : Views, from : Validators]

MaxFaultyNodes == (Cardinality(Validators) - 1) \div 3
\* Mutant: a quorum of F + 1.
NumValidWeak == MaxFaultyNodes
NumValid == 2 * MaxFaultyNodes

HeadOf(n) == IF chain[n] = <<>> THEN Genesis ELSE chain[n][Len(chain[n])]

\* CalculateProposerHook: the seed of the head alone decides, not the round.
IsProposer(n, p) == p = ProposerOf(HeadOf(n))

PreparesIn(v) == {m \in prepares : m.view = v}

\* The commits of its view that n can read: its own reach it through its own
\* queue, so those of an earlier incarnation, for another block, do not.
CommitsFor(n) ==
  {m \in commits : m.view = view[n] /\ (m.from = n => m.seal = block[n])}

Senders(ms) == {m.from : m \in ms}

-----------------------------------------------------------------------------
Init ==
  /\ state = [n \in Validators |-> "Sync"]
  /\ view = [n \in Validators |-> View(0, 0)]
  /\ block = [n \in Validators |-> Nil]
  /\ locked = [n \in Validators |-> FALSE]
  /\ roundMessages = [n \in Validators |-> [r \in 0..MaxRound |-> {}]]
  /\ rcQueue = [n \in Validators |-> {}]
  /\ chain = [n \in Validators |-> <<>>]
  /\ preprepares = {}
  /\ prepares = {}
  /\ commits = {}

msgs == <<preprepares, prepares, commits>>
roundVars == <<roundMessages, rcQueue>>

-----------------------------------------------------------------------------
(* Transitions between the states *)

\* To AcceptState at view v, with the head of runAcceptState: resetRoundMsgs.
\* RoundChange messages that are not later than v can never be read again.
EnterAccept(n, v) ==
  /\ state' = [state EXCEPT ![n] = "Accept"]
  /\ view' = [view EXCEPT ![n] = v]
  /\ roundMessages' = [roundMessages EXCEPT ![n] = [r \in 0..MaxRound |-> {}]]
  /\ rcQueue' = [rcQueue EXCEPT ![n] = {m \in @ : Later(m.view, v)}]

\* sendRoundChange(r), with queue what is left of rcQueue[n]: set the round,
\* cleanRound(r), gossip to everyone and to the validator's own queue.
SendRoundChange(n, r, queue) ==
  LET v == View(view[n].seq, r)
      m == [view |-> v, from |-> n]
      canRead(p) == Later(v, view[p]) \/ (v = view[p] /\ state[p] = "RoundChange")
  IN /\ r <= MaxRound
     /\ view' = [view EXCEPT ![n] = v]
     /\ roundMessages' = [roundMessages EXCEPT ![n][r] = {}]
     /\ rcQueue' = [p \in Validators |->
          IF p = n THEN {o \in queue : ~Later(v, o.view)} \cup {m}
          ELSE IF canRead(p) THEN rcQueue[p] \cup {m} ELSE rcQueue[p]]

\* To RoundChangeState, with the head of runRoundChangeState: maxRound finds
\* nothing, for resetRoundMsgs has run and only RoundChangeState adds to the
\* tallies, so it asks for the next round.
EnterRoundChange(n) ==
  /\ state' = [state EXCEPT ![n] = "RoundChange"]
  /\ SendRoundChange(n, view[n].round + 1, rcQueue[n])

\* runSyncState with no better peer: isValidSnapshot sets the view.
SyncNoPeer(n) ==
  /\ state[n] = "Sync"
  /\ \A p \in Validators : Len(chain[p]) <= Len(chain[n])
  /\ EnterAccept(n, View(Len(chain[n]) + 1, 0))
  /\ UNCHANGED <<block, locked, chain, msgs>>

-----------------------------------------------------------------------------
(* AcceptState *)

InSequence(n) ==
  /\ state[n] = "Accept"
  /\ view[n].seq = Len(chain[n]) + 1
  /\ view[n].seq <= MaxHeight

\* A proposer that holds no lock builds a block; one that does proposes the
\* locked block again.  It gossips Preprepare, then Prepare.
ProposerBlocks(n) ==
  IF locked[n]
  THEN {block[n]}
  ELSE {[num |-> Len(chain[n]) + 1, round |-> view[n].round, by |-> n,
         salt |-> s, kind |-> k] : s \in Salts, k \in Kinds}

Propose(n) ==
  /\ InSequence(n)
  /\ IsProposer(n, n)
  /\ \E b \in ProposerBlocks(n) :
       /\ block' = [block EXCEPT ![n] = b]
       /\ preprepares' = preprepares \cup {[view |-> view[n], from |-> n, blk |-> b]}
  /\ prepares' = prepares \cup {[view |-> view[n], from |-> n]}
  /\ state' = [state EXCEPT ![n] = "Validate"]
  /\ UNCHANGED <<view, locked, roundVars, chain, commits>>

\* buildBlock returned an error (and no block).
BuildFails(n) ==
  /\ InSequence(n)
  /\ IsProposer(n, n)
  /\ ~locked[n]
  /\ block' = [block EXCEPT ![n] = Nil]
  /\ EnterRoundChange(n)
  /\ UNCHANGED <<locked, chain, msgs>>

\* The Preprepare that getNextMessage returns; one that is not from the
\* proposer is dropped and changes nothing.
ReadsPreprepare(n, m) ==
  /\ InSequence(n)
  /\ ~IsProposer(n, n)
  /\ m.view = view[n]
  /\ IsProposer(n, m.from)

\* A locked validator that receives its block again sends only a Commit.
AcceptLocked(n, m) ==
  /\ ReadsPreprepare(n, m)
  /\ locked[n]
  /\ m.blk = block[n]
  /\ commits' = commits \cup {[view |-> view[n], from |-> n, seal |-> block[n]]}
  /\ state' = [state EXCEPT ![n] = "Validate"]
  /\ UNCHANGED <<view, block, locked, roundVars, chain, preprepares, prepares>>

\* handleStateErr with errIncorrectBlockLocked or errBlockVerificationFailed.
RejectProposal(n, m) ==
  /\ ReadsPreprepare(n, m)
  /\ IF locked[n] THEN m.blk # block[n] ELSE m.blk.kind = "badHeader"
  /\ EnterRoundChange(n)
  /\ UNCHANGED <<block, locked, chain, msgs>>

AcceptProposal(n, m) ==
  /\ ReadsPreprepare(n, m)
  /\ ~locked[n]
  /\ m.blk.kind # "badHeader"
  /\ block' = [block EXCEPT ![n] = m.blk]
  /\ prepares' = prepares \cup {[view |-> view[n], from |-> n]}
  /\ state' = [state EXCEPT ![n] = "Validate"]
  /\ UNCHANGED <<view, locked, roundVars, chain, preprepares, commits>>

AcceptTimeout(n) ==
  /\ InSequence(n)
  /\ ~IsProposer(n, n)
  /\ EnterRoundChange(n)
  /\ UNCHANGED <<block, locked, chain, msgs>>

-----------------------------------------------------------------------------
(* ValidateState and CommitState *)

Validating(n) == state[n] \in {"Validate", "Sealed"}

\* sendCommit: gossip the committed seal once per ValidateState.
SendsCommit(n) ==
  IF state[n] = "Sealed"
  THEN {}
  ELSE {[view |-> view[n], from |-> n, seal |-> block[n]]}

\* Mutant: NumValid Prepare messages are enough.
ValidatePreparedEarly(n) ==
  /\ state[n] = "Validate"
  /\ Cardinality(Senders(PreparesIn(view[n]))) >= NumValid
  /\ locked' = [locked EXCEPT ![n] = TRUE]
  /\ commits' = commits \cup SendsCommit(n)
  /\ state' = [state EXCEPT ![n] = "Sealed"]
  /\ UNCHANGED <<view, block, roundVars, chain, preprepares, prepares>>

\* More than NumValid Prepare messages of the view have been read.
ValidatePrepared(n) ==
  /\ state[n] = "Validate"
  /\ Cardinality(Senders(PreparesIn(view[n]))) > NumValid
  /\ locked' = [locked EXCEPT ![n] = TRUE]
  /\ commits' = commits \cup SendsCommit(n)
  /\ state' = [state EXCEPT ![n] = "Sealed"]
  /\ UNCHANGED <<view, block, roundVars, chain, preprepares, prepares>>

\* The tally of commits, one per sender and all of the view, gets above
\* NumValid with seals on this block only.  WriteBlock then succeeds if the
\* block executes and its parent is known.
CommitsOnBlock(n) ==
  Cardinality(Senders({c \in CommitsFor(n) : c.seal = block[n]})) > NumValid

Executes(n) == block[n].kind = "good" /\ block[n].num <= Len(chain[n]) + 1

\* The tally gets there with a seal on another block among them, which
\* verifyCommitedFields refuses.
CommitsMixed(n) ==
  /\ Cardinality(Senders(CommitsFor(n))) > NumValid
  /\ \E c \in CommitsFor(n) : c.seal # block[n]

\* A block above the head becomes the head; a block at or below it is stored
\* beside the canonical chain.
WriteBlock(n, b) ==
  IF b.num = Len(chain[n]) + 1 THEN Append(chain[n], b) ELSE chain[n]

\* Mutant: the block is dropped and the lock kept.
UnlockBlockOnly(n) ==
  /\ block' = [block EXCEPT ![n] = Nil]
  /\ UNCHANGED locked

\* CommitState: the lock is released before insertBlock runs.
Unlock(n) ==
  /\ block' = [block EXCEPT ![n] = Nil]
  /\ locked' = [locked EXCEPT ![n] = FALSE]

InsertBlock(n) ==
  /\ Validating(n)
  /\ CommitsOnBlock(n) /\ Executes(n)
  /\ commits' = commits \cup SendsCommit(n)
  /\ Unlock(n)
  /\ chain' = [chain EXCEPT ![n] = WriteBlock(n, block[n])]
  /\ EnterAccept(n, View(block[n].num + 1, 0))
  /\ UNCHANGED <<preprepares, prepares>>

\* handleStateErr with errFailedToInsertBlock.
InsertFails(n) ==
  /\ Validating(n)
  /\ CommitsMixed(n) \/ (CommitsOnBlock(n) /\ ~Executes(n))
  /\ commits' = commits \cup SendsCommit(n)
  /\ Unlock(n)
  /\ EnterRoundChange(n)
  /\ UNCHANGED <<chain, preprepares, prepares>>

\* Mutant: a timeout releases the lock.
ValidateTimeoutUnlocks(n) ==
  /\ Validating(n)
  /\ NumValid > 0
  /\ Unlock(n)
  /\ EnterRoundChange(n)
  /\ UNCHANGED <<chain, msgs>>

\* With NumValid = 0 the validator's own message, already queued, crosses the
\* threshold before the timer is looked at.
ValidateTimeout(n) ==
  /\ Validating(n)
  /\ NumValid > 0
  /\ EnterRoundChange(n)
  /\ UNCHANGED <<block, locked, chain, msgs>>

-----------------------------------------------------------------------------
(* RoundChangeState *)

OwnQueued(n) == {m \in rcQueue[n] : m.from = n}

\* What readMessage can return: a message of this sequence, of this round or
\* a later one, and not behind one of the validator's own in the heap.
ReadsRoundChange(n, m) ==
  /\ state[n] = "RoundChange"
  /\ m \in rcQueue[n]
  /\ m.view.seq = view[n].seq
  /\ \A o \in OwnQueued(n) : m.view.round <= o.view.round

\* AddRoundMessage(m)
Tally(n, m) == roundMessages[n][m.view.round] \cup {m.from}

\* Exactly NumValid messages: start the round they ask for.
StartNewRound(n, m) ==
  /\ ReadsRoundChange(n, m)
  /\ Cardinality(Tally(n, m)) = NumValid
  /\ EnterAccept(n, m.view)
  /\ UNCHANGED <<block, locked, chain, msgs>>

\* Weak certificate: F + 1 messages of a later round.
WeakCertificate(n, m) ==
  /\ Cardinality(Tally(n, m)) # NumValid
  /\ Cardinality(Tally(n, m)) = MaxFaultyNodes + 1
  /\ view[n].round < m.view.round

CatchUpRound(n, m) ==
  /\ ReadsRoundChange(n, m)
  /\ WeakCertificate(n, m)
  /\ SendRoundChange(n, m.view.round, rcQueue[n] \ {m})
  /\ UNCHANGED <<state, block, locked, chain, msgs>>

CountRoundChange(n, m) ==
  /\ ReadsRoundChange(n, m)
  /\ Cardinality(Tally(n, m)) # NumValid
  /\ ~WeakCertificate(n, m)
  /\ rcQueue' = [rcQueue EXCEPT ![n] = @ \ {m}]
  /\ roundMessages' = [roundMessages EXCEPT ![n][m.view.round] = Tally(n, m)]
  /\ UNCHANGED <<state, view, block, locked, chain, msgs>>

\* Mutant: every timeout asks for the first round.
RoundChangeTimeoutFirst(n) ==
  /\ state[n] = "RoundChange"
  /\ OwnQueued(n) = {}
  /\ SendRoundChange(n, 0, rcQueue[n])
  /\ UNCHANGED <<state, block, locked, chain, msgs>>

\* The timer fires (the own message is read by then) and no peer is ahead.
RoundChangeTimeout(n) ==
  /\ state[n] = "RoundChange"
  /\ OwnQueued(n) = {}
  /\ SendRoundChange(n, view[n].round + 1, rcQueue[n])
  /\ UNCHANGED <<state, block, locked, chain, msgs>>

-----------------------------------------------------------------------------
(* SyncState after the start *)

PeerAhead(n) == \E p \in Validators : Len(chain[p]) > Len(chain[n])

\* checkTimeout found a peer that is ahead: at the head of runRoundChangeState
\* after a timeout or a failed build (never after an error), or when its own
\* timer fired.
LeaveForSync(n) ==
  /\ \/ InSequence(n) /\ ~(IsProposer(n, n) /\ locked[n])
     \/ Validating(n) /\ NumValid > 0
     \/ state[n] = "RoundChange" /\ OwnQueued(n) = {}
  /\ PeerAhead(n)
  /\ state' = [state EXCEPT ![n] = "Sync"]
  /\ UNCHANGED <<view, block, locked, roundVars, chain, msgs>>

\* Mutant: the blocks are asked for from one too high.
BulkSyncSkipsOne(n, p) ==
  /\ state[n] = "Sync"
  /\ Len(chain[p]) > Len(chain[n])
  /\ chain' = [chain EXCEPT ![n] = @ \o SubSeq(chain[p], Len(@) + 2, Len(chain[p]))]
  /\ EnterAccept(n, View(Len(chain[p]) + 1, 0))
  /\ UNCHANGED <<block, locked, msgs>>

\* BulkSyncWithPeer ran to the peer's head; isValidSnapshot sets the view.
BulkSync(n, p) ==
  /\ state[n] = "Sync"
  /\ Len(chain[p]) > Len(chain[n])
  /\ chain' = [chain EXCEPT ![n] = chain[p]]
  /\ EnterAccept(n, View(Len(chain[p]) + 1, 0))
  /\ UNCHANGED <<block, locked, msgs>>

\* BulkSyncWithPeer failed on the way; runSyncState tries again.
BulkSyncFails(n, p) ==
  /\ state[n] = "Sync"
  /\ \E k \in Len(chain[n]) + 1 .. Len(chain[p]) - 1 :
       chain' = [chain EXCEPT ![n] = SubSeq(chain[p], 1, k)]
  /\ UNCHANGED <<state, view, block, locked, roundVars, msgs>>

\* The sequence of the view is not the one after the head.
AcceptOutOfSequence(n) ==
  /\ state[n] = "Accept"
  /\ view[n].seq # Len(chain[n]) + 1
  /\ state' = [state EXCEPT ![n] = "Sync"]
  /\ UNCHANGED <<view, block, locked, roundVars, chain, msgs>>

-----------------------------------------------------------------------------
(* Specifications *)

\* A bound was reached: the model stops where the program would go on.
AtBound ==
  /\ \E n \in Validators : \/ view[n].round = MaxRound
                          \/ view[n].seq > MaxHeight
  /\ UNCHANGED vars

AcceptStep(n) ==
  \/ Propose(n)
  \/ BuildFails(n)
  \/ \E m \in preprepares :
       AcceptLocked(n, m) \/ RejectProposal(n, m) \/ AcceptProposal(n, m)
  \/ AcceptTimeout(n)

ValidateStep(n) ==
  \/ ValidatePrepared(n)
  \/ InsertBlock(n)
  \/ InsertFails(n)
  \/ ValidateTimeout(n)

RoundChangeStep(n) ==
  \/ \E m \in rcQueue[n] :
       StartNewRound(n, m) \/ CatchUpRound(n, m) \/ CountRoundChange(n, m)
  \/ RoundChangeTimeout(n)

SyncStep(n) ==
  \/ LeaveForSync(n)
  \/ \E p \in Validators : BulkSync(n, p) \/ BulkSyncFails(n, p)
  \/ AcceptOutOfSequence(n)

Step(n) == SyncNoPeer(n) \/ AcceptStep(n) \/ ValidateStep(n) \/ RoundChangeStep(n)

Next == (\E n \in Validators : Step(n)) \/ AtBound
NextSync == (\E n \in Validators : SyncStep(n)) \/ Next

Spec == Init /\ [][Next]_vars
SpecSync == Init /\ [][NextSync]_vars

-----------------------------------------------------------------------------
(* Properties *)

\* The types of the variables; a locked or validating state has a block, which
\* runAcceptState and sendCommitMsg read without a nil check.
TypeOK ==
  /\ state \in [Validators -> States]
  /\ view \in [Validators -> Views]
  /\ block \in [Validators -> Block \cup {Nil}]
  /\ locked \in [Validators -> BOOLEAN]
  /\ roundMessages \in [Validators -> [0..MaxRound -> SUBSET Validators]]
  /\ rcQueue \in [Validators -> SUBSET RoundChange]
  /\ chain \in [Validators -> Seq(Block)]
  /\ preprepares \subseteq Preprepare
  /\ prepares \subseteq Prepare
  /\ commits \subseteq Commit
  /\ \A n \in Validators : locked[n] \/ Validating(n) => block[n] \in Block

\* Two different blocks are never inserted at the same height, whatever
\* messages are lost and however the rounds are changed (WriteBlock after a
\* quorum of commits).
Agreement ==
  \A n, p \in Validators : \A h \in 1..Len(chain[n]) :
    h <= Len(chain[p]) => chain[n][h] = chain[p][h]

\* A validator never seals two different blocks of the same height, unless
\* the first one could not be executed (sendCommitMsg under the lock).
OneSealPerHeight ==
  \A c1, c2 \in commits :
    (c1.from = c2.from /\ c1.seal.num = c2.seal.num
       /\ c1.seal.kind = "good" /\ c2.seal.kind = "good")
    => c1.seal = c2.seal

\* The commits a validator tallies all seal the block it is validating, so
\* insertBlock never assembles seals of two blocks: addCommitted compares no
\* digests and leans on there being one proposal per view.
SealsMatch ==
  \A n \in Validators : Validating(n) =>
    \A c \in CommitsFor(n) : c.seal = block[n]

\* Every seal and every lock stands on more than NumValid prepares of one
\* view in which the block was proposed.
PreparedBlock(b) ==
  \E m \in preprepares :
    m.blk = b /\ Cardinality(Senders(PreparesIn(m.view))) > NumValid

SealsArePrepared ==
  /\ \A c \in commits : PreparedBlock(c.seal)
  /\ \A n \in Validators : locked[n] => PreparedBlock(block[n])

\* The blocks that more than NumValid validators have sealed.
Certified ==
  {b \in Block : Cardinality(Senders({c \in commits : c.seal = b})) > NumValid}

\* Every block of a chain, written by insertBlock or by the syncer, is sealed
\* by more than NumValid validators and executes.
CertifiedChain ==
  \A n \in Validators : \A h \in 1..Len(chain[n]) :
    /\ chain[n][h].num = h
    /\ chain[n][h].kind = "good"
    /\ chain[n][h] \in Certified

\* A lock on a block that executes is only released by inserting the block
\* (unlock before insertBlock never ends in errFailedToInsertBlock).
LockHeldUntilInserted ==
  [][\A n \in Validators :
       (locked[n] /\ ~locked'[n] /\ block[n].kind = "good")
       => chain'[n] = Append(chain[n], block[n])]_vars

\* insertBlock moves to the next sequence ("increase the sequence number and
\* reset the round if any").
InsertAdvances ==
  [][\A n \in Validators : InsertBlock(n) => view'[n].seq > view[n].seq]_vars

\* A view is never taken up twice: rounds and sequences only grow.
ViewsGrow ==
  [][\A n \in Validators : view'[n] # view[n] => Later(view'[n], view[n])]_vars

-----------------------------------------------------------------------------
(* The inductive invariant of Spec *)

\* Two quorums of NumValid + 1 validators have a validator in common.
QuorumsIntersect == 2 * (NumValid + 1) > Cardinality(Validators)

\* The block at height h of n's chain.
HeadAt(n, h) == IF h = 0 THEN Genesis ELSE chain[n][h]

\* A queued RoundChange message is not older than the reader's view.
RoundInv ==
  \A n \in Validators : \A m \in rcQueue[n] : ~Later(view[n], m.view)

\* After the start the view is at the height after the head.
ViewInv ==
  \A n \in Validators :
    IF state[n] = "Sync"
    THEN chain[n] = <<>> /\ view[n] = View(0, 0) /\ ~locked[n]
    ELSE view[n].seq = Len(chain[n]) + 1

\* A lock is on a block of the current height.
LockInv ==
  \A n \in Validators :
    locked[n] => block[n].num = Len(chain[n]) + 1

\* A proposal comes from the proposer of its height, who is still validating
\* it or has left its view.
ProposalInv ==
  \A m \in preprepares :
    /\ m.view.seq \in 1 .. Len(chain[m.from]) + 1
    /\ m.blk.num = m.view.seq
    /\ m.from = ProposerOf(HeadAt(m.from, m.view.seq - 1))
    /\ \/ Validating(m.from) /\ view[m.from] = m.view
       \/ Later(view[m.from], m.view)

OneProposalPerView ==
  \A m1, m2 \in preprepares : m1.view = m2.view => m1 = m2

\* A validator validates the proposal of its view.
ValidateInv ==
  \A n \in Validators : Validating(n) =>
    \E m \in preprepares : m.view = view[n] /\ m.blk = block[n]

\* A seal is on the proposal of its view.
CommitInv ==
  \A c \in commits : \E m \in preprepares : m.view = c.view /\ m.blk = c.seal

\* Who sealed a block that executes is locked on it or has inserted it.
SealInv ==
  \A c \in commits : c.seal.kind = "good" =>
    \/ locked[c.from] /\ block[c.from] = c.seal
    \/ c.seal.num \in 1 .. Len(chain[c.from]) /\ chain[c.from][c.seal.num] = c.seal

\* The strengthening of Agreement that every step of Spec preserves.
IndInv ==
  /\ TypeOK
  /\ RoundInv
  /\ ViewInv
  /\ LockInv
  /\ ProposalInv
  /\ OneProposalPerView
  /\ ValidateInv
  /\ CommitInv
  /\ SealInv
  /\ CertifiedChain
=============================================================================
