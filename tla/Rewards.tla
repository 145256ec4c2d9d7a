------------------------------ MODULE Rewards -------------------------------
(***************************************************************************)
(* The reward of a block (consensus/pvbft/blockreward.go): every proposer  *)
(* keeps its own account of what is left of the quota of the current two   *)
(* years, in memory and in a database of its own, and pays itself the      *)
(* reward of every block it builds.                                        *)
(*                                                                         *)
(* The numbers of the code are scaled down.  remaining is a pointer: after *)
(* calcEpochTotal it is the entry of the list itself, and what is settled  *)
(* is taken from that entry.                                               *)
(***************************************************************************)
EXTENDS Integers, Sequences, SequencesExt, FiniteSets, TLC

CONSTANTS
  Proposers,
  RewardTotal,    \* 660000000 in the code
  Periods,        \* entries of the list: 10 in the code
  TwoYears,       \* epochs of two years
  epochSize,
  outBlock,       \* blocks of two years
  MaxBlocks,      \* bound: blocks
  MaxBuilds,      \* bound: blocks that are built
  MaxRestarts     \* bound: restarts

VARIABLES
  mem,        \* proposer -> reward, rewardList, and what epochTotal and remaining are
  db,         \* proposer -> reward and remaining as they are stored
  height,     \* of the chain
  paid,       \* the reward in the last block
  spent,      \* history: proposer -> entry or Own -> settled since the start
  started,    \* history: proposer -> remaining in the database at the start
  low,        \* history: proposers that started with less than a reward left
  restarts,
  builds

rewardVars == <<mem, db, height, paid, spent, started, low, restarts, builds>>

-----------------------------------------------------------------------------
\* initReward: one half after the other, and the last of them again.
Halved[n \in Nat] ==
  IF n = 0 THEN RewardTotal ELSE Halved[n - 1] - Halved[n - 1] \div 2
rewardList == [k \in 1 .. Periods |-> IF k = Periods THEN Halved[Periods - 1] ELSE Halved[k]]

GetEpoch(number) ==
  IF number % epochSize = 0 THEN number \div epochSize ELSE number \div epochSize + 1

\* An entry of the list is a number that remaining and epochTotal may point to;
\* 0 is the zero that epochTotal starts with, and Own no entry of the list.
Own == -1
newBlockReward ==
  [reward |-> 0, list |-> (0 :> 0) @@ rewardList, epochTotal |-> 0, remaining |-> Own, own |-> 0]
Remaining(m) == IF m.remaining = Own THEN m.own ELSE m.list[m.remaining]

\* The first period that the epoch is not past; 0 after the last.
PeriodOf(epoch) ==
  LET later == {k \in 1 .. Periods : epoch <= k * TwoYears}
  IN IF later = {} THEN 0 ELSE CHOOSE k \in later : \A j \in later : k <= j

\* Mutant: remaining is a copy of the entry.
calcEpochTotalCopy(m, epoch) ==
  LET k == IF PeriodOf(epoch) = 0 THEN m.epochTotal ELSE PeriodOf(epoch)
      n == [m EXCEPT !.epochTotal = k, !.remaining = Own, !.own = m.list[k],
                     !.reward = m.list[k] \div outBlock]
  IN [m |-> n, d |-> [reward |-> n.reward, remaining |-> Remaining(n)]]

\* Both numbers are stored.  After the last period the total stays what it was.
calcEpochTotal(m, epoch) ==
  LET k == IF PeriodOf(epoch) = 0 THEN m.epochTotal ELSE PeriodOf(epoch)
      n == [m EXCEPT !.epochTotal = k, !.remaining = k, !.reward = m.list[k] \div outBlock]
  IN [m |-> n, d |-> [reward |-> n.reward, remaining |-> Remaining(n)]]

\* What is left is compared as it is stored; a reward of 0 is read from the
\* database before it is calculated.
GetReward(m, d, epoch) ==
  LET a == IF d.remaining < m.reward THEN calcEpochTotal(m, epoch) ELSE [m |-> m, d |-> d]
  IN IF a.m.reward # 0 THEN a
     ELSE IF a.d.reward > 0 THEN [a EXCEPT !.m.reward = a.d.reward]
     ELSE calcEpochTotal(a.m, epoch)

\* Bytes drops the sign.
Magnitude(n) == IF n < 0 THEN -n ELSE n

\* The reward is taken from the number that remaining points to.
settlementReward(a) ==
  LET read == Remaining(a.m) = 0
      left == (IF read THEN a.d.remaining ELSE Remaining(a.m)) - a.m.reward
      d == [a.d EXCEPT !.remaining = Magnitude(left)]
  IN IF read \/ a.m.remaining = Own
     THEN [m |-> [a.m EXCEPT !.remaining = Own, !.own = left], d |-> d]
     ELSE [m |-> [a.m EXCEPT !.list[a.m.remaining] = left], d |-> d]

-----------------------------------------------------------------------------
\* writeFixedReward: the transaction with the reward, and the settlement, which
\* is done when the block is built, whether or not it is committed.
BuildBlock(p, committed) ==
  /\ height < MaxBlocks /\ builds < MaxBuilds
  /\ builds' = builds + 1
  /\ LET a == GetReward(mem[p], db[p], GetEpoch(height + 1))
         s == settlementReward(a)
     IN /\ mem' = [mem EXCEPT ![p] = s.m]
        /\ db' = [db EXCEPT ![p] = s.d]
        /\ spent' = [spent EXCEPT ![p][s.m.remaining] = @ + a.m.reward]
        /\ paid' = IF committed THEN a.m.reward ELSE paid
  /\ height' = IF committed THEN height + 1 ELSE height
  /\ UNCHANGED <<started, low, restarts>>

\* The transaction is not accepted: the reward has been asked for, no more.
BuildFails(p) ==
  /\ height < MaxBlocks /\ builds < MaxBuilds
  /\ builds' = builds + 1
  /\ LET a == GetReward(mem[p], db[p], GetEpoch(height + 1))
     IN mem' = [mem EXCEPT ![p] = a.m] /\ db' = [db EXCEPT ![p] = a.d]
  /\ UNCHANGED <<height, paid, spent, started, low, restarts>>

Restart(p) ==
  /\ restarts < MaxRestarts
  /\ restarts' = restarts + 1
  /\ mem' = [mem EXCEPT ![p] = newBlockReward]
  /\ spent' = [spent EXCEPT ![p] = [k \in Own .. Periods |-> 0]]
  /\ started' = [started EXCEPT ![p] = db[p].remaining]
  /\ low' = IF db[p].remaining < db[p].reward THEN low \cup {p} ELSE low
  /\ UNCHANGED <<db, height, paid, builds>>

RewardInit ==
  /\ mem = [p \in Proposers |-> newBlockReward]
  /\ db = [p \in Proposers |-> [reward |-> 0, remaining |-> 0]]
  /\ height = 0 /\ paid = 0
  /\ spent = [p \in Proposers |-> [k \in Own .. Periods |-> 0]]
  /\ started = [p \in Proposers |-> 0]
  /\ low = {} /\ restarts = 0 /\ builds = 0

RewardNext ==
  \/ \E p \in Proposers, committed \in BOOLEAN : BuildBlock(p, committed)
  \/ \E p \in Proposers : BuildFails(p)
  \/ \E p \in Proposers : Restart(p)

-----------------------------------------------------------------------------
(* Properties *)

\* While a process runs, a proposer settles on an entry of the list no more than
\* initReward has put there, however often the quota is calculated again, and on
\* what was left at its start no more than that; except that one that starts with
\* less than one reward left pays that reward all the same.  Nothing is said over
\* a restart, where initReward fills the list anew.
QuotaKept ==
  \A p \in Proposers :
    /\ \A k \in 1 .. Periods : spent[p][k] <= rewardList[k]
    /\ p \in low \/ spent[p][Own] <= started[p]
=============================================================================
