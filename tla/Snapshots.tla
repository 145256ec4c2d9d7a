------------------------------ MODULE Snapshots ------------------------------
(***************************************************************************)
(* The validator sets of one node (consensus/pvbft/snapshot.go, pos.go and *)
(* the callers of both in ibft.go): the sorted list of snapshots, the file *)
(* it is saved to, what setupSnapshot makes of file and chain after a      *)
(* restart, and the hook that reads the next set from the staking contract *)
(* after the last block of an epoch.                                       *)
(*                                                                         *)
(* Votes are never cast under PoS, so a snapshot is a number and a set.    *)
(* Go's sort.Sort is stable up to twelve elements; the lists here are      *)
(* shorter.                                                                *)
(***************************************************************************)
EXTENDS Integers, Sequences, FiniteSets, FiniteSetsExt

CONSTANTS
  GenesisSet,  \* the validators of the genesis block, a sequence
  Sets,        \* the sequences the staking contract may come to hold
  EpochSize,
  MaxHeight,   \* bound: blocks of the chain
  MaxFaults,   \* bound: crashes, failed writes and failed hooks
  MaxStarts    \* bound: starts of the node

ASSUME EpochAssumption == EpochSize \in Nat \ {0}

VARIABLES
  chain,    \* the headers after genesis, as the database has them
  store,    \* snapshotStore: list and lastNumber
  vset,     \* currentState.vset
  disk,     \* what loadFromPath makes of "snapshots" and "metadata": list and last
  pc,       \* "down", "replay", "failed", "restore", "idle", or "hook": a block is written, the hook is due
  saving,   \* how far Close has come
  starts, faults,
  lost,     \* the epoch blocks whose hook has not run, or whose snapshot was made again
  torn      \* the files were saved around a block, or with one that was not written

vars == <<chain, store, vset, disk, pc, saving, starts, faults, lost, torn>>

Height == Len(chain)
IsLastOfEpoch(n) == n > 0 /\ n % EpochSize = 0
EpochStart(n) == (n \div EpochSize) * EpochSize

\* The validators in the contract after block n, and those in its extra data.
Staked(n) == IF n = 0 THEN GenesisSet ELSE chain[n].staked
ExtraValidators(n) == IF n = 0 THEN GenesisSet ELSE chain[n].validators

\* The set that may seal the block after block n: the one that the contract
\* held at the end of the last epoch.
SetAt(n) == Staked(EpochStart(n))

-----------------------------------------------------------------------------
(* The sorted list *)

Snapshot(n, set) == [number |-> n, set |-> set]

\* Append and sort: behind the snapshots of the same number.
add(list, s) ==
  LET i == Min({Len(list) + 1} \cup {j \in DOMAIN list : list[j].number > s.number})
  IN SubSeq(list, 1, i - 1) \o <<s>> \o SubSeq(list, i, Len(list))

replace(list, s) ==
  LET same == {i \in DOMAIN list : list[i].number = s.number}
  IN IF same = {} THEN list ELSE [list EXCEPT ![Min(same)] = s]

\* sort.Search for the first number that is not smaller.  The list is not empty.
find(list, n) ==
  IF list[Len(list)].number < n THEN list[Len(list)]
  ELSE LET i == Min({j \in DOMAIN list : list[j].number >= n})
       IN IF i = 1 \/ list[i].number = n THEN list[i] ELSE list[i - 1]

-----------------------------------------------------------------------------
(* Headers *)

Includes(snap, a) == a \in Range(snap.set)
MaxFaultyNodes(set) == (Len(set) - 1) \div 3

\* verifySigner and verifyCommitedFields.
Verifies(snap, h, seals) ==
  /\ Includes(snap, h.proposer)
  /\ \A a \in seals : Includes(snap, a)
  /\ Cardinality(seals) > 2 * MaxFaultyNodes(snap.set)

\* processHeaders for the header of block n, if its proposer is a validator.
Authorized(st, n, h) == Includes(find(st.list, n - 1), h.proposer)

processHeaders(st, n) ==
  [list |-> add(st.list, Snapshot(n, find(st.list, n - 1).set)), last |-> n]

\* The rest of the network: blocks that the validators of the chain seal. An
\* epoch block has no transactions.
NextHeaders ==
  [validators : {SetAt(Height)}, proposer : Range(SetAt(Height)),
   staked : IF IsLastOfEpoch(Height + 1) THEN {Staked(Height)} ELSE Sets \cup {Staked(Height)}]
Quorums == {s \in SUBSET Range(SetAt(Height)) :
              Cardinality(s) = 2 * MaxFaultyNodes(SetAt(Height)) + 1}

-----------------------------------------------------------------------------
(* Start: loadFromPath and setupSnapshot *)

WithGenesis(st) ==
  IF Height = 0 THEN [st EXCEPT !.list = add(@, Snapshot(0, ExtraValidators(0)))] ELSE st

\* There is no snapshot, or the metadata are of an older epoch.
Outdated(st) == st.list = <<>> \/ st.last \div EpochSize < Height \div EpochSize

\* Mutant: an older epoch in the metadata is replayed, too.
RebuiltMissing(st) ==
  IF st.list = <<>>
  THEN [list |-> add(st.list, Snapshot(EpochStart(Height), ExtraValidators(Height))),
        last |-> EpochStart(Height)]
  ELSE st

\* Mutant: the set of the header the epoch begins with.
RebuiltFromBegin(st) ==
  IF Outdated(st)
  THEN [list |-> add(st.list, Snapshot(EpochStart(Height), ExtraValidators(EpochStart(Height)))),
        last |-> EpochStart(Height)]
  ELSE st

\* Without a snapshot of the current epoch it is made from the block the epoch
\* begins with and the validators in the head.
Rebuilt(st) ==
  IF Outdated(st)
  THEN [list |-> add(st.list, Snapshot(EpochStart(Height), ExtraValidators(Height))),
        last |-> EpochStart(Height)]
  ELSE st

\* Initialize, up to the headers after the metadata.
Start ==
  /\ pc = "down"
  /\ starts < MaxStarts
  /\ starts' = starts + 1
  /\ pc' = "replay"
  /\ store' = Rebuilt(WithGenesis(disk))
  /\ vset' = ExtraValidators(Height)
  /\ lost' = IF IsLastOfEpoch(Height) /\ Outdated(WithGenesis(disk)) THEN lost \cup {Height} ELSE lost
  /\ UNCHANGED <<chain, disk, saving, faults, torn>>

\* The next header; an error ends the node.
Replay ==
  LET n == store.last + 1 IN
  /\ pc = "replay"
  /\ n <= Height
  /\ \/ Authorized(store, n, chain[n]) /\ store' = processHeaders(store, n) /\ UNCHANGED pc
     \/ ~Authorized(store, n, chain[n]) /\ pc' = "failed" /\ UNCHANGED store
  /\ UNCHANGED <<chain, vset, disk, saving, starts, faults, lost, torn>>

\* With a restore file the server imports blocks before it starts the consensus.
Replayed(next) ==
  /\ pc = "replay"
  /\ store.last >= Height
  /\ pc' = next
  /\ UNCHANGED <<chain, store, vset, disk, saving, starts, faults, lost, torn>>

-----------------------------------------------------------------------------
(* Blocks *)

Accepts(h, seals) ==
  /\ Verifies(find(store.list, Height), h, seals)
  /\ Authorized(store, Height + 1, h)

\* WriteBlock, which calls VerifyHeader.
WriteBlock(h, seals, next) ==
  /\ Height < MaxHeight
  /\ Accepts(h, seals)
  /\ store' = processHeaders(store, Height + 1)
  /\ chain' = Append(chain, h)
  /\ lost' = IF IsLastOfEpoch(Height + 1) THEN lost \cup {Height + 1} ELSE lost
  /\ torn' = (torn \/ saving # "no")
  /\ pc' = next

InsertBlock(h, seals) ==
  /\ pc = "idle"
  /\ WriteBlock(h, seals, "hook")
  /\ UNCHANGED <<vset, disk, saving, starts, faults>>

\* importBlocks calls no hook.
RestoreBlock(h, seals) ==
  /\ pc = "restore"
  /\ WriteBlock(h, seals, "restore")
  /\ UNCHANGED <<vset, disk, saving, starts, faults>>

RestoreEnds ==
  /\ pc = "restore"
  /\ pc' = "idle"
  /\ UNCHANGED <<chain, store, vset, disk, saving, starts, faults, lost, torn>>

Fault == faults < MaxFaults /\ faults' = faults + 1

\* The header is verified, and then the block cannot be executed or stored.
WriteFails(h, seals) ==
  /\ pc = "idle"
  /\ Fault
  /\ Height < MaxHeight
  /\ Accepts(h, seals)
  /\ store' = processHeaders(store, Height + 1)
  /\ torn' = (torn \/ saving # "no")
  /\ UNCHANGED <<chain, vset, disk, pc, saving, starts, lost>>

\* updateValidators: the set of the contract becomes that of block n.
updateValidators(list, n) ==
  LET snap == find(list, n)
      new == Snapshot(n, Staked(n))
  IN IF snap.set = new.set THEN list
     ELSE IF snap.number # n THEN add(list, new)
     ELSE replace(list, new)

\* insertBlockHook, or syncStateHook for the one block since.
RunHook ==
  /\ pc = "hook"
  /\ pc' = "idle"
  /\ store' = IF IsLastOfEpoch(Height) THEN [store EXCEPT !.list = updateValidators(@, Height)]
              ELSE store
  /\ lost' = lost \ {Height}
  /\ torn' = (torn \/ (saving # "no" /\ IsLastOfEpoch(Height)))
  /\ UNCHANGED <<chain, vset, disk, saving, starts, faults>>

\* The state of the block cannot be opened, or the query runs out of gas.
HookFails ==
  /\ pc = "hook"
  /\ IsLastOfEpoch(Height)
  /\ Fault
  /\ pc' = "idle"
  /\ UNCHANGED <<chain, store, vset, disk, saving, starts, lost, torn>>

-----------------------------------------------------------------------------
(* Close and crashes *)

Running == pc \in {"idle", "hook"}

\* saveToPath writes the list and then the metadata; the consensus goroutine
\* is not stopped.
Close ==
  /\ Running
  /\ saving = "no"
  /\ saving' = "snaps"
  /\ disk' = [disk EXCEPT !.list = store.list]
  /\ torn' = (torn \/ store.last > Height)
  /\ UNCHANGED <<chain, store, vset, pc, starts, faults, lost>>

SaveMetadata ==
  /\ saving = "snaps"
  /\ saving' = "meta"
  /\ disk' = [disk EXCEPT !.last = store.last]
  /\ UNCHANGED <<chain, store, vset, pc, starts, faults, lost, torn>>

Empty == [list |-> <<>>, last |-> 0]
Down == pc' = "down" /\ saving' = "no" /\ store' = Empty /\ vset' = <<>>

Exit ==
  /\ saving = "meta"
  /\ Down
  /\ UNCHANGED <<chain, disk, starts, faults, lost, torn>>

\* A file that was being written is cut short: loadFromPath removes it.
Crash ==
  /\ pc \in {"replay", "restore", "idle", "hook"}
  /\ Fault
  /\ Down
  /\ \/ UNCHANGED disk
     \/ Running /\ saving = "no" /\ disk' = [disk EXCEPT !.list = <<>>]
     \/ saving = "snaps" /\ disk' = [disk EXCEPT !.last = 0]
  /\ UNCHANGED <<chain, starts, lost, torn>>

-----------------------------------------------------------------------------
Init ==
  /\ chain = <<>>
  /\ store = Empty
  /\ vset = <<>>
  /\ disk = Empty
  /\ pc = "down"
  /\ saving = "no"
  /\ starts = 0
  /\ faults = 0
  /\ lost = {}
  /\ torn = FALSE

Next ==
  \/ Start \/ Replay
  \/ \E next \in {"idle", "restore"} : Replayed(next)
  \/ \E h \in NextHeaders, seals \in Quorums :
       InsertBlock(h, seals) \/ RestoreBlock(h, seals) \/ WriteFails(h, seals)
  \/ RestoreEnds \/ RunHook \/ HookFails
  \/ Close \/ SaveMetadata \/ Exit \/ Crash

Spec == Init /\ [][Next]_vars

-----------------------------------------------------------------------------
(* Properties *)

\* What is known to cost a node the set of the current epoch: the hook of the
\* epoch block did not run (restoring an archive does not run it), a start made
\* the snapshot of the epoch block again while it was the head, or the two
\* files were written around a block or with a header that has no block.
SetMayBeOld == torn \/ EpochStart(Height) \in lost

\* Otherwise the snapshot at the head has the validators of the epoch, after
\* any crash, restart, failed write or repeated header, whatever of the two
\* files is left.
RightSet ==
  pc = "idle" => SetMayBeOld \/ find(store.list, Height).set = SetAt(Height)

\* setupSnapshot never refuses the node's own chain: the replay starts from a
\* set that sealed it.
StartSucceeds == pc = "failed" => torn
=============================================================================
